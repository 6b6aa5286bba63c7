# SmallTrial in TLA+

SmallTrial is a collection of small programs: concurrent queues, a thread-pooled
web server, a key-value client and server, a chat client and server, a threaded
nonce search over a hand-written SHA-256, and an `ls`. This directory holds TLA+
modules of the parts with logic of their own, the TLC runs that check them on
small instances, and TLAPS proofs about both queues and the programs that use them, the
thread pool, the key-value client and server, the echo client, the chat server and its
client, the nonce search with the padding, and the `ls`.

`PROJECT.json` is the machine-readable index: components, runs, the mutant that
breaks each checked property, the source lines of each definition, findings,
hazards and theorems. Paths below are relative to the repository's root.

## 1. Inventory

| component | state | operations | hard behaviour |
|---|---|---|---|
| `queue`: lock-free queue (`lock_free_queue.rs`) | `head`, `tail`, each node's `next` and `value` | `new`, `enqueue`, `dequeue`, `drop` | interleaved compare-exchanges, a lagging tail, helping, values dropped in place while another thread still reads them |
| `queue`: lock-based queue (`lock_based_queue.rs`) | a mutex around a `LinkedList` | `enqueue`, `dequeue` | how long the guard of one statement lives |
| `WebServerDemoInRust`: thread pool, accept loop | channel of jobs behind a mutex, worker handles | `ThreadPool::new`, `execute`, `drop`, `Worker::new`, `main` | graceful shutdown, panicking or hanging jobs, poisoning, a panic while unwinding |
| `my_redis`: client and server | bounded channel, oneshots, a TCP connection each, one map behind a mutex | tasks, manager, `main`; server `process` | atomicity of requests, errors on either side, crash and restart, who wakes whom |
| `CSocket`: server | vector of clients, descriptors, one mutex, a variable of `main` shared by address | accept loop; a thread per connection with `recv` and a `switch` | stale argument, a vector changed without the mutex, reuse of descriptors, clients that vanish, SIGPIPE |
| `CSocket`: client | socket, a System V message queue shared by two threads and outliving the process | menu operations; helper thread | replies left in the queue, coalesced messages, kill and restart |
| `SHA256`: digest | the state of the hash | `digest`, `deal_block`, `deal_one`, `deal_remain`, `test_sha` | block boundaries, no data at all |
| `SHA256`: nonce search | four threads, a sender behind a mutex, a channel | `main`, the threads' loops | who reports first; sending after `main` has returned |
| `myls`: recursive listing | the process's working directory, the list of directories of each call | `list_dir`, `list_content_dir` | `chdir` and `chdir("..")` that must match and may fail, depth of the stack |
| `myls`: options, sorting, columns | option flags, the array of names | `main`, `cmp`, `order`, `list_file`, `info` | differences cut to `int`; attributes read again and again while files change, owners without a name |
| `queue`: tests and benchmark (`test()`, `benches/benchmark.rs`) | a barrier, join handles | enqueue loops, dequeue loops, `join` | which dequeues may find nothing |
| `my_redis`: echo client (`echo-server-copy.rs`) | one socket in two halves | a task that writes, `main` that reads | lines cut by TCP, an end of stream that nobody sends |
| `Some crawler` | none of its own | | |

Components of one program interact by shared memory (queues, pool, nonce search,
both threads of the chat client), channels (pool, my_redis client, nonce search)
or sockets (my_redis, chat). The chat client and the chat server are modelled
separately: each module contains as much of its peer as it sees of it.

What makes each part correct:

* queues: every operation looks as if it happened at one instant between call
  and return, in FIFO order; each value is released once; a thread is not stopped
  by another that stands still.
* thread pool: jobs start in the order of arrival, none is lost; when the pool is
  dropped every accepted job has been dealt with unless a worker died, and the
  process ends.
* my_redis: a request takes effect once at most and atomically; no error
  without a cause; the client always ends.
* chat server: a thread serves its own connection; what is listed is open; each
  request is answered by a reply of its kind, to the client that asked; a client that
  left leaves nothing behind.
* chat client: the reply that the user gets is the reply to the request made.
* echo client: what comes back is what was written, in order; `main` returns when the
  server ends.
* nonce search: the classes of nonces cover everything, the process prints a
  result and ends; digest pads and computes as FIPS 180-4 says.
* myls: each directory is listed once, under its own path; a directory
  that cannot be read costs no more than itself and what lies below it; a directory is
  listed in the order of the options, and no name of it is lost.

## 2. Modules

| module | models | checked by |
|---|---|---|
| `FifoQueue` | what a concurrent queue promises (abstract) | property of `lfq_shared`, `lock_based`; refinement proof |
| `LockFreeQueue` | `lock_free_queue.rs` | `lfq_shared`, `lfq_drop_race` |
| `LockFreeQueueProofs` | its invariant, that it implements `FifoQueue`, which destructors it runs, how many steps a call takes | TLAPS |
| `LockBasedQueue` | `lock_based_queue.rs` | `lock_based` |
| `QueuePrograms` | `test()`, the benchmark, any other caller, composed with `LockBasedQueue` | `lock_based` |
| `LockBasedQueueProofs` | its invariant, that it implements `FifoQueue`, what the programs get back, that they never stall and come nearer to their end | TLAPS |
| `ThreadPool` | `lib.rs`, `bin/main.rs` of the web server | `pool` |
| `ThreadPoolProofs` | invariant of `ThreadPool`, what follows for jobs and shutdown; when neither can stall, how many steps there are | TLAPS |
| `KeyValueStore` | an atomic map with concurrent requests (abstract) | property of `redis`; refinement proof |
| `MiniRedis` | `bin/client.rs`, `bin/server.rs` of my_redis | `redis` |
| `EchoClient` | `bin/echo-server-copy.rs` | `echo` |
| `MyRedisProofs` | invariant of `MiniRedis`, that it implements `KeyValueStore`, causes of errors; invariant of `EchoClient`; that neither stalls and both come nearer to their end | TLAPS |
| `ChatServer` | `server.cpp` | `chat_server`, `chat_fd_race` |
| `ChatServerProofs` | its invariant for any number of clients: descriptors, list, answers; how far an answer is | TLAPS |
| `ChatClient` | `client.cpp` | `chat_client` |
| `ChatClientProofs` | its invariant: the user gets the reply to the request made, and it comes nearer | TLAPS |
| `Sha256Digest` | blocks and padding of `digest` | `search` |
| `Sha256Test` | `deal_one` round by round, `test_sha` | `search` |
| `NonceSearch` | `main` of SHA256 | `search` |
| `NonceSearchProofs` | invariant of `NonceSearch`: the classes; that it never stalls and comes nearer to a nonce; padding for every length | TLAPS |
| `RecursiveListing` | `list_dir`, `list_content_dir` | `listing`, `listing_path` |
| `FileListing` | `list_file`, `order`, `cmp`, `info`, `list_single` | `listing` |
| `ListingProofs` | the sort loses no name and sorts as asked; faults, completeness and depth of the recursion | TLAPS |

`MCx` extends `x` for TLC and holds what a `.cfg` needs to give a constant its value.
`MCNonceSearch` and `MCRecursiveListing` each run two programs of one source file that do
not meet: an initial state starts one of them, the other's variables stay as they are.

Some modules hold, before an action, a second version of it that no specification uses
(`LinkBlindly` before `Link`): a plausible bug in that code. `PROJECT.json` pairs
each with the property that finds it.

### LockFreeQueue

A Michael-Scott queue. Each load, store, compare-exchange and copy is one action;
a thread's position is `pc[t]`, its locals are `node`, `cur`, `nxt`.

| code | action |
|---|---|
| `enqueue`: allocate, load tail, CAS on `next`, load `next` on failure, help, swing | `CallEnqueue`, `LoadTail`, `Link` / `LinkFails`, `LoadTailNext`, `HelpTail`, `SwingTail` |
| `dequeue`: load head, load `next`, CAS on head, `take`, `drop_in_place` | `CallDequeue`, `LoadHead`, `FindEmpty` / `FindNonEmpty`, `LoadHeadNext`, `MoveHead` / `MoveHeadFails`, `TakeValue`, `DropOldDummy` |
| `Drop for LockFreeQueue` | `BeginDrop`, `DropNode`, `EndDrop` |

`NeedsDrop` says if the value type has a destructor: only then does
`drop_in_place` do anything that others notice. `drops` counts destructors run.
Nodes are leaked by the code (`Box::leak`, never freed) so an address is used once:
a new node comes from `fresh`, and there is no ABA. `chain` (the nodes ever linked,
in order) and `popped` (how far head has moved) are history variables that no guard
reads. `Operation(t)` and `Contents` map a state to `FifoQueue`: an enqueue takes
effect when its CAS on `next` succeeds, a dequeue that returns a value at its CAS
on head, one that returns `None` when it loads a null `next`.

### LockBasedQueue

The guard is a temporary of one statement. `Lock`, `ReadList` (copy the list),
`PushBack` / `PopFront` (write it from the copy), `Unlock`, `Return`: were
the mutex not held over both, an update could be lost. `MaxLength` bounds the
values queued or under way.

### QueuePrograms

`program` says which of three programs runs. In `test` the main thread and its partner meet
at the barrier (`Arrive`, `Pass`), enqueue their numbers, and the main thread joins and
drains; in `bench` each thread but the main one enqueues and then dequeues as often; in
`free` threads call as they please. `at` is the place in the program, `todo` and
`left` what the loops have still to do, `got` what was dequeued. It is composed with
`LockBasedQueue` by sharing its variables; the lock-free queue promises the same
`FifoQueue`, and its own `test()` and benchmark are the same programs.

### ThreadPool

`chan` is the channel's content, `lock` and `poisoned` the mutex around the
receiver, `wpc`, `msg` the workers, `mpc`, `k` the position of `main` in
`accept`, in the first loop of `drop` (`SendTerminate`), in the second (`Join`).
Each job has a `fate` chosen at the start: it answers, panics (`unwrap` on a
reset connection), or hangs (a client that connects and stays silent).
`Die` drops what a dying worker holds: the last one drops the receiver and with it
the messages in it, from then on `send` fails (`AcceptPanics`,
`SendTerminateFails`), and a panic while `drop` runs for a panic aborts.
`Recv` holds the mutex while the channel is empty, as the code does: `recv` is
called on a temporary guard. `ProcessExit` ends all workers at once, also those
that `main` has not joined.

### MiniRedis and KeyValueStore

A process of the client is `main`, tasks and a manager. `SendCommand` waits for
room (`Capacity`), `AwaitResponse` for its oneshot; the manager connects, receives a
command, sends its request and responds. `ChannelClosed` needs every sender
dropped. `Await` / `AwaitPanics` are `main`'s joins; when `main` panics the runtime ends
every other task, one that still waits for room as `unsent`, for it has called nothing,
any other as `cancelled`. The server has one task for
each connection: `Accept`, `Execute` under the mutex, `WriteFrame`,
`EndOfStream`. `Unimplemented` is the panic of `unimplemented!`: it ends one
connection. `Strangers` are other programs, which may also send commands that the
server does not know. `Crash` and `Restart` lose the map and every connection.
tokio and mini_redis are modelled as they are used: no message is lost, a frame is
whole, one request of a connection is under way at a time.

`KeyValueStore` has a map and requests that are called, take effect and return a
reply or an error. With an error the effect may or may not have happened. A
restart empties the map. `Called` and `Told` say what a session has called, once its
command is in the channel, and what result it has printed.

### EchoClient

The two halves of the socket, `rd` with `main` and `wr` with the task, are one connection:
when the task has written both lines
(`Write`) and ends (`TaskEnds`), its half is dropped but nothing is shut down. `Read`
takes any part of what has arrived and prints that part. `ReadEnds` is the only end of
`main`'s loop. The server (`Echo`, `ServerEnds`) is not in the repository: it copies
what it reads until it reads the end of the stream, and may be killed, which closes or, if it
had not read everything, resets the connection. A write to a closed connection is answered
by a reset and the next one fails.

### ChatServer

`fd` says whose connection each descriptor is, lowest free descriptor first.
`Accept` overwrites `clntSock`, `PushBack` runs without the mutex, `CreateThread` passes
the address; `ReadArgument` reads it later. A thread says hello, then `Recv`, `Lock`, one
case of the switch (`Disconnect`, `Answer`, `Forward`, `Ignore`), `Unlock`. A client asks,
forwards, and closes with or without a DISCONNECT before.

Two things go wrong in this program as soon as threads meet, and history variables keep
them apart from the rest. `late`: `main` came back from `accept` before a new thread had read
its argument, so that threads may serve the wrong connections (`chat_fd_race`). `raced`: a
`push_back` was under way while a thread in its critical section read or changed the vector
(`Touching`). That is a data race: an erase may be undone, entries be garbled or doubled, a
walk read memory that has been freed. The model does not choose among the outcomes: it
keeps no vector any more, `Forward` may then send to any descriptor or to none, and whoever
touches the vector may crash the process (`Crash`). Undefined behaviour beyond the vector,
such as writes into other objects of the heap, is not modelled.

A `recv` of 0 bytes leaves a zeroed buffer, for which the switch has no case: the thread
turns for ever, taking the mutex each time. The first `recv` writes into an uninitialised
buffer, so if it brings one byte the rest of the type is whatever the stack held: `Ignore`
is possible then, and the client is not answered. The first `send` to a closed
peer is answered by a reset, the second raises SIGPIPE and ends the server (`up`).

### ChatClient

`msgq` outlives the process; `Start` (not `main` alone, but its call of `msgget`
and the loop that empties the queue) makes a new process, `Kill` ends one at any
point. `HelperHello` takes what has arrived, as one `recv` does, and prints it all
as the greeting: if a reply was there it is lost and `coalesced` is set.
`HelperRecv` passes replies to the queue and prints reposts. Requests have serial numbers
so that an old reply differs from the one asked for; the code has none, and no
guard reads them. `MsgRcv` takes the first message of the type asked for
(211-215). `Answer`, `Ignore`, `SendRepost` and `ServerEnds` are the peer: `fresh` is a
connection of which the server has read nothing, whose first request it may ignore if it is
one byte (`ByteTypes`). `fate`, a history variable, says what becomes of the last request:
it is due to be answered, was ignored, or the server ended before it had answered. A reply
that was already sent when the server ends still reaches the user. A socket whose `connect`
failed stays in `sockfd`; the next request on it raises SIGPIPE (`RequestUnconnected`).

### Sha256Digest, Sha256Test and NonceSearch

`Digest(data)` of `Sha256Digest` is the sequence of 64-byte blocks that `digest` deals
with, from `deal_block` and `deal_remain`; `FipsBlocks(len)` is written from the standard,
not from the code. Bytes of data are told apart by their position, so one evaluation
covers all data of a length. No data gives `Panic`: `block_num - 1` overflows or, without
overflow checks, the assertion (97) fails.

`Sha256Test` interprets `deal_one` on those blocks: a word is a pair of 16-bit halves, a
step is one turn of one of the two loops (`Schedule`, `Round`, `AddToState`).
`ReadLine` is `test_sha`'s `read_line` and `pop`, which takes the last byte, newline or not.
The results are compared with the digests published with the standard (and the one of
"ab", for a last line without a newline).

`NonceSearch`: thread `i` looks at `i`, `i + Workers`, ... in `Search` (one
action, the loop touches nothing shared), then `Lock`, `Send`. `main` receives one
result, prints it and returns; its receiver is dropped, and a later `Send` fails
and poisons the mutex, on which another thread's `Lock` panics. `src` and the
set of accepted nonces stand for the hash condition: every set is checked.

### RecursiveListing

A tree is `parent`, `name`, `access` of each directory: `open`, no `opendir` (`noread`),
no search permission (`noexec`), or neither (`closed`). A directory that may not be searched
cannot be entered and nothing in it can be looked up (`Searchable`). Names are plain, hidden
or begin with two dots, as the code's tests of the first characters tell apart. `main` has
looked at its arguments before `Init`, which are directories of the start: if one is not
found it returns 1 and lists nothing (`refused`, 145-148). A stack of frames holds for each
call of `list_content_dir` the names still to follow, in any order: that of `readdir` is the
file system's. `Recurse` is `list_content_dir` up to its own loop, `Return` the end of the
loop and the caller's `chdir("..")`. `cwd` is the kernel's directory of the process.

No result of `chdir` is looked at, and each may fail: `chdir(dirname)` (336) in a directory
without search permission, `chdir("..")` (380) when the directory or its parent has none
(`Climb`), and `chdir(cwd)` (309), an absolute path, when a directory on the way from the
root to the start has none (`Reachable`). Then the working directory stays what it was. A
directory's entries looked up in the wrong place may stand for other files there, which may
be directories or not, and a failed `lstat` leaves the structure of the one before: hence
`Noted`, with `FileNames` the names that plain files share with directories. `FrameLimit` is
how many frames the stack holds (each has an array of more than 1 MB); past it the process
crashes, before it comes to `opendir`.

### FileListing

One directory as `list_file` deals with it: `Count` is a turn of the loop that sums the
blocks (250-267), `Compare` one comparison of `order` with the move that follows,
`ListSingle` a turn of `info`. `entries` is what `readdir` gave, `filename` the array, `tmp`
the name that the insertion sort has taken out. `cmp` reads the attributes of both
files again each time; `Change` is another program that writes a file or removes it
between two of these reads. `lstat` of a file that is gone fails and the structure holds
anything, so `Cmp` is a set of answers. `ToInt` cuts a difference to `int`: IntMax is 3
in the run, and sizes differ by up to 5.

With `-l` the names of a file's user and group are looked up and the result is not looked
at (543-552): a file whose user or group is in no list (`Unnamed`) ends the program with a null
pointer, also when nothing changes, and a structure that was not filled may do so (`crashed`).

Where the comments and the code differ: `-A` is to hide "." and ".." (35), and the code hides
each name that begins with two dots (261, 417), for instance "..x". `NoneLost` compares what
is printed with the comments (`AskedFor`) and names these files as the exception. `-n` and
`-G` change the columns of the long format without turning it on, which the model does not
have: `"l"` stands for `-l` alone, without `-g`, `-n` and `-o`.

## 3. Runs

Each run takes two and a half minutes at most with two workers of TLC. Deadlock is checked in all
of them: where the program really may stop there is an explicit stuttering step
(`Over`, `Gone`, `Quiet`, `Idle`, `Exited`, `Terminated`, `Finished`), enabled
only in that case, or, for the two chat programs, a step for users who do nothing.

| run | asks | bounds |
|---|---|---|
| `lfq_shared` | `IInv`, which the proofs use; `ReleasedOnce`; `ForwardOnly`; `Linearizable`; `NonBlocking` | 3 threads (2 enqueue, all dequeue), 2 enqueues, 2 values with a destructor |
| `lfq_drop_race` | violation of `HandedOutIntact` with two dequeuers | 3 threads, 3 enqueues |
| `lock_based` | `IInv`, `Linearizable` for the same `FifoQueue`, `AllComeBack`, `ProgramEnds` | 3 threads, loops of 2, in `free` 2 values under way |
| `pool` | order, shutdown, panics, hanging jobs | 2 workers, 3 jobs, all 27 fates |
| `redis` | atomicity, causes of errors, end of the client | 1 process with 2 tasks, 1 stranger, 1 key, 2 values, capacity 1, 1 crash |
| `echo` | `EchoInOrder`, `EchoedOrEnded` | 2 lines of 3 pieces, cut anywhere, the server killed at any point or never up |
| `chat_server` | descriptors (`OwnUnlessLate`), list (`ListedAreOpen`), answers (`AnswersMatch`), requests answered, but for a first one of one byte and while a vanished client's thread turns (`RequestsAnswered`) | 2 clients, 2 requests each, messages to one of them; 928,593 states |
| `chat_fd_race` | violation of `OwnConnection` | as above |
| `chat_client` | own reply, one reply on its way, answered | 2 processes in turn, 3 requests, one kind of one byte and one longer, 2 reposts; 49,276 states |
| `search` | classes, end of the process, padding, digests | 4 threads, nonces 0..7, lengths 0..130; messages of 0, 3, 56 and 112 bytes, with a newline, and two lines without |
| `listing` | faults stay local, all is listed, depth; no name lost, sorted as asked | every tree of 3 directories, every access, every start, `-a`/`-A` or not; one directory of 3 files in every order, 3 attributes, 10 sets of options, 1 change; 2,124,849 states |
| `listing_path` | violation of `ListedUnderItsOwnPath` | 3 directories as above |

Why the bounds are enough to meet the interesting cases:

* Two enqueues and three threads: a thread can hold an old tail while two nodes are
  linked past it, help, and swing late; a third one can see head, tail and both
  nodes in all combinations. When the queue is dropped, any part of two values may have been
  taken.
* Two numbers for each loop: the first dequeues of a thread of the benchmark run while the
  other one still enqueues, and the two numbers of one thread can be told in or out of order.
* Three jobs for two workers: one waits in the channel, and both workers may die
  with a job left, so that `send` fails in `execute` and in `drop`. 
* Capacity 1 instead of the code's 32 makes two tasks wait for room. One crash
  can fall between any two steps, before and after the effect. One key is enough:
  every request goes through one mutex. The order of `TaskSeq` is `main`'s order of joins.
* Two chat clients: a descriptor is closed by one and reused by the other, while
  messages are under way; `main` pushes the second one while the thread of the first is in any
  place of its critical section, or has not read its argument.
* Two chat processes and three requests: killed with a request outstanding, a
  restart with its reply in the queue, and two more requests to mistake it. Each connection
  has a first request that may be ignored and a later one that may not.
* Two nonces for each of four threads: first hit in any order, a thread with
  nothing to find, two that send after `main` has returned. Lengths 0..130 cross the
  boundaries 55/56, 63/64 and those of two and three blocks (the proof covers all
  lengths). The messages take one block, two with data in both, and two blocks and one more for the
  length.
* Three directories: a chain of three, siblings after a bad one, a bad one in the
  middle. The wrong `chdir("..")` shows with two. `FrameLimit` is 4, one
  more than a chain of three needs, so that a crash is never due to a deep tree. The start is
  any directory, so that it may lie below one that cannot be entered.
* Three files: an insertion moves over none, one or two others; the three attributes have
  equal and different times, sizes whose differences fit an `int` or do not, and one has an
  owner without a name. One change can
  fall between any two reads of one sort.

### Fairness

* `LiveSpec` of the lock-free queue: the scheduler runs the threads of `Live`
  (weak fairness of a whole step); the thread outside it may stop for ever in the
  middle of an operation. `NonBlocking` holds for each live thread although the
  algorithm is lock-free and not wait-free, because `Nodes` bounds the enqueues:
  each retry means that another thread succeeded, and successes are finite. A
  retry of `dequeue` likewise needs a successful dequeue of an enqueued value.
* `ProgramSpec` of the queue's programs adds the programs' own steps: a thread that is not
  blocked in `wait`, `lock` or `join` runs. In `free` no call need be made.
* Both tasks of the echo client are polled and a server that is up echoes; that it ends is
  never fair.
* `Lock` of `LockBasedQueue` has strong fairness: a thread that asks for the mutex again and
  again gets it. std mutexes promise no order; it matters for the program `free` alone, whose
  threads call without end, for `test` and the benchmark are finite.
* Everything else is weak fairness of a thread's own steps: a runnable thread runs. Weak
  fairness of a worker of the pool is enough, since the mutex changes hands only as messages
  arrive.
* The mutex of the chat server has weak fairness only: a thread gets it when it is free for
  good. The threads of two live clients hold it between requests for a finite number of
  turns, but the thread of a client that vanished without a DISCONNECT comes back to it for
  ever, and nothing in the code or in std::mutex keeps it from starving the others. So
  `RequestsAnswered` makes no promise while such a thread turns (`Turning`).
* Users, other programs, faults, crashes and restarts have no fairness. In
  `ThreadPool` a job that hangs never ends (`StayBlocked`).
* `ServerTurn` of `ChatClient` (`Answer` or `Ignore`) is fair. This is an assumption about the
  server, that its thread for the connection gets the mutex; `RequestsAnswered` says when it
  does. A user whose request was ignored, or whose server has ended without answering, waits
  in `msgrcv` for ever: `Answered` does not promise a reply then (`fate`).

### What the violations show

* `lock_free_queue.rs:112`. After its CAS on head a dequeuer takes the value of the new
  dummy (110-111), then runs `drop_in_place` on the old one (112). With two
  dequeuers the second may move head past the first one's new dummy and drop it in place
  before the first has taken from it: the destructor of the value has run and the
  value is handed out. It needs two dequeuers and a value type with a
  destructor; with `u32` as in the tests nothing shows. `queue/README.md:11` promises
  that what was enqueued is dequeued.
* `server.cpp:186`. Each thread is passed `&clnt_sock`, which the accept loop
  overwrites. A thread that reads it late (27) serves another connection and its own
  one has no thread, against the comments at 27 and 175.
* `myls.c:380`. `list_content_dir` returns before its `chdir` when `opendir` fails
  (330-333) and does not look at what `chdir` returns (336); its caller does
  `chdir("..")` in any case. What follows is looked up one directory too high and
  printed under a path that is not its own (317). When the same name exists there
  the recursion enters the same directory again, and it may do so until the stack is
  full: `DepthOfTheTree` says that this takes a directory that cannot be read
  or entered.

## 4. Proofs

The assumptions are the named `ASSUME`s of the modules proved about: which sets of
threads and nodes are subsets of which, that `None` and null are not values or
nodes, that a pool has a worker, that a search has a thread, that each task of my_redis is
spawned once and by one `main`. Chat connections, the files of a directory and the workers of
a pool are finite in number, whatever the number is; no other set need be. TLC evaluates
every `ASSUME` in a passing run. Each `IInv` was checked by TLC before it was
proved; those of the two queues are properties of runs. Some theorems have a hypothesis
about a constant: a tree that fits the stack (`N <= FrameLimit`) for `DepthBounded`; a
finite heap (`IsFiniteSet(Nodes)`) for `CallsAreBounded`; and, for `ProgramsNeverStall`, that
`MaxLength`, a bound of the model and not of the code, is not what a program waits for
(`BoundIsAmple`: twice the numbers of a loop, and a loop for each thread but the main one).

`LockFreeQueueProofs`:

* `Invariance`: `Spec => []IInv`. `TypeOK` is not inductive: that `next[tail]` is not
  null when a thread follows it, or that a link succeeds only at the end of the list,
  depends on the shape of the list and on what threads remember. `IInv` adds
  - `ListInv`: `chain` has no repetition, `next` of each node is the following one
    and null at the end, `head` is the node after `popped` others, `tail` is in it;
  - `ValuesInv`: nodes not yet passed by head hold a value;
  - `PrivateInv`: before its CAS succeeds, a thread's node is in nobody else's hands;
  - `TailInv`: tail is the last node or the last but one;
  - `EnqueueInv`, `DequeueInv`: what a thread's copies of tail, head and next are worth at
    each position: linked nodes, with a successor where the code found one.

  Under the step lemma there is one lemma for each action, and in each of them a
  step for each part of `IInv` the action can disturb.
* `TypeCorrectness` and `TailNeverFarBehind` (whoever finds `next[tail]` set needs
  one step to reach the end) follow from it.
* `Forward`: head and tail only move to the next node, a set link never
  changes. This is why compare-exchange on old copies is safe here.

Its second part is `LinearizableQueue`, `Spec => Fifo!Spec`. Beside
`IInv` it needs `RetInv` (a thread about to return has in `ret` what its operation
decided). `Link` maps to the effect of an enqueue, `MoveHead` to that of
a dequeue of the first item, `FindEmpty` to that of a dequeue of an empty queue (which is empty at
that moment: `next[head copy]` is null only if the copy is still the head and the last
node), the calls and `Return` to calls and returns, all else to stuttering.

Its third part is `Released`, `Spec => []ReleasedOnce`, and `OneDequeuerIntact`, that
`HandedOutIntact`, which `lfq_drop_race` refutes with two dequeuers, holds with one. Beside
`IInv` it needs `DropsInv`: `AloneInv` (`drop` has `&mut self`, no operation is under way),
`TakenInv` (a value that head has passed is gone, or a dequeue is about to take it), `NotYetInv`
(a destructor has not run before the node is passed, nor before the dequeuer that passed it
comes to 112) and `WalkInv` (how far the walk of `drop` has come, and that all before it
is released). With one dequeuer, a node about to be dropped is one whose value the same
thread has taken before.

`LockBasedQueueProofs`: `IInv` says that the mutex is held exactly from `Lock` to
`Unlock` and that what a thread read is still the list when it writes; so `PushBack`
and `PopFront` are the abstract effects (`LinearizableList`). A step of a program is a step
of the queue or leaves it alone, so both carry over to `ProgramSpec` (`ProgramsKeepInvariant`,
`ProgramsLinearizable`). `PutInComesOut` is about what the programs get back,
`ProgramSpec => []AllComeBack`. It needs

* `ControlInv` and `PlacesInv`: who is where in its program, which thread has passed the
  barrier, what each loop has left;
* `TestInv`: the `Line` of `test`, that is, what `main` has dequeued, the value it holds
  and the list, one after the other, is in order for each thread and holds exactly the
  numbers pushed so far. When `main` finds the list empty after the join all of it is in `got`;
* `BenchInv`: in the benchmark there are as many values in the list as there are `Tickets`,
  a ticket being a turn of a thread's first loop that has pushed and whose partner in the
  second has not popped. A thread about to pop holds a ticket, so the list is not
  empty. Tickets are counted as a set, which needs no sum over threads.

`ThreadPoolProofs`, for any number of workers and connections. `IInv` is a matter of
counting, with `Takers` (workers that take messages), `Stopped` (those told to stop),
`Pending` (jobs sent and not received) and `Terminates` (what else is in the channel):

* `OrderInv`: the channel is the pending jobs in order, then Terminates; `StopInv`:
  nobody is told to stop while a job is pending or may come;
* `CountInv`: while `drop` sends, `k` Terminates have been sent, so at most `k` workers
  are stopped, and `Takers` exceed the Terminates by no more than what is still to
  be sent; `EnoughInv`: from then on they do not exceed them. Hence a worker in
  `recv` never finds an empty channel without a sender, and the mutex is not poisoned;
  hence also, if all workers are gone before the last Terminate, one has panicked;
* `FinishedInv`: a job received is answered, or in the hands of a worker that runs or
  has panicked; `JoinInv`: those joined have ended.

The theorems are `JobsInOrder`, `TerminatesSuffice`, `Shutdown`, `DropFailure` and
`TypeCorrectness`.

`NonceSearchProofs`, for any number of threads and any set of accepted nonces:
`ClassInv` says that a thread's two counters stay in its residue class and that it has
passed over nothing accepted; it needs that two numbers of one class are at least the
divisor apart (`Gap`) and that a step stays in the class (`Shift`), which are
proved from division with remainder. `LeastIsFound` follows. `PaddingForEveryLength` is
about `digest` alone: for data of any length, the blocks are those of FIPS 180-4. The lemmas
give both sides byte by byte (`DealBlockIs`, `LastAre` from the code, `ZerosAre`, `FipsAre`
from the standard: the number of zeros it asks for is unique), and `BlocksAgree` says that
cutting into blocks commutes with appending at a multiple of 64.

`ChatServerProofs`, for any number of clients. The invariant has two halves: `BInv`, that
types hold and what stands for a descriptor is one once it is used, in every state; and
`IInv`, as long as no thread was late (`late` never becomes false again): `FdInv` (an open
descriptor belongs to one connection, whose thread has not left it), `MainInv` (main's
variable is the descriptor of the connection it deals with, and still that of the thread
that has not read it), `ThreadInv` and, as long as no `push_back` has overlapped a critical
section, `VectorInv` (the vector holds a connection once, under its own descriptor; the one
to be pushed is not in it). The step that matters is the reuse of a descriptor in `Accept`:
nobody may still hold it. `OwnDescriptor` and `OpenEntries` follow. `AnswersAreOwn` is that
the replies a client was sent answer its requests, one by one and by kind. Beside `IInv` it
needs `AnswerInv`: a request under way is in one place, the connection or the buffer of the
connection's thread, and it is the last of its client and the only one without an answer.

`MyRedisProofs`, for any number of client processes, tasks, other programs and crashes.
`LinearizableStore` is `Spec => KV!Spec`: `Execute` maps to the effect of a request, what tells a
task its result to the return, a restart to the loss of the map. The invariant says where a
request can be:

* `ChanInv`: a command in the channel is there once, was not executed and has no result;
* `ManagerInv`, `TaskInv`: whose command the manager has in hand, and what the oneshots hold;
* `ConnInv`: the one frame of a connection is under way to the server, executed with its
  response not yet written, under way back, or lost with a connection that is closed;
  what was executed is in `reply`, so that nothing is executed twice;
* `FaultInv`: without a crash, connections end only after all tasks are done.

`OnlyCrashesHurt` (`FaultsHaveACause`) and `TypeCorrectness` follow. The second part is about
the echo client, for any lines: `EchoIInv` says that what has been printed, what is on
its way back and what is on its way to the server are together the text written, or the
beginning of it once the server is gone. `EchoedInOrder` (`EchoInOrder`) follows.

`ChatClientProofs`, for any number of processes, requests, reposts and kills:
`RepliesAreNotLost` (`OneReplyOnItsWay`) and `RepliesAreOwn` (`OwnReply`). `StreamInv` is the
shape of the connection (hello first, then replies and reposts) and `WayInv` counts: while
the user waits for a reply that is due, exactly one is asked for, in the connection or in the
queue; and when there is none to come there is none anywhere. When one is taken from the queue
it is therefore the one. `EndInv` is that a server that has ended has nothing left to answer,
and that a request it ended on waits for ever only then.

`ListingProofs`, first `FileListing`: `SortInv` says that with `tmp` in the hole the array is
an arrangement of the directory, whatever the comparisons answer, and that what has been
printed is the names shown before the present turn. `NamesKept` follows; the comparisons are
never looked at, so it holds while files change. `SortsAsAsked` is about a directory
that does not change: `Rank` is what `cmp` compares, as a number, and `OrderInv` says that the
names before the present turn are in order, those behind the hole after `tmp`; that names
of equal rank stay in the order of the directory follows because those before the
hole were read before `tmp`. `BlocksAdd` is that the sum of a set grows by one file's blocks,
from the definition of the fold. Then `RecursiveListing`, for any tree:

* `FrameInv`: between two arguments the working directory is the start, if the start can be
  come back to (`Reachable`, `SameArgument`); a frame's path continues that of the frame
  below it by a name which that frame does not hold any more;
* `WalkInv`: below an argument that can all be read, each frame lists the directory of its
  path, the working directory is that of the top frame, and the stack is no deeper than the
  tree (each `chdir` succeeds, since all of it and all above the start can be entered).
  Nothing of the kind holds below other arguments, which is what `listing_path` shows; but
  `list_dir` goes back to where `ls` was started before the next one, if it can, so that one
  is found and listed under its own path (`FaultsStay`);
* `DueInv`: a directory that is to be listed either was, once, or exactly one frame (or
  `main`) holds the next name on its path. At the end none holds any, hence `ListedOnce`;
* `DepthBounded`, `[]DepthOfTheTree`, if the stack has room for a frame for each directory.

Paths of directories, the text of the echo client (`FlattenSeq`) and the total of a directory
(`MapThenSumSet`) are recursive functions. The lemmas about them (`PathExists`, `TextIs`,
`SumsAre`: the function exists; `PathToIs`, `WriteAppends`, `BlocksAdd`: its equation) go by
`InductionOverNat` for a set of numbers, that is, by least counterexample, which needs no
induction theorem with an operator as parameter.

### Progress

The provers have no rule for fairness and `ENABLED`, but what a liveness property says of the
code, and not of its scheduler, can be proved in two halves: that the step which has to come
can be taken, and that it brings the end nearer while no other step puts it off. In the first
half the guards of the steps are written out as state predicates (`Ready`, `WorkerReady`,
`TaskReady`, `OnwardReady`, ...). On the instances of the runs each was compared with
`ENABLED` of its action by TLC, and they agree. The second half is a number.

| liveness | the step can be taken | each step brings it nearer |
|---|---|---|
| `NonBlocking` | no guard waits for another thread: each place of a call has one action, or two with opposite conditions (no theorem, TLC compared it as well) | `CallsAreBounded`: at most five steps of the thread for each node, failed turns included; no other thread's step adds any to a call under way |
| `ProgramEnds` | `ProgramsNeverStall`: barrier, mutex and join never wait for each other; a thread about to enqueue has room | `ProgramsComeNearer`: `Work(t)` falls with steps of `t` and with no other |
| `ShutdownEnds`, `HungJobDoesNotBlock` | `ShutdownNeverStalls` while no handler hangs, whatever panics; `JobsNeverStall` while fewer hang than there are workers | `StepsAreBounded`: all steps together are at most `7 * Size + 5 * Take + 4` |
| `MainEnds` of the search | `SearchNeverStalls`: main, the thread of each accepted nonce or the holder of the mutex | `NonceComesNearer`: at most `n + Workers + 3` steps of one thread, whatever the others do |
| `MainEnds` of the client | `ClientsNeverStall`, whatever other programs and crashes do | `ClientsComeNearer`: `ToDo(p)` falls with each step of the client and of the server for it, nothing raises it |
| `EchoedOrEnded` | `EchoNeverStalls` | `EchoComesNearer`: each piece moves from text to socket to server and back |
| `RequestsAnswered` | `AnswersNeverStall`: the client's thread or, when it waits for the mutex, its holder, for every request but a first one of one byte | `AnswersComeNearer`: six steps of that thread at most, two of the holder; not how often others take the mutex first |
| `Answered` | `RepliesComeNearer`, first part | its second part: server, helper, user; in the helper's stream, the replies and reposts before it |

The measure of the pool counts how many workers are in which states (`Busy`), that of a
my_redis client how many of its tasks (`Sending`, `Awaiting`), so that neither is a sum over
a set. Beside the invariants above these theorems rest on

* `CopyInv`, lock-free queue: a copy of tail is never ahead of tail, so a turn that fails
  starts again further on in `chain`, which has no more nodes than there are;
* `RoomInv`, queue programs: what is in the list of `test` and what it has yet to push are no
  more than the numbers of its two threads;
* `PInv`, thread pool: the mutex is held exactly in `recv`, no two workers run one job, and
  who panicked did so in a job that panics;
* `FindInv`, nonce search: there is a nonce to find, once a thread has ended there is a
  result for `main`, and of a thread's two counters one is a turn ahead at most;
* `LiveInv`, my_redis client: a task that awaits is in the channel or in the manager's
  hand, a manager that has ended leaves the channel empty, only the end of `main` cancels;
  `ReadInv`, echo client: who reads is connected and has spawned the other task;
* `SInv`, chat server: beside the answers, the mutex is held exactly in the critical
  section (`MutexInv`), and a client whose request will be answered is served by a thread on
  its way to the next `recv`, with the request before it (`HeardInv`).

What is left to the runs is to put the halves together: that fairness makes one of the
threads that can go on do so (for the mutex with strong fairness, one that can again and
again), and that a number cannot fall for ever. `RepliesComeNearer` is closest to the property: it
says of the party that has the reply that it stays able to go on until it does.

What the proofs showed about the model:

* `MiniRedis` once ended a task that waits for room as `cancelled`, like one that has sent.
  With three tasks a panic of `main` then made two requests that were never sent
  look called, in one step, which `KeyValueStore` does not allow: hence `unsent`.
* `RecursiveListing` listed names in a fixed order; the proof needs none, and now any
  order of `readdir` is checked.
* `SelectSeq` is a recursive function with a test for argument, so that no lemma about it
  can be stated once for all tests. `OneReplyOnItsWay`, `AnswersMatch` and `AllComeBack` now say
  the same with positions or sets; the mutants of each still break it.
* `Init` of `NonceSearch` took its set from `SUBSET Nonces \ {{}}`, which TLC reads as one
  set and tlapm as another; it has parentheses now.
* The pieces of the echo client's lines and the fields of a file's attributes are now named
  by an assumption (`LinesArePieces`, `StatFields`), which TLC evaluates.
* With a `chdir(cwd)` that may fail `FaultsStay` and `ListedOnce` are no theorems for every
  start: the invariant's conjunct "between arguments the working directory is the start" broke,
  and `Reachable` is what it takes.

Only model-checked:

* the nine liveness properties of the table under Progress as they are stated, with `~>` and
  `<>`: the provers do not handle fairness and `ENABLED`. Both halves of each are proved, but
  for the first of `NonBlocking`, where no guard waits for anybody;
* `DigestIsFips`: it compares with published digests, and `deal_one` uses `Bitwise`, which the
  provers cannot reach.

## 5. Not modelled

* Memory orderings: the modules are sequentially consistent. The code's
  acquire/release/relaxed operations allow more on weak hardware.
* Memory use: no node of the lock-free queue is ever freed (`Box::leak`), so a long-lived
  queue grows without bound. This is also why there is no ABA; a count would add
  nothing that the line does not say.
* Digests of other messages than those of `test_sha`'s run: `deal_one` has no reference but the
  standard's text and examples.
* What the web server's handler reads and writes (`handle_connection`): it ends, panics or
  hangs, which is all the pool sees of it.
* TCP's cutting of chat messages: `recv` (server.cpp:35, client.cpp:35) takes a whole message
  of 264 bytes, as the code assumes, except behind a hello that was read with more.
* What a data race on the chat server's vector does to anything but the vector.
* Text: HTTP requests, chat messages, `stoi` on a port that is missing (which ends the chat
  server; client.cpp always sends one), the buffers of 254 bytes.
* Two chat client processes on one host at a time: they share one System V
  queue, take each other's replies, and a third one empties it. The properties of `ChatClient`
  are promises for one process at a time; the hazard is listed without a property. Limits of
  that queue.
* `myls`: the parsing of the command line, arguments of more than one name and the default
  "./" when there is none, the text of a line (`list_attr` but for the null pointers, `trans`,
  colours, separators), `-g`, `-n`, `-o`; trees that change while they are listed recursively;
  more than 1024 entries of a directory, which overflow an array.
* criterion's measuring, the crawler scripts (no state beyond what the sites return).

## 6. Plan

Done in this order: lock-free queue with its proofs, lock-based queue, thread pool, chat
server, key-value store, chat client, nonce search, recursive listing; the proofs about
the lock-based queue, the thread pool and the nonce search; the programs of the queues, the
echo client, the interpreted digest, the sorted listing; the proofs about destructors, the
chat server, the padding and the sort; the proofs about my_redis, the chat client, the
recursive listing, the answers of the chat server, the programs of the queues, the echo client
and the sort's order; the two halves of every liveness property. What is left:

1. Models: two chat clients on one host; chat client and server composed, in place of the
   fairness of `ServerTurn`; a tree that changes while `myls -R` walks it.
2. Proofs: every safety property of the runs is proved but `DigestIsFips`. What could be added
   is about the operators below it: that `deal_one`'s wrapping sums are sums modulo 2^32.

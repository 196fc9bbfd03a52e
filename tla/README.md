# Task system and message library: specifications, model checking and proofs

TLA+ specifications of the two bodies of code in this repository that carry
protocols of their own:

* **TaskSystem** (`TaskSystem/`): tasks (threads, in one or several processes)
  that exchange messages through ring buffers in shared memory, and the programs
  written on it: a database, weather stations, a sample sort, a demonstration;
* **nanomsg** (`exploration/nanomsg_exploration/nanomsg-1.0.0/`): the message
  library that was studied beside it, by far the larger part of the source.

All paths below are relative to the repository; paths of nanomsg are relative to
its `src` directory.

## 1. Inventory

### TaskSystem

| Component | State | Operations | Interacts with |
|---|---|---|---|
| Message queue (`src/MsgQueue/CircularMsgQ.c`) | one shared segment per task: `QLock`, `head`, `tail`, `size`, `rollover_position`, then the bytes of the messages | `CreateQueue`, `AcquireQueue`, `DeleteQueue`, `Peek`, `IsEmpty`, `Enqueue`, `Dequeue` | called by System; calls `writeAt` of the message |
| Sending and receiving (`src/System/System.c`, the `receive` of every task) | a pointer into the ring, the tag that was read, the clone | `send`, `getMsgTag`, `receive`, `dropMsg` | sender threads, the owner's thread |
| System object (`System.c`, `System.h`) | segment `/TS_System`: `nextTaskID`, `shutdown_signal`, `sleepers`; per process `TaskTable` | `System_create`, `System_acquire`, `getNextTaskID`, `createMsgQ`, `message_immediate`, `message_notify`, `message_wait`, the thread `loop_wait_signal`, `destroy` | all processes and tasks |
| Name repository (`System.c:146-175`) | `task_name`, `task_has_name` | `repository_set_name`, `repository_get_id` | database, weather |
| Sample sort (`SampleSortTask.c`, `BucketTask.c`, `test/samplesort_test.c`) | splitters, slices and partitions passed by reference, final arrays | three rounds of messages between the root and K buckets | System; the main thread through `MainSleepCond` |
| Database and clients (`DatabaseTask.c`, `ClientTask.c`) | table of students, current requester | select, insert, delete, ping | repository, request and response messages |
| Weather station and clients | names, subscribers | subscribe, broadcast | repository |
| Papa, Foo, Baz tasks | none | sends and non-blocking receives | System |
| Messages (nine types in `src/Messages`) | `msg_size` and a payload | `create`, `clone`, `writeAt`, rebinding | queue, tasks |

### nanomsg

| Component | State | Operations | Interacts with |
|---|---|---|---|
| Socket core (`core/global.c`, `sock.c`, `ep.c`) | table of sockets with a stack of free slots; per socket its state, holds, endpoints, `sndfd` and `rcvfd` | `nn_socket`, `nn_close`, `nn_bind`, `nn_connect`, `nn_shutdown`, `nn_send`, `nn_recv`, `nn_term` | threads of the application; protocols, transports |
| Request/reply, surveys (`protocols/reqrep`, `survey`) | the request or survey that is out, its timer, the routing tables | send, receive, resend, deadline | pipes, timer |
| Patterns (`protocols/pubsub`, `pipeline`, `pair`, `bus`, `utils`) | lists of pipes: distributor, load balancer, fair queue, exclusive pipe | send, receive, pipes that come, go and get ready | pipes |
| Subscriptions (`protocols/pubsub/trie.c`) | a trie with sparse and dense nodes | subscribe, unsubscribe, match | SUB sockets |
| Devices (`devices/device.c`) | two sockets, a thread per direction | forward | socket core |
| Message memory (`utils/chunk.c`, `chunkref.c`, `msg.c`) | reference counts | allocate, copy, bulk copy, release | all |
| inproc (`transports/inproc`) | registry of names, two linked state machines, a queue | bind, connect, send, receive, disconnect | two contexts with a lock each |
| tcp, ipc, ws (`transports/tcp`, `ipc`, `ws`) | stacks of state machines per connection: endpoint, stream, header exchange or handshake, timers, socket | bind, connect, accept, retry, send, receive, close | worker thread, peers |
| Utilities, tools, tests | - | containers, encodings, command lines | - |

### What is hard to test

* Messages in the ring have different sizes: off-by-one errors in the rollover
  and in the full test show only after particular mixes of sizes.
* `getMsgTag` and `receive` use a pointer into the ring after the lock has been
  released; `message_notify` and the thread that signals test the queue outside
  the lock of the condition variable.
* Processes acquire the system while it is created, create tasks while it is
  destroyed, and outlive a server that crashes and is started again.
* Tasks take whatever comes next in their queue: by tag, without numbers.
* A thread closes a socket while others are blocked in it or about to use it.
* Timers, broken pipes and late messages reach a state machine in any state;
  one that has no case for an event ends the process.
* A timer or socket is stopped in a step of the worker thread, and between the
  request and its end anything else may come.
* Texts, frames and handshakes come from a peer in pieces of any size.

`PROJECT.json` lists every hazard at its line with the properties that watch it.

### What correctness means, per component

* Queue and mailbox: a FIFO queue of whole messages; nothing that waits is
  overwritten; the message taken is the one whose tag was read; what the handler
  gets is what was sent; an empty queue refuses nothing of reasonable size.
* System: IDs are unique; a sleeping task notices its messages; destroy ends and
  leaves no segment behind.
* Database: answers are those of a store of records; a client gets the answer to
  its own request. Weather: a client hears the station it asked for, and goes on
  hearing it if there was room for its subscription. Sort: the output is the sorted
  input and all threads end.
* Sockets: no slot is given twice, no call uses a socket that is gone, a blocked
  call is woken, close returns.
* Protocols: the reply and the responses are those to the last request or
  survey; a request is answered through losses; messages arrive once, in order.
* Transports: every event has its case in every state, messages arrive whole,
  a close ends, a lost connection is made again.

## 2. Modules

| Module | Models | Notes |
|---|---|---|
| `CircularMsgQ` | `CircularMsgQ.c`, `writeAt`, `clone` | state functions on a record with the fields of `struct Queue` and on the bytes |
| `Mailbox` | - | abstract specification: what a mailbox promises |
| `TaskMailbox` | `send`, `getMsgTag`, `receive`, `dropMsg` and the receive loop on one queue | shown to implement `Mailbox` |
| `System` | `System.c` without the repository | a queue is the number of its messages |
| `Database`, `Weather`, `SimpleTask`, `SampleSort` | the programs with the repository | a mailbox is a sequence, as `Mailbox` promises |
| `Core` | `core/global.c`, `sock.c`, `ep.c`, `utils/efd.c` | threads; of protocols and transports only what the core sees |
| `PrioList` | `protocols/utils/priolist.c` | used by `ReqRep`, `Survey`, `Patterns` |
| `ReqRep` | `req.c`, `xreq.c`, `rep.c`, `xrep.c`, `lb.c`, `fq.c` | |
| `Survey` | `surveyor.c`, `xsurveyor.c`, `respondent.c`, `xrespondent.c` | |
| `Patterns` | the other protocols with `dist.c`, `lb.c`, `fq.c`, `excl.c` | one behaviour per topology |
| `Trie` | `trie.c` | checked against a multiset of subscriptions |
| `Device`, `Chunks` | `device.c`; `chunk.c`, `chunkref.c`, `msg.c` | |
| `Inproc` | `binproc.c`, `cinproc.c`, `sinproc.c`, `ins.c`, `msgqueue.c` | two contexts, two threads |
| `Stream` | usock, timer, backoff, header exchange | functions on the record of a connection; used by the next three |
| `Tcp`, `Ipc`, `Ws` | the state machines of each transport | one context |
| `WsFrame`, `WsHandshake` | the inbound side of `sws.c`; the texts of `ws_handshake.c` | |
| `MCTasks`, `MCSampleSort`, `MCApplications`, `MCProtocols`, `MCTransports` | constants and compositions for TLC | all but `MCSampleSort` start one of several systems |
| `TaskSystemProofs`, `ApplicationsProofs` | theorems about TaskSystem | section 4; `TaskSystemProofs` has those of `TaskMailbox` and of `System` |
| `PrioListProofs`, `ReqRepProofs`, `SurveyProofs`, `PatternsProofs`, `ProtocolsProofs`, `TransportsProofs` | theorems about nanomsg | section 4; `ProtocolsProofs` has those of `Core` and of the composition of `MCProtocols`, `TransportsProofs` those of `MCTransports` |

The layers of TaskSystem meet through abstraction: `TaskMailbox` shows that a
ring is a FIFO mailbox, `System` that a sleeping task notices a message, and the
programs build on both. In nanomsg `Core` sees a protocol as directions that
are ready or not, the protocols see a transport as pipes that hold a few messages
and may break, and the transports see the core as calls on a pipe.

The operators named as variants with a slip (`IsFullLate`, `DequeueNoReset`, ...)
are not used by the specifications. Each is what a plausible mistake in the code
would make of the definition below it; replacing the definition by it makes the
property named in `PROJECT.json` fail, so each property does depend on the code.

### CircularMsgQ and TaskMailbox

`Enqueue`, `Dequeue` and `Peek` run under `QLock`, so each is one step. What
happens after the unlock is a step of its own: `ReadTag` (`return msg->tag`) and
`CloneMsg` (`return msg->clone(msg)`). A byte of the ring is a record saying
which message and which of its bytes it holds; a clone that finds anything but
the consecutive bytes of one message yields `NoMsg`. So overwritten messages are
visible in the model without modelling payloads. `slots` and `inHand` are
history: where accepted messages were written, and what `Dequeue` found at the
time it returned. `rebinder` always has an entry for the message types in use;
its error branch is left out, as is `Enqueue` of a NULL queue.

The owner's loop is that of the tasks: `getMsgTag` until there is a tag, a switch
with messages that are handled, dropped (`default`) or left alone ("should never
be received"). Senders are an environment: each has at most `Outstanding` of its
messages in the mailbox or in the owner's hand.

### System

`System_create` is two steps, since the segment can be opened by others as soon
as it is linked. `EarlyAcquire` says whether another process may acquire it in
between; the tests start the creator first by hand. `createMsgQ`,
`message_notify` (test, wait) and the loop of the wait/signal thread (limit,
test, signal) are split where another thread can come in between. `early` is
history: the queues linked when `destroy` was called. Spurious wake-ups, which
POSIX permits, are not modelled: `MessageNoticed` would only become easier.

### The programs

`Database`: a record is its id, a response its code. A crash may come at any
step of the server; the restarted one takes the segments over, as `shm_open`
without `O_EXCL` does. A client that found no database sends to
`TaskTable[-1]`: what happens then is not described further (`undefined`).
`Weather`: queues refuse when full and nobody looks at it; a client too many is
told nothing. `SimpleTask`: six messages, and children that look twice without
waiting. `SampleSort`: `root.pc` and `bucket[b].pc` are places in the two
`start` functions; the sample is any function into the data; `ReadPart` says
what the root reads through the array of pointers on a bucket's stack: the
partition, or garbage too when the bucket's thread has ended and
`StackSurvives` is FALSE.

### Core

What runs under the global lock or under a socket's context lock is one action,
with the `nn_sock_onleave` that ends every stay in a context. Between the hold
of a call (`nn_global_hold_socket`) and its stay in the context, and between two
stays of a blocking call, other threads run. `Beside` says which calls may be
inside a socket when another thread closes it. The passing run has sends,
receives and `nn_shutdown` there. It leaves out `nn_bind` and `nn_connect`,
which `close_bind` shows to fail, and the options of a protocol, which after the
end of a close would be asked of a protocol that is destroyed, for the same
reason: nothing tests the state of the socket. `nn_term` and `nn_init` are
called by one thread (`Main`).

### ReqRep, Survey, Patterns, Trie, Device, Chunks

A call, or an event of the transport, runs to its end under the socket's lock,
with the events it raises, so each is one step. Stopping a timer takes the
worker a step of its own. Lost pipes, pipes that come back, resend timeouts while
the request is answered and requests that a REP socket drops are actions with a
bound `MaxFault`. The bodies of messages are history: the request or survey
they are about. A receive of a REP socket or of a respondent gives up what is in
progress also when it finds nothing.

`Trie` follows splitting, merging and the change between sparse and dense tables
node by node. The user subscribes to any string and unsubscribes any string,
subscribed to or not, as `xsub.c:188-213` lets it. The code then does four things
that `doc/nn_pubsub.txt` does not have:

* A node that counts subscriptions and whose table changes its form gets the
  count 0 (`trie.c:382`, `607`).
* An unsubscription whose string is used up on the way into a node takes the count
  of that node, whatever prefix it has (`trie.c:488-489`): with "abc" alone,
  unsubscribing "" ends it.
* Unsubscribing on a socket without subscriptions, or past a NULL pointer in a
  dense table, calls `nn_node_check_prefix` with a NULL node (`trie.c:477`, `492`);
  a NULL pointer at which the string ends still takes a child out of the table's
  number of children, and the assertion at `trie.c:621` may fail later. These are
  the steps `UnsubscribeCrash` and the variable `stray`.
* A match that ends at a node without a subscription reads the octet behind the
  message (`trie.c:468`). `nn_trie_match` then has both results.

The history variable `lost` holds the strings subscribed to whose count was lost
in the first two ways. `CountsRight` and `MatchRight` speak of every other string,
also after some were lost: it counts as often as it was subscribed to, and a
message that begins with it is delivered. A message that begins with no
subscription is not delivered, lost ones and octets behind it aside. No call
crashes before a string without a count was unsubscribed.

### Transports

In `Tcp`, `Ipc` and `Ws` a connection is a record with the state of each
machine of its stack and the events raised but not handled. A call or an event of
the worker is handled, then all that it raises, before the lock is released
(`nn_ctx_leave`). What the kernel decides (connected at once or later, received,
broken) is a set of next records. `bad` is the call of `nn_fsm_bad_action`, or an
assertion that fails. `Inproc` has a queue of events per thread, delivered one by
one under the other socket's lock.

Some coincidences are left out of the passing run because the code has no case
for them; each is switched on by a constant:

* `Rare` `"timer"`: the socket of tcp or ipc has sent or received while the header
  exchange stops its timer (`streamhdr.c:264` and `295` assert that it has not;
  `header_timer` shows it). An error, for which the code has a case there, may
  come in every run, and ws, which ignores all events then, has them all.
* `Rare` `"bind"`: the local address of a ws client disappears between its
  resolution and `bind`. `Rare` `"memory"`: `peer_gone` (`cws.c:521`) and the
  version in the reply to a handshake that is too long are read before they are
  set, and the memory was not zero.
* `Rare` `"fill"` and `"line"`: a handshake that fills the buffer to the last
  octet, and one whose first line is none of HTTP: both come to an assertion
  (`ws_handshake.c:859`, `497`).
* `Cut`: a text message that ends inside a code point (`sws.c:634` and after).
* `Overlap`: inproc endpoints are opened and closed while the other thread is in
  a call; the comment at `sinproc.c:471` is about one of these cases, and in
  others an event meets a state without a case for it.

So `NoBadEvent` holds of the code only as far as these do not happen: `"timer"`,
`"bind"`, `"memory"`, `"fill"`, `"line"`, `Cut` and `Overlap` are failures of the
code that the passing run does not contain.

A machine of nanomsg raises some of its events from one struct, which must not be
queued twice (`queue.c:47` asserts it). `NoBadEvent` of tcp, ipc and ws includes
that it is not (`QueuedOnce`). `Inproc` and the sockets do not have this check.

## 3. Runs

| Run | Instance | Result |
|---|---|---|
| `tasks` | open mailbox: messages of 1, 2, 4 and 5 bytes, ring of 7, two senders with up to 4 messages each; closed mailbox: messages of 1 and 2 bytes, ring of 7, one message per sender, fair owner; System: two processes, a task in each, one message to a task, fair threads | open: `TypeOK`, `RingLayout`, `LiveIntact`, `DispatchOnHead`, `EmptyAccepts`, `Fifo`; closed: `ClosedCloneFaithful`, `ClosedNeverRefused`, `ClosedDelivered`, `ClosedFairFifo`; System: `SystemTypeOK`, `UniqueTaskIDs`, `DestroyCleans`, `MessageNoticed`, `DestroyEnds`; all hold |
| `open_clone` | the open mailbox of `tasks` | `CloneFaithful` is violated |
| `applications` | two clients with two requests each, table of two, one crash; two stations, two listeners; Papa; three buckets | `AnswersRight`, `OwnAnswer`, `RequestAnswered`, `TagsExpected`, `RightStation`, `WeatherArrives`, `NothingLost`, `SortedOutput`, `ExpectedTag`, `SortEnds` hold |
| `database_restart` | two clients, one crash | `OwnQueue` is violated |
| `sort_dead_stack` | two buckets, stacks of ended threads are reused | `SortedOutput` is violated |
| `sort_main_wait` | two buckets | `MainUnlocked` is violated |
| `nn_sockets` | see below | `NoBadAction`, `SlotsRight`, `WakeupKept`, `CloseReturns`, `OwnReply`, `OwnResponses`, `DialogueEnds`, `OnceInOrder`, `Balanced`, `MatchRight` hold |
| `req_late_reply` | one REQ and two REP sockets | `ReplyStored` is violated |
| `close_bind` | two threads, as `nn_sockets`, with `nn_bind` beside a close | `NoBadAction` is violated |
| `nn_transports` | see below | `NoBadEvent`, `StackInStep`, `Transferred`, `Recovers` hold |
| `dead_socket` | tcp, as `nn_transports`, fair worker | `LossNoticed` is violated |
| `header_timer` | tcp, as `nn_transports`, with `"timer"` in `Rare` | `NoBadEvent` is violated |

`tasks`, `applications`, `nn_sockets` and `nn_transports` compose systems that do not
interact: a behaviour starts one of them and the rest stands still. The
properties of the MC modules are the conjunctions of those of the systems, and
each says which.

Bounds of TaskSystem. In the ring of 7 bytes two or three messages fill it, so
all ways to roll over, to be full, to stop with the head anywhere and to refuse
a long message occur; 4 is exactly half (rounded up), 5 is more. `Outstanding`
4 is more than the ring holds for all but the shortest message. The closed
mailbox has the same ring and messages of at most 2 bytes, so that it has room
for one of the largest more than the two senders can have there, which is what
the theorem of section 4 asks for. `System`: two processes make the difference
between a mapped queue and one that is not, and one message is what wakes a
task or comes too early. The database
ends after four requests, which is what its clients send; its table is full
after two insertions; the first client inserts, the second does any of the four.
A station has room for one of two subscribers, a queue for one message. Three
buckets give a first, a middle and a last one; the inputs have equal values, a
value beyond the last splitter and fewer values than buckets.

Bounds of nanomsg. `Core`: a thread with four calls and one with a single call,
which may stay blocked or close what the first one uses; two sockets in a table
of two, one of which stops later. `ReqRep`: one REQ with two REP sockets, two
requests and a fault; and two REQ with one REP socket, for the routing.
`Survey`: two surveys of two respondents, and of one whose pipe breaks.
`Patterns`: two publishers and a subscriber, a BUS device between two sockets,
PUSH to two PULL sockets of one priority and of two, three PAIR sockets; pipes
hold two messages. `Trie`: prefixes of at most 1 character and sparse tables of
at most 2 children, where the code has 10 and 8, so that all changes of form
happen with eight topics and five subscriptions. `Chunks`: two chunks, two pipes,
six steps. Transports: an endpoint that connects and one that binds with two
connections, two calls (ws: one); `inproc` with a queue of three and four
messages; three frames of any of the kinds in `MCTransports`, and handshakes of
any peer in buffers of 30 and 20 octets, in which the start of a line counts as
one.

No run checks for deadlock: a destroyed system, a finished program, sockets that
are all closed and bounds that are used up may stop. That what has begun goes on
is said by the liveness properties instead.

Fairness. Threads that can run are scheduled: weak fairness of the owner of a
mailbox, of each task's receive loop, of the wait/signal thread, of `destroy`
once it was called, of each thread of the programs; in nanomsg of a call that
has begun, of the worker thread (events it has for a machine, timers that run),
of a pipe that is offered and of a REP user who answers. Nobody has to send,
create, connect, close or call `destroy`. A receive that blocks may block for
ever.

### What the violations show

* `open_clone`: the message is copied after the lock was released and its bytes
  given back. With senders that do not wait, a full turn of the ring overwrites
  it. With a 1 MB ring this takes many or large messages in the time between
  two statements.
* `database_restart`: two running clients share an ID and a queue.
* `sort_dead_stack`: the root reads the stack of a thread that may have ended.
* `sort_main_wait`: the signal to main can be lost.
* `req_late_reply`: a REQ socket that is done loses its reply to a late one.
  What the user is given then is a message that was already released; `OwnReply`
  of `nn_sockets` speaks of replies that are still there.
* `close_bind`: an endpoint is added to a socket that is being closed.
* `dead_socket`: when a connection of tcp, ipc or ws breaks after the last
  octet of the headers was read and before their timer has stopped, `streamhdr`
  (for ws `ws_handshake`) ignores the error. It reports success, the pipe is
  started over a socket that is `DONE`, and `nn_usock_recv` and `nn_usock_send`
  then return without a word (`usock_posix.inc:464`, `857`). Nobody learns of
  the loss: the endpoint that connects does not connect again. `StackInStep`
  and `Recovers` of `nn_transports` name these connections (`LostUnheard`) and
  speak of the others.
* `header_timer`: the headers are exchanged too late. While the timer, which has
  expired, is being stopped, the socket still sends or receives its octets, and
  the assertion at `streamhdr.c:264` fails. ws ignores what comes then.

### Remarks on the code without a run of their own

* `message_notify` can return with no message, contrary to `System.c:123-125`;
  a process that acquires the system before line 240 gets IDs that are given
  again (`EarlyAcquire`); `getNextTaskID` goes past `MAX_TASK`; a queue that
  another process links after `destroy` has begun may stay behind (`DestroyCleans`
  is about those linked before).
* `ctcp.c`: a shutdown in the state CONNECTING leaves the statistic of
  connections in progress raised; `nn_backoff_reset` is never called, so the
  interval of retries never shrinks again.
* `trie.c`: unsubscribing may end another subscription, lose one or crash (section
  2), where `nn_pubsub.txt:62-64` has it unsubscribe "from a particular topic" and
  `trie.c:631` means to refuse ("Subscription doesn't exist."). A SUB socket may
  deliver a message that is shorter than the topic it begins, against
  `nn_pubsub.txt:20-25` and `51`. `MatchRight` holds beside these.
* `bipc.c:318` may remove the file of another binder.
* `device.c`: a message that cannot be sent on is lost, and a two-way device
  returns only when both of its threads have ended.
* `ws_handshake.c`: the reply that refuses a client has no empty line at its
  end, so the client waits for its timer.
* `xbus.c:158`: a raw BUS socket knows the pipe to leave out by its address. When
  the link breaks and is made again while a device has the message, the new pipe
  is another one and the sender gets its message back, which `doc/nn_bus.txt:18`
  excludes ("The socket should never receive messages that it sent itself").
  `OnceInOrder` says that this needs a broken link.
* `priolist.c:114`: a pipe that has room again goes to the end of the list. Two
  pipes that fill up and drain in turn are served again and again before a third
  one that is ready; `lb.h:30` and `rfc/sp-request-reply-01.txt:547` promise round
  robin. With two pipes this does not happen (`Balanced`).
* `nn_term`'s documentation promises `ETERM` without blocking; the code gives
  `EBADF` and blocks until all sockets are closed.

## 4. Proofs

All for every value of the constants, from the assumptions named in the modules
only. `QueueAssumption`: a message has at least one byte, the header fits into
the segment; `MailboxAssumption`, `SystemAssumption`; `DatabaseAssumption`,
`WeatherAssumption`, `SortAssumption` (`MCApplications`: numbers are numbers, the
sets of tasks are finite, the inputs of the sort are sequences of integers); `CoreAssumption`, `PipeAssumption`,
`PatternAssumption`, `TrieAssumption` (`MCProtocols`: the table has a slot, a pipe
holds a message, there are two priorities, NULL is no pipe, a sparse node has
two children at least). `ReqRepProofs`, `SurveyProofs` and
`PatternsProofs` take any topology that satisfies their `Wired` or `Fit`: sockets
that `nn_ispeer` lets talk to each other, finitely many pipes, priorities within
the slots, and, in `PatternsProofs`, that all links of a topology with a device
are links of that device, so that there is one way between two sockets. The
lemmas `TopologiesWired`, `SurveysFit` and `PatternsWired` show it of the
topologies that the run checks.
Three hypotheses are about how the system is used and stand in the theorems:
`~EarlyAcquire` (nobody acquires the system before it is created), `Careful`
(no thread is in `nn_bind`, `nn_connect` or an option call of a socket that
another one closes) and `~Overlap` (no call opens or closes an inproc endpoint
while the other thread is in a call or delivers events). Without the first
`IDsAreUnique` is false, without the second `NothingIsBad`, as `close_bind`
shows, without the third `InprocHandlesEvents` (section 2). A fourth, `~Cut`, is
about the peer: no frame of a text message that goes on ends inside a code point.
RFC 6455 lets it; the code then closes the connection (`sws.c:634`), and
`FramesAreExact` is false.

Every safety theorem follows one argument: an invariant that holds initially, is
kept by each action, and implies the property. What each invariant adds to its
property:

* `TaskSystemProofs`, ring. `EnqueueKeepsLayout`, `EnqueueKeepsBytes` and
  `DequeueKeepsLayout`: one operation on any queue whose messages satisfy
  `Layout` keeps it. `Layout` is what the arithmetic needs: where the live
  messages lie before and after the rollover (`Regions`), that they are in order
  (`Ordered`) and end to end (`Contiguous`), and that they begin at the head and
  end at the tail (`Ends`). Without `Contiguous` the head would not arrive at
  `rollover_position`; without `Regions` an Enqueue could overlap.
* `TaskSystemProofs`, mailbox. `IInv` joins the types, the layout, the bytes and
  what the owner knows between its steps. It gives `TypeCorrect`, `LayoutKept`,
  `NoOverwrite`, `DispatchCorrect`, `EmptyNeverRefuses`, and `RingIsFifo`, the
  refinement of `Mailbox`.
* `TaskSystemProofs`, closed loop. `ClosedInv` counts the bytes from a slot to
  the tail, through the rollover and the bytes lost there. If no message is
  longer than `L` and the ring has room for one message of `L` bytes more than
  all senders may have outstanding (`Roomy`), then no Enqueue reaches the message
  in the owner's hand (`CloneIsFaithful`) and none is refused
  (`ClosedNeverRefuses`).
* `TaskSystemProofs`, System. `SysInv` says that all IDs and linked names are below
  `nextTaskID`, that a task between `getNextTaskID` and `createMsgQ` has a name
  that is neither linked nor among those destroy has to remove, and how far
  destroy has come. It gives `IDsAreUnique`, `DestroyIsComplete`, `SystemTypes`.
* `ApplicationsProofs`. Database: which request each place of a client and of the
  server is about, and that at most one message of a client is on its way
  (`AnswersAreOwn`); that the table holds what a store of records would
  (`AnswersAreRight`). Papa: sent is taken or waiting (`LettersAreKept`).
  Weather: who has which name, and that a message in a mailbox has a case in its
  receiver (`TagsAreExpected`, `StationIsRight`). Sort: for each place of the root
  and of each bucket what it has been sent and has taken (`SortInv`, which gives
  `TagsAreInTurn`). Four more layers give `SortIsRight`, that the output is the
  sorted input: each bucket knows its slice and the splitters the root has
  (`SortData`); the partitions that have arrived and those on their way are of
  different buckets, so that after K of them the root has one of each
  (`Arrivals`); a bucket reports once it has sorted, and K reports are those of
  all (`Reports`); what bucket k gets is the k-th part of each slice, in the order
  in which the partitions arrived, and what it keeps is that in order
  (`SortValues`). The rest is counting: the slices cover the data without an
  overlap (`SliceFacts`), so for every set of values as many places of the output
  hold one of them as places of the input do (`FinalFacts`, `OutputFacts`), the
  buckets one after the other are in order (`FlatOrdered`), and two sequences in
  order with the same counts are equal (`OrderedIsUnique`). `Part` and
  `FlattenSeq` are recursive functions; the lemmas about them (`PartSteps`,
  `FlatSteps`) go up step by step, by the least step at which one would fail
  (`Upwards`). `SortedFacts` shows that every sequence can be put in order. The
  theorem is about `MCApplications`, where the stack of a thread that has ended is
  still as it was; otherwise `SortedOutput` is false, as `sort_dead_stack` shows.
* `PrioListProofs`. Each operation of the list keeps lists, pointers and current
  priority in step, and changes the set of active pipes by the pipe it names.
* `ReqRepProofs`. Where the copies of a request and of its replies are, and which
  numbers they carry (`NoActionIsBad`, `RepliesAreOwn`).
* `SurveyProofs`. On the way out, in a respondent and on the way back there is at
  most one message about a survey per respondent; the loop in `nn_surveyor_recv`
  that drops stale responses is a recursive function, shown right by a least
  counterexample (`StatesAreRight`, `ResponsesAreOwn`).
* `PatternsProofs`. `PatInv` follows a message from its sender: the numbers of one
  sender rise from what the last socket received, over the pipe before it and the
  message in a device, to the pipe of the sender (`Order`); a message is in a pipe
  that is up, came from the socket at its other end or through a device, and goes
  back to its sender only after a link broke, since the device remembers the pipe
  it came from until then (`Sound`, `HoldOK`). That is `PatternsOrder`; without
  the pipes and the device the order of what was received is not inductive. For
  the lists: an active pipe of `lb`, `dist` or `excl` is up and has room, one of
  `fq` has a message, a PAIR socket has the one link that is up, and of two pipes
  of a PUSH socket the one that was passed over is the one whose turn it is
  (`TurnsOK`). That is `PatternsBalanced`. The loop of `nn_xsub_recv` is treated
  as that of the surveyor.
* `ProtocolsProofs`. `CoreInv`: the stack of free slots and the sockets in use
  share out the table, and each event fd is set when its direction is ready or
  the socket is closing (`SlotsAreRight`, `WakeupsAreKept`). `HoldInv`: each
  thread in a call is one of the holds of its socket, and a socket that is
  stopped has none but the closer's (`NoEventIsBad`). The composition starts
  one system; each of its theorems carries a module's theorem over to the
  instances it has (`EveryReplyIsOwn`, `EveryResponseIsOwn`,
  `EveryMessageOnce`, `PipesAreBalanced`, `NothingIsBad`). `TrieInv`: a node
  keeps the form that `nn_trie_match` reads, counts are never higher than the
  user's and are equal to them unless lost, and until a string without a count
  is unsubscribed each dense table knows how many children it has and where
  they lie. One lemma for each operation says what it does to the counts and
  tables of any trie of that form: a subscription adds one at its string, and
  what it takes from others is in `Uncounted`, whether nodes are split,
  extended or change their form (`SubscribeOK`); an unsubscription takes one
  from its string if that has a count (`UnsubscribeCounted`), and from others
  only what is in `Uncounted` and `Mistaken`, also if it has none
  (`UnsubscribeStray`). `TrieStep` joins them. With what the walk of
  `nn_trie_match` finds this is `SubscriptionsMatch`, for any limits of
  prefixes and sparse nodes. `FwdInv`: a thread of a device holds the last
  message received or none, and what it sent are all the others in their order;
  each socket is the source of one thread at most, and the target of one.
* `TransportsProofs`. `InprocInv`: either no end is connected and no event is on
  its way (`Apart`), or both are, and in each direction a message is in exactly one
  of five places, by the flags of both ends and the events not yet delivered
  (`Linked`, `Way`), or one thread opens or closes and the other is in no call
  (`Changes`); each case says in which states both machines then are. With what
  was sent being what was received, queued and shown (`Carried`), this is
  `InprocHandlesEvents` and `InprocIsExact`, for any number of messages.
  `FrameInv`: for each state of the receiver of ws, what the chunks it keeps are of
  the message that the peer has sent so far (`Between`, `BeforePayload`,
  `WithPayload`, `Complete`), what is wrong with a control frame that is let through
  (`InControl`), and for what a connection is closed (`Rightly`). `Transferred`
  alone is not inductive: it speaks of whole messages and a step sees one frame.
  The proof needs that the code checks chunk by chunk what the RFC says of the whole
  text: that the loop of `Scan` finds exactly the text that is UTF-8
  (`ScanDecides`), that UTF-8 and UTF-8 make UTF-8 (`Utf8Concat`), and that chunks
  are put together one by one (`FlatAppend`). `Scan`, `Utf8` and `FlattenSeq` are
  recursive functions of texts of any length; the lemmas take the least or greatest
  place at which one would not be as stated. This is `FramesAreExact`, for any
  number of frames and limit of the size. That the peer's frames are those of
  `AllFrames` is used in one place, for their types (`FramesTyped`): each step is
  proved for a frame with any payload (`HeaderKeeps`).

Only model-checked:

* liveness and what needs fairness (`ClosedDelivered`, `ClosedFairFifo`,
  `MessageNoticed`, `DestroyEnds`, `RequestAnswered`, `WeatherArrives`,
  `SortEnds`, `DialogueEnds`, `CloseReturns`, `Recovers`): this prover has no
  rules for `ENABLED`;
* `NoBadEvent` and `StackInStep` of tcp, ipc and ws: the machines of a connection
  come in some eighty combinations with what is in the queue of their context, and
  the invariant that lists them has not been written;
* `Transferred` of handshakes: the parser's walk over the lines of a handshake.

## 5. Not modelled

* TaskSystem: the layouts of the message types, TimeHelper, the tools, timing and
  printing. `message_wait` is `sched_yield`. Failures of `shm_open`, `mmap` and
  `pthread_create` end the process at once. 32-bit overflow of `msg_size` and of
  the comparison functions, and the swapped dimensions of `task_name`
  (`System.h:58`), are not modelled.
* nanomsg: the containers and encodings of `utils` and `transports/utils`
  (lists, hashes, base64, SHA-1, addresses), for which the modules use sets,
  sequences and abstract values; `nn_poll`, symbol tables, statistics and
  environment variables of the core; pollers, timer sets and the loop of the
  worker, which the modules see through the events they produce; everything for
  Windows; nanocat, the demos, the tests and the performance tests; headers of
  more than one hop.
* `nano_benchmarking/` and the other experiments: measurements and throw-away
  programs that nothing else uses.

## 6. Plan

1. Done: TaskSystem with its programs; the core, protocols, devices, memory and
   transports of nanomsg; the proofs of section 4.
2. Proofs: `NoBadEvent` and `StackInStep` of tcp, ipc and ws.
3. Devices between REQ and REP sockets, with headers of several hops.
4. Messages: `msg_size` of every type after `create`, `setData`, `writeAt` and
   `clone` (`TopologyMsg.writeAt` changes its own size).

# Formal models of low-latency-experiments

TLA+ models of the concurrent programs of this repository, the TLC
configurations that check them on small instances, and TLAPS proofs of every
safety property and every refinement among them, for every size, number of
threads and number of operations.

Run from this directory: `tlc -config LocklessRing.cfg LocklessRing.tla` checks
a module, `tlapm LocklessRingProofs.tla` its proofs.

## 1. Inventory

The repository is a set of small benchmark programs. They share no code except
in `epoll_vs_multithreaded_io`, so they are independent components.

| component | state | operations | who interacts, and how |
|---|---|---|---|
| lock-free ring, wrapped indices (`concurrency_spsc_ringbuffer_queue/lockless_...`) | atomics `write`, `read` modulo the size; plain `buffer` | `try_push`, `push`, `try_pop`, `pop` | one producer, one consumer; shared memory, seq_cst atomics |
| two lock-free rings, growing counters (`lockless_spsc_sequantial_vs_acquirerelease`) | atomics `write`, `read`, never reduced; plain `buffer` | the same | the same, once with seq_cst, once with acquire/release |
| lock based ring (`.../locked_ring_buffer_spsc`) | plain `write`, `read`, `buffer`, a mutex | `push`, `pop` | the same two threads, through the mutex |
| coarse grained MPMC queue | `std::queue`, mutex, condition variable | `push`, `pop` | 50 writers and 50 readers behind a barrier |
| fine grained MPMC queue | linked list with a dummy node, head and tail mutex, heap | `enqueue`, `dequeue` | the same; the two ends share no lock |
| counters (`atomic_vs_mutex`) | an atomic, or a long and a mutex | `increment` | main creates, joins, prints |
| TCP server base (`network/tcp_server.*`) | `m_peerSockets`, `m_peerSocketsConnectionFlags`, `m_isStopping` | `addPeer`, `removePeer`, `stop` | base class of both servers |
| epoll server (`tcp_server_reactor.*`, `server_reactor.cpp`, `io_listener_epoll.*`) | descriptor-to-slot table, epoll set, reactor thread | accept, `handleClient`, connect and disconnect callbacks | one reactor thread serves everybody; main stops and joins it |
| thread-per-client server (`tcp_server_thread_per_client.*`, `server_thread_per_client.cpp`) | `m_clientThreads`, one mutex | acceptor loop, `handleClient` in a thread per client | threads share slots, vectors and the mutex |
| sockets (`socket.*`, `tcp_connection.*`) | descriptor, `m_state`, errno of the thread | `accept`, `send`, `receive`, `close`, `isConnectionLost` | used by servers and client; the kernel is outside |
| client automation (`client_automation.cpp`, `tcp_connector.*`) | `messageCounter` and its mutex, `numberDisconnections`; per thread a connection, errno, loop counter | connect until it works, send, receive, reconnect, resend, quit, close | one thread per client; the threads share the counter and the descriptors, and talk TCP to a server that may go away |
| false sharing; virtual methods and CRTP | – | sequential loops | threads that share no variable, or one thread |

What is hard in each of them, and the properties that make it correct:

* **Rings.** Unlocked access to slots ordered only by two indices; full and
  empty told apart by comparing indices; stale copies of an index; which memory
  order is enough. Correct: no slot is accessed by both threads at a time,
  values come out once and in order, a try fails only at the limit, both loops
  end. The lock based ring has exclusion but no test for full or empty.
* **MPMC queues.** Notification after unlock, elements taken by another
  consumer than the one woken, spurious wake-ups; a node deleted while the other
  end of the list may still point to it. Correct: no lost wake-up, `front` only
  of a queue with elements, no use after free, every operation atomic to the
  others, every thread ends.
* **Servers.** Slots and descriptors that are used again, a table that is never
  cleaned, a batch of events that may go stale, errno shared by all connections
  of a thread, descriptors that run out, a lock held across a blocking call,
  threads that look at a container another thread is filling. Correct: a slot,
  its descriptor and its connection belong together as long as they are in use,
  what clients send is received, `stop` returns.
* **Client.** Connection losses told by an errno that may be stale, a loop that
  ends on a `recv` result from before the reconnect, a message sent again, a
  counter read twice under one lock, sockets that `close` passes over. Correct:
  every message has its own number, a thread never waits for a reply that
  cannot come, a thread in step with its server leaves a reset connection before it
  sends again, every lost descriptor is accounted for, every thread ends.
* **Client and epoll server together.** `quit` counts only if it arrives alone.
  The server replies to it before it closes, and the client closes without reading
  that reply, so every connection ends in a reset. Correct: one message under
  way per waiting thread, so that `quit` is alone; the reset comes too late to
  kill a process or to cost a descriptor; everyone is served with fewer descriptors
  than clients.

## 2. Modules

```
SpscQueue   <--refines--  LocklessRing, CounterRing        LockedRing
MpmcQueue   <--refines--  CoarseQueue, FineQueue (both extend Workers)
Counters
Tcp  <--extends--  Client
Tcp  <--extends--  Sockets  <--  TCPServer  <--  ReactorServer, ThreadServer
Service extends ReactorServer and instantiates Client: both programs in one model
ServedClient extends Service  --refines-->  Client, with the server it assumes
MCReactorServer, MCThreadServer, MCService: instances for TLC
one ...Proofs module for each of LocklessRing, CounterRing, LockedRing,
CoarseQueue, FineQueue, Client, ThreadServer and ReactorServer; the last one
also has those of Service and ServedClient, which build on its invariant
```

Every model has one action per access to shared state. The label (`pc`, `ppc`,
`cpc`) of a thread is the access it performs next; what a thread does between two
accesses belongs to the action before or after it. Variables have the names of
the code's fields and locals. Each of the lines `map` names in `PROJECT.json` is
the code a definition stands for. Definitions commented *mutant* are plausible
bugs of the definition that follows them and are used by no specification; each
property fails when its mutant takes that definition's place.

* **LocklessRing** – a thread's loop, `try_push`/`try_pop` access by access;
  `HasRoom` and `IsEmpty` are the two comparisons. All accesses to indices are
  seq_cst, so interleaving is the whole truth about them.
* **CounterRing** – both growing-counter programs; `order` says which. A load
  of the other thread's counter returns the newest value (`SeqCstLoad`) or any
  value not older than one seen before (`AcquireLoad`). `hbReads` and `hbWrites`
  count the slot accesses that are known to have happened before; a slot read
  that is not ordered after its write returns anything. A thread's load of its
  own counter always reads its own last store. Line 25 of the sequential
  program (`buffer.get()` on an array) does not compile as it stands; the model
  takes it for the slot store of its sibling.
* **LockedRing** – statement by statement, including the absence of any test.
* **Workers** – main, barrier and loops of both MPMC programs. Both size
  `read_threads` by `NUM_WRITE_THREADS`, hence `ThreadsAssumption`.
* **CoarseQueue** – `wait(lock, pred)` is its defining loop: test, release and
  sleep in one step, be woken by `NotifyOne` or by nobody, re-acquire, test again.
  The program pushes the constant 1; the model numbers the elements so that
  their order can be stated.
* **FineQueue** – `Nodes` is the heap: `new` returns any node not allocated,
  `delete` gives it back, and it can be handed out at once. The race on `next` is
  modelled as the interleavings of whole-pointer accesses, which is what an
  x86-64 build without optimisation (the Makefile asks for none) can produce.
* **Counters** – both counters; `value++` of the mutex counter is a load and a
  store.
* **Tcp** – what a process can tell of the other end of a connection, and what
  `send`, `recv` and errno do in each case: a reset is reported once, by whichever
  call comes first; a second `send` raises SIGPIPE; only an error sets errno.
* **Sockets** – the server's side of the kernel, and clients that do whatever a
  TCP client can: the listen queue, the bytes not yet received, the descriptor
  table with the lowest free number handed out. Mostly external, modelled from
  how the servers use it: `recv` may return several messages at once; data that
  arrived before a reset can still be received.
* **TCPServer** – the base class of both servers and what their `main` functions
  share: `start`, whose bind or listen may fail and whose result nobody looks at,
  `stop`, the peer slots with `addPeer`, `removePeer` and `getPeerSocket`. A socket
  object is its descriptor and its `SOCKET_STATE`; `close` does something only to a
  CONNECTED one.
* **ReactorServer** – main and the reactor thread; one action per event of a
  batch, `handleClient` split at its system calls (receive, send, the close after a
  *quit*) because the client can act in between. `errno` is kept across events, as
  the thread's is.
* **ThreadServer** – acceptor, workers, the one mutex, and main's joins, one worker
  at a time (`joined` counts them). A vector read while another thread appends to it
  may find its element or kill the process; so `killed` is left open there. A worker
  that names a thread already joined, through its null handle, does kill it.
* **Client** – every thread of `client_automation`, call by call. `message` is the
  number in the thread's last message, `atEof` the loop's `res` as far as it matters
  (was it 0), `skipped` a history variable (on this connection the reply to a
  resend has not been awaited), `openFds` the sockets the process has open, `refused` the sockets
  lost to refused connects. The server here is any server that answers: it may be
  down at first, take one message or several at a time, crash with or without
  unread data, and come back.
* **Service** – `Client` against `ReactorServer`: a client's connect enters the
  backlog, its messages are what the reactor finds to receive, the reactor's
  replies what the client waits for, and either side's close is what the other
  side sees: as a reset if something was left unread (`Closes`, `ServerStep`) or
  comes later (`Rejects`). The free clients of `Sockets` and the free server of `Client` play no
  part; their actions are replaced by the other program.
* **ServedClient** – `Service` as its clients see it. The server `Client` assumes
  receives, replies and closes in one step; the reactor takes several, so a
  message it has received and not answered still counts as being at the server, and
  a connection whose *quit* it has answered as closed (`EndSeen`).
  `left` is a history variable: it keeps what was at the server when a client
  closed, since what the reactor does with it later no longer concerns the client.

### Abstract specifications

`SpscQueue` is a bounded queue for one producer and one consumer, `MpmcQueue`
an unbounded one for many, whose dequeue may report a miss when it is empty.
Each concrete queue implements one of them (`ImplementsQueue`): the comment above
the mapping names the step at which an operation takes effect. For the epoll server
the abstract specification is what `Client` says of its server (`Serve`):
`ServesAsExpected` says that the reactor implements it, so that what `Client`
assumes of a server that stays up is what this one does.

## 3. Checks

| run | distinct states (about) | what it shows |
|---|---|---|
| lockless_ring | 310 | `RaceFree`, `FailsOnlyAtTheLimit`, implements `SpscQueue` with capacity `Size - 1`, main returns |
| counter_ring | 2 100 | `RaceFree` and `SpscQueue` with capacity `Size` for both memory orders, although loads may be stale; main returns |
| locked_ring | 680 | `PopTakesNewest`, `FifoWhenPaced`: what it keeps without any test for full or empty |
| coarse_queue | 24 000 | `NoLostWakeup`, implements `MpmcQueue`, every thread ends |
| fine_queue | 106 000 | `NoUseAfterFree`, implements `MpmcQueue`, every thread ends |
| fine_queue_race | violation | `enqueue` and `dequeue` meet at `next` of the dummy node without a common lock |
| counters | 2 400 | main prints, and prints the number of all increments |
| reactor | 186 000 | `TableExact`, `LiveWatched`, `BatchFresh`, `Answered`, `Stops`, also when `start` fails |
| thread_per_client | 445 000 | `WorkersApart`, `OpenAccounted`, `StopsOnceClientsLeave` |
| thread_name | violation | a worker may name a thread that is not there, or another worker |
| client | 851 000 | `MessagesDistinct`, `InStep`, `SurvivesReset`, `DescriptorsAccounted`, `Finishes` |
| service | 197 000 | `Lockstep`, `Undisturbed`, `AllServed`, `ServesAsExpected`: *quit* arrives alone, the resets that end the connections do no harm, and the reactor is a server as the client assumes one |

Most passing runs also check their module's type invariant (that of LockedRing is
proved only, and Service has those of its parts), and all check for deadlock: programs that have ended stutter (`Joined`, `Returned`, `Ended`);
`Service` never ends, its reactor goes on polling.

### Bounds, and why they are enough

* Rings: `Size = 3`, `Pushes = 7`: both indices wrap more than twice, with slots
  empty, partly and completely filled. `IntMax = 7 = Pushes` takes
  `increment`'s parameter to the edge of its width. The proofs remove the
  bounds.
* CoarseQueue: two writers, two readers, two rounds, `MaxSpurious = 1`: a
  notification can find none, one or two sleepers, can wake one consumer while
  another takes the element, and a spurious wake-up can come at any moment.
* FineQueue: three writers, two readers, one round, four nodes, one for every
  element and the dummy: a freed node can be reused while another dequeue or an
  enqueue still runs; two writers queue at the tail while the list is empty.
* Counters: three threads, two rounds.
* Servers: three clients and two descriptors, so a third connection waits for a
  descriptor that is used again; one client talks (two messages to the epoll
  server, one to the other), the others connect, leave or reset at any moment.
  The proofs remove the bounds of the safety properties of both.
* Client: two threads, two messages each, so that a reply can be taken for the
  next message's and one thread can send while the other holds the mutex; four
  descriptors, so that retries can use them up (`FdLimit`); two crashes, so that a
  thread can lose the connection it has reconnected to (`MaxCrashes`). The
  safety properties are proved without these bounds.
* Service: three clients with one message each against two descriptors: the
  third waits until a slot and a descriptor are given back. The proofs remove these
  bounds too, also of `ServesAsExpected`.

### Fairness

Threads that can go on are run again and again (weak fairness per thread).
No fairness of mutexes is assumed: each thread of the queue programs takes
them a bounded number of times. `CounterRing` further assumes that a store
becomes visible to a thread that goes on loading (`Visibility`), as the C++
standard asks of implementations. `Client` assumes a server that answers what it
has received while it is up and that is started again after a crash (`Serve`,
`Reject`, `Restart`): without a server the program retries for ever, by design.
`Service` assumes nothing of the kind, as the server is in the model. Spurious
wake-ups, crashes, the operator's *quit* and the servers' free clients are never
forced to happen.

### Where the code does less than it says

* The lock based ring is presented beside the lock-free one as a queue
  (repository README); its `pop` does not look whether there is anything to pop.
  What it does keep is in `locked_ring`.
* The dummy node of the fine grained queue does not separate the two locks when
  the list is empty: both access the same `next` (`fine_queue_race`). On the build
  of the Makefile every outcome is harmless (`fine_queue`).
* Threads that name themselves do it through a pointer the creating thread may
  not have stored yet (`thread_name`; the reactor thread does the same, which is
  why its properties allow for `killed`). In a slot used again a worker names an
  older worker's thread, and when `stop` has joined that one its handle is null.
* `start` of both servers reports a failure that nobody looks at: main waits for
  the operator without a thread to serve. `Stops` and `StopsOnceClientsLeave` include
  that case.
* `stop` of the thread-per-client server returns only when clients leave or
  talk: a worker blocks in `recv` while it holds the mutex.
  `StopsOnceClientsLeave` is the strongest form that holds.
* A descriptor is never closed after a reset: `isConnectionLost` marks the
  socket disconnected and `close` then skips it. `OpenAccounted` and
  `LiveWatched` say that these are the servers' only leaks, and that a client that
  has kept its end open never loses its slot to them.
* A closed client (`recv` returns 0) is not taken for a disconnect and stays
  ready until stop; the epoll server goes on serving the others (`Answered`).
* `client_automation` declares `maxConnectionTrials` and never uses it: it retries
  without end, and every refused connect costs a descriptor, as does every counted
  disconnection. `DescriptorsAccounted` says that nothing else does; `Finishes` has
  to except the case that they run out.
* The same client takes an orderly close by the server (`recv` returns 0) for an
  answer. It then sends on, first to a closed and then to a reset connection, and
  may die of SIGPIPE. `SurvivesReset` says what remains: on a connection on which
  no reply has been skipped, a reset is noticed before the thread sends again.
* After a reconnect the message is sent again, but its reply is not awaited if
  the `recv` before had returned 0; from then on each reply on this connection is
  taken for the next message's, and a reset met by any later send can go unnoticed.
  `InStep` bounds how far the thread runs ahead.
* The client closes without reading the reply to its *quit*, and the server sends
  that reply before it closes: every orderly conversation ends in a reset.
  `Undisturbed` says that neither program ever gets to see it.

## 4. Proofs

All from `Init` and `Next` of the module the theorem is about and the named
assumptions on its constants: sizes, iterations and descriptors are positive (or
natural) numbers, sets of threads and clients are finite, the constants that stand
for *nobody* are no thread and no node, the nodes of the fine grained queue suffice
for all its elements and the dummy, and `Pushes` fits an int for CounterRing. No
fairness is used.

* **LocklessRingProofs** – first arithmetic modulo the size: two numbers less than
  `Size` apart that agree modulo `Size` are equal, and what adding one does (the
  other ring proofs have the part of it they need). `Fifo` and `RaceFree` are not
  inductive: they follow from the link between indices and loop counters. The
  inductive invariant says that `write` is `i` and `read` is `j` modulo `Size`;
  that `tail` and `head` are
  their owners' indices once loaded; that the ring is never overfull,
  `0 <= i - j < Size`, with one value less before a slot is written and at least
  one value before a slot is read; and that the slots from `j` to `i` hold their
  numbers. From it: `TypeCorrect`, `NoRace`, `FifoOrder`, `FailureExact`, and
  `Refinement`: storing `write` is `Push`, copying the slot is `Pop`, every other step a
  stutter.
* **CounterRingProofs** – indices are the counters themselves, but loads may be
  stale. The invariant relates what a thread has seen to what is known to have
  happened (`seenRead = hbReads <= j <= seenWrite = hbWrites <= i`), and the decision a
  thread has taken to its view: having room means `tail < hbReads + Size`, not
  being empty `head < hbWrites`; staleness only makes a thread more careful. It also
  keeps every counter at most `Pushes`, where `increment`'s narrowing is the
  identity. From it: `TypeCorrect`, `NoRace`, `FifoOrder`, `Refinement`.
* **LockedRingProofs** – counters equal loop counters, one ahead of them once
  they have been advanced and the mutex is still held; the owner of the mutex is
  the thread inside, and each slot holds the newest value pushed into it. From it:
  `TypeCorrect`, `Exclusion`, `NewestTaken`, `PacedFifo`.
* **CoarseQueueProofs** – a thread holds the mutex exactly where it has to, the
  readers asleep are those the condition variable knows, a reader past the test
  finds an element. `NoLostWakeup` is inductive together with these: the proof
  follows, action by action, the numbers of notifications to come and of readers
  awake against the length of the queue. From it: `TypeCorrect`, `WakeupsKept` and
  `Refinement`: `push` under the mutex is `Enqueue`, the copy of `front` is `Dequeue`.
* **FineQueueProofs** – that `next` leads only to allocated nodes needs to know
  which nodes are on the list. The invariant does not follow pointers: the list is
  the allocated nodes no thread has to itself, and on it `next` is injective and
  never leads back to the dummy. `tail` may be stale only while a writer is about
  to move it, and then its own node is the last. From it: `TypeCorrect`,
  `MemorySafe`. `Refinement` does follow pointers, as the queue the list stands for
  is its values in order from the dummy (`ListFrom`). Injectivity alone would allow
  a second, cyclic part beside the list, so `ChainInv` adds that a function leads
  from the dummy over *all* nodes of the list to its end, and `DataInv` that each
  node holds its writer's element. `ListFrom` is a recursive function: instead of
  induction over it, `ListOfIs` shows by least counterexample that it is the only
  function that goes where the chain goes, and the lemmas `SeenLonger`, `SeenFewer`
  and `SeenKept` give the values of the queue after a link at the tail, a step of
  the head and anything else. `Link` is `Enqueue`, `Copy` is `Dequeue`, a `LoadNext` that
  reads null is `Miss`, every other step a stutter.
* **ClientProofs** – the mutex is held from the increment until the number is in
  the message, numbers in use are at most the counter; how many messages and
  replies can be under way at each step of a thread, by whether it has skipped a
  reply on this connection; a thread that has been told of a reset still has its
  errno when it looks. From it: `TypeCorrect`, `Distinct`, `NoOtherLeak`,
  `NeverWaitsInVain`, `ResetSurvived`.
* **ReactorProofs** – `TableExact` is the core, but not inductive alone: it needs
  that a watched descriptor is open, that no two descriptors have the same
  connection and none a connection still in the backlog (`KernelInv`), that there
  are never more slots than clients (`SlotInv`; by pigeonhole from the slots in use
  to their clients), and that the events of a batch are of different descriptors,
  none of them the one at hand (`EventInv`). From it: `TypeCorrect`, `TableRight`,
  `ClientsKept`, `EventsFresh`.

  Of `Service`, whose clients are a special case of the free ones (`PeersStep`), the
  same invariant holds. `ServiceInv` adds where each client's conversation can be,
  as a relation between the thread's label, both ends of its connection and what is
  on its way (`NotCome`, `Speaking`, `Waiting`, `Quitting`, `Dismissing`, `LetGo`); that the
  reactor has a message in hand only between its receive and its send (`HandInv`);
  that nothing is lost so far (`CalmInv`: each event is valid and each open
  descriptor watched); and that a connection the server has closed is nowhere any
  more (`GoneInv`), so that an empty receive cannot happen. A reset can only reach a
  server that is about to close (`Dismissing`), which asks nothing of the connection
  again, or one that has closed. That the server gets there only after *quit*, and the
  client closes only then, is a circle between the two programs; it is closed by the
  invariant being of both. From it:
  `InLockstep`, `NeverDisturbed`, and `ServedRight`: the reactor's `Send` is the assumed
  server's `Serve`, unless its client has closed; its `Dismiss`, the client's kernel
  rejecting a reply (`Rejects`) and every other step are stutters.
* **ThreadServerProofs** – the invariant on connections and descriptors is that of
  ReactorProofs; in place of table and batch there are the mutex (`LockInv`) and the
  slot of each worker (`ServeInv`). That a new worker always finds a slot index
  and a thread is not local: workers are never joined before stop, so that there are
  never more of them than clients needs counting. `CountInv` says that the clients that
  have come are those in the backlog, the one in the acceptor's hands and those
  with a worker; `RoomForSlot` then finds room for a slot by pigeonhole.
  `OpenAccounted` needs that a worker's errno says *lost* only about its own
  connection (`ErrnoInv`), and that a socket in use is marked DISCONNECTED only if its
  peer has reset the connection (`SlotInv`). From it, and that main joins no
  more workers than there are (`JoinedInv`): `TypeCorrect`, `WorkersSeparate`,
  `DescriptorsAccounted`.

### Only model-checked

Liveness (`Terminates`, `Answered`, `Stops`, `StopsOnceClientsLeave`, `Finishes`,
`AllServed`, `PrintsTotal`) needs fairness and `ENABLED`, which are out of the
prover's reach. What `PrintsTotal` says of the value printed is a safety property
and could be proved by counting pairs of a thread and a round; that has not been done.
Every other property of a passing run is proved. The two runs that end in a violation
have nothing to prove.

## 5. Not modelled

* Input, argument checks and timing output of the `main` functions; the values
  the operator enters are constants.
* Socket options, addresses, UDP, `connect` with a timeout, `send` and `receive`
  with a timeout: never called, or without effect on what the programs do. Two of
  them are in the models because they do have one: `TCP_NODELAY` is set at level
  `SOL_SOCKET`, where it fails for a process without privileges and overwrites a
  stale errno (`ErrnoAfterOption`), and the acceptor waits with `select` before `accept`.
* Edge-triggered epoll (never selected), a failing `epoll_wait`, more than 10240
  ready events.
* Missing `return` in the thread functions of the MPMC programs: undefined
  behaviour, without effect in a build that does not optimise, as the
  thread's result is not used.
* `AtomicCounter::decrement`, `get`, `MutexCounter::decrement`: never called.
* Windows branches, and the start-up of the socket library, which is empty on
  Linux.
* False sharing, virtual methods and CRTP: no shared state, nothing to
  interleave. Build files: compiler invocations.

## 6. Plan

Done: the rings, the MPMC queues, the counters, both servers, the client, and the
client with the epoll server; every safety property and every refinement the runs
check, for every size.

1. `Counters`: what main prints is the number of all increments, as a safety
   property and by an injection of increments instead of a sum.
2. What `Client` proves against its assumed server, carried over to `Service`
   through `ServedRight`: distinct message numbers, accounted descriptors.
3. The same client with the thread-per-client server.

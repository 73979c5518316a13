# Specifications of the servers and containers of technopark_cpp

The repository holds the examples of a C++ course. Its programs with a state of
their own are the servers and clients under `src/net`, the containers under
`src/cmake_make_gtest_cppunit` and a few of the examples. This directory models them
in TLA+, checks the models with TLC on small instances and proves the main facts with
TLAPS for every value of the constants.

## The system

### Components

| part | state | operations | hard because |
|---|---|---|---|
| asynchronous poll() server, `net/libtpevent/src/poll_async.*` | `m_ClientsWantWork` (vector, under a lock for writers), `m_ClientsHaveWork` (queue), one `Connection` per client owned by `shared_ptr`s in callbacks, the manager's `pollfd` array | accept, asyncRead/asyncWrite, the manager's fill / poll / dispatch / clean-up, the workers' read / write / callback | six threads; index reuse while the vector moves; unlocked reads; descriptor numbers reused by the kernel |
| poll() server, `poll.*` | `m_Clients` (vector, no lock), the `pollfd` array | accept and append; fill / poll / loop / clean-up | two threads on one vector; slots of earlier rounds; close before erase |
| select() server, `select.*` | `m_Clients` with the listener first | select / loop / clean-up | resets between read and write; the loop ends at every accept |
| epoll server, `epoll.*` | heap `Client` objects, known to epoll by address | wait / handle / clean-up | raw pointers in batches; two copies of "what the client waits for" |
| engine, server, options, main | command line, members of `options`, the listener | parse, make the engine, listen, serve | members nobody initialised; a null engine; exceptions on the way |
| `net/common/socket.*` and the clients over it; `simplest_client_server/client.cpp` | one descriptor, what was sent, what was received | connect with a time limit, send, the receives, close | partial sends, answers cut anywhere, time-outs, exceptions |
| `simplest_client_server/server_select.cpp`, `server_poll.cpp` | set or array of descriptors | one loop: accept, read, write, close | erased iterators, closed descriptors kept in the array, descriptor numbers reused |
| `simple_server.cpp`, `prefork.cpp` | one client per process | accept, recv with a time limit, send, close | silent clients, clients that never stop, two processes on one listener |
| `multiplex.cpp` | vector of clients | accept, hasData, recv | clients that left stay |
| `net/libevent`, `net/asio` | buffers per client; the chain of handlers of a client | callbacks | several requests in one callback, reset between handlers, failed accept |
| `Queue`, `Stack`, `DArray`, `Heap`, `LinkedList` | buffers and indices, nodes | container calls | wrap-around, unsigned indices, growth from zero, forgotten ends |
| shell sort, `stack_corr.cpp` | an array, gap and index | passes | gaps from an integer division |
| LRU caches, `examples/038`, `039` | map and list or generations | insert, find, clear | two structures that must agree |
| owning classes, `examples/008`, `014`, `016`, `021` | raw pointers | copy, move, assign, destroy | self assignment, exceptions of `new`, double frees |
| double-checked locking, `examples/007` | atomic pointer, mutex | `GetInstance()` | threads between the two checks |

The servers never talk to each other: `server.cpp` starts one engine, every other server
is a program of its own. They interact with
the kernel (descriptor table, backlog, socket buffers) and through it with the
clients, which connect, send, close and reset whenever they like. Inside the
asynchronous server the manager hands events to the workers through
`m_ClientsHaveWork`, the workers and the acceptor hand events back through
`m_ClientsWantWork`, and the callbacks stored in events keep Connections alive.

What makes a server correct: it answers every request once, in order, to the client
that sent it; it drops only clients that left, closes each descriptor once and none
of somebody else; its own assertions hold; it does not stop. What makes a client
correct: it sends its query whole, recognises the answer however it is cut, and ends
with its descriptor closed; the exceptions below say how far these clients do. What makes a container or a cache correct: it implements
the abstract type it stands for.

### Modules

| module | what it models |
|---|---|
| `Sockets` | external: the kernel and the clients. `accept()` gives the lowest free number, `close()` frees it, `read()`, `write()`, `poll()` answer by the state of the socket |
| `EventLoop` | `poll_async.cpp` |
| `SelectEngine`, `EpollEngine`, `PollEngine` | `select.cpp`, `epoll.cpp`, `poll.cpp` |
| `Session` | abstract: what a request/reply server promises its clients; implemented by `SelectEngine` and `EpollEngine` |
| `Startup` | `main.cpp`, `options.*`, `server.cpp` and the constructor of `engine` |
| `SocketClients` | the four client programs and the part of `socket.cpp` they call, against one server |
| `SimpleSelect`, `SimplePoll` | `server_select.cpp`, `server_poll.cpp` |
| `BlockingServers` | `simple_server.cpp` and `prefork.cpp` over `Socket` |
| `Multiplex` | `multiplex.cpp` over `Socket` |
| `LibeventServer`, `AsioServer` | `net/libevent/main.cpp`, `net/asio/main.cpp`; the libraries are external |
| `RingQueue` | `Queue.cpp`, `Queue.h` |
| `Stack`, `DArray`, `LinkedList` | the containers of those names; `DArray` has the functions of `Heap.cpp` too |
| `ShellSort` | `shell_sort()` of `stack_corr.cpp` |
| `LruCaches` | both caches, driven by the same calls |
| `Ownership`, `Singleton` | the examples that manage memory by hand; double-checked locking |
| `BoundedFifo`, `BoundedLifo`, `PriorityQueue`, `LeastRecentlyUsed` | abstract: what `RingQueue`, `Stack`, the heap and the caches promise |
| `MCEventLoop`, `MCPollEngine` | instances of one module |
| `MCEngines`, `MCSmallServers`, `MCPrograms`, `MCContainers` | several modules in one run. A variable chosen at the start says which of them a behaviour runs; the others keep their initial state, so this is one instance after the other and no interaction |
| `EventLoopProofs`, `PollEngineProofs`, `EnginesProofs`, `SmallServersProofs`, `ProgramsProofs`, `ContainersProofs`, `ArrayProofs` | the theorems; each extends the module, or the MC module of the modules, that it proves about |
| `SequenceLemmas` | lemmas the proofs share: what appending, taking and erasing leave of a vector, a least and a greatest element, induction on counts, functions defined by recursion |

Every server module EXTENDS `Sockets` and so composes the server with the kernel and
the clients: a client step and a server step interleave freely.

## How the models correspond to the code

Variables keep the source's names where they have one (`m_Clients`, `m_Sd`,
`m_WriteBuf`, `fds`, `state`, `head_`, `tail_`). `want` and `have` are
`m_ClientsWantWork` and `m_ClientsHaveWork`; `gone` is `disconnected_clients`; `mpc`,
`tpc`, `apc`, `spc`, `epc` are program counters. A request is a pair of the client
and its number, so that properties can tell whose it is; the text, its trimming
and the prefix of the answer are left out. "R" and "W" are `WANT_READ` and
`WANT_WRITE`.

### EventLoop

* `Accept` is `accept_work`; without a free descriptor `accept()` returns -1 and the
  code makes a Connection from it all the same (`BadConn`).
* `Async` is `asyncRead` and `asyncWrite`. Appending to a vector that is full takes
  two steps (`GrowBegin`, `GrowEnd`), because the manager can observe it.
* `Release` is the end of the scope of an event or of `conn`: the last reference runs
  `~Connection`, which closes the descriptor. A Connection is not counted but
  derived: `Referenced` says that an event in either queue or a thread has it.
* `Start`, `Pop`, `Read`, `CloseAfterError`, `Write` are the worker's loop. On a
  socket with nothing to read none of the `Read` steps is enabled: it blocks.
* `Fill`, `PollCall`, `PollReturn`, `PollError`, `Dispatch*`, `Cleanup*` are one
  round of `manageConnections`. The `pollfd` array lives across rounds as in the
  code, so slots keep old contents; slots never written are zero, as the pages of a
  new thread's stack are. The size of the vector is read again for `poll()` and at
  every iteration.
* The fill loop is one step: only appends can run beside it (erasing is done by the
  same thread), and an append during the loop is the same as one before or after its
  last size check. The same holds for `PollEngine`.
* Undefined behaviour: while a thread reallocates the vector, the manager's unlocked
  read gives an old value or a new one, which are the interleavings of the model, or
  the process dies (`Crash`). The same for two workers in the strings of one
  Connection (`BufferRace`).
* `readFailed` is a history variable. After a failed `read()` the worker closes a
  descriptor that `~Connection` closes again; the ownership properties claim nothing
  from then on.

### PollEngine

`PushBegin` and `PushEnd` are the two ends of `push_back()`. If the manager changed
the vector in between, `Raced` gives what can be left: its changes are lost with the
old storage; or, in place, one of the two updates of the end is lost, so that the new
client is missing or a moved entry appears twice; or the process dies (`Crash`).
`served` is a ghost: the answer of this server is a fixed text, and `served` remembers
which requests it answers. POLLHUP and POLLNVAL share one action, as both branches do
the same. POLLERR alone does not occur on these sockets.

### SelectEngine and EpollEngine

`SelectEngine` takes one step per `read()` and per `write()`, so that a reset can
come between `read()` and `write()`. `EpollEngine` handles the events of a batch in any
order. A `Client` object is named by the socket it was made for; `misused` records
that one was used or deleted after its delete. `ReadEvent` and `WriteEvent` read the
state through the pointer of the event first, whatever it is, and record a deleted
Client there; only then comes the early return for a state that does not match the event
(`Ignored`). A hang-up copies the pointer and reads nothing. A failed `accept()` in
`SelectEngine` would FD_SET(-1), outside the array; descriptors do not run out there.

### Startup and SocketClients

* `Startup` looks at one argument a step. `--port`, `--engine` and `--async` assign a
  member; a member that no argument assigned is uninitialised, and its first use
  chooses any value of its type. A port is cut to the 16 bits of `m_Port`. The
  words of an argument are not split character by character.
* `SocketClients` runs one of the four programs. Its server sends its answer, and behind it
  may go on sending text for ever (`ArriveMore`): what it sends then is not told apart. The channel is a sequence of
  characters that arrives bit by bit, so that a `recv()` may end inside the blank line
  that ends the headers. Characters of an answer are "x" and the two line ends, all
  that `recv` and its callers tell apart. The arithmetic of the offset in `send()`
  is kept as it is, modulo the width of `size_t`, so that a query sent in three pieces
  comes out wrong (`SentIntact` claims one or two). Trimming a piece of line ends only
  reads before the string: the program goes on or its end is undefined. `client.cpp` is read as on macOS;
  elsewhere its line 29 does not compile.
* Time is not counted: a timer that runs may run out at any moment.

### Small servers

* `SimpleSelect` and `SimplePoll` take one step per iteration of the loop. In
  `server_select.cpp` that is a read() and the send() behind it (`LoopServe`): a reset
  between the two gives what a reset before the step does. In
  `server_select.cpp` the loop goes on from an erased iterator: undefined, so the
  model lets it continue with a later descriptor or lets the process die. In `server_poll.cpp`
  the slot of a client that left keeps its number, and with it the POLLOUT of an
  answer not yet sent. The ghost `owed` of a slot says which requests its hello is for,
  so a hello that goes to the next client of that number is seen as what it is. A
  client more than the array holds ends the behaviour.
* `BlockingServers`: a process holds one client at a time, so the number of its client
  socket names the process; the second one exists in `prefork` only. A client that
  sends nothing is closed when time is up. One that keeps sending holds its process: what
  it sends beyond its `MaxReq` numbered requests is the flag `more`, which it may raise
  again and again. `Serve` is a recv() and the send() behind it, as above. `Accept` is
  accept() and setRcvTimeout(), which no try block of `client_work()` guards: its exception
  ends the process.
* `Multiplex` reads and never answers, and never closes.
* `LibeventServer` has the callbacks as actions, and the two transfers of the library
  between socket and buffers. A callback answers one line, whatever has come.
* `AsioServer` has one action per handler. Four threads run them; the handlers of one
  client follow each other, so an action per handler is the interleaving.

### Containers and examples

* `Stack` and `DArray` keep `size_t` modulo `SizeMod`. Reading outside the buffer gives
  `Junk` or ends the process; a write outside it ends the behaviour (`wild`).
* `LinkedList` has every call. `items`, `loose`, `dropped` and `joined` are ghosts: they
  say what the callers asked for, and when a call that leaves `head_` and `tail_` alone
  made a list lose an end.
* `LruCaches` names list nodes by the insert that made them, so an iterator in the map
  is valid when its node is in the list.
* `Ownership` lets `new` throw. `Singleton` takes one step per access of the atomic
  pointer and of the mutex.
* `ShellSort` takes one step per gap, inserted element and finished pass.

## Runs

| run | instance | shows |
|---|---|---|
| `one_client` | 1 client, 2 workers, 2 requests, 22 thousand states | assertion, one worker per Connection, order; every request is echoed, who leaves is released |
| `two_clients` | 2 clients, 2 workers, 2.7 million states | descriptors stay with their Connection, none leaks, no foreign echo |
| `exhausted` | 2 clients, 1 worker, descriptors run out | who leaves is released also when `accept()` fails, or the manager's `poll()` has failed |
| `engines` | `select()` with 2 clients and 4 requests, `poll()` with 1 and 2, epoll with 3 clients on 2 descriptors | `SelectEngine` and `EpollEngine` implement `Session`; no use after delete; every request answered; who leaves is released |
| `poll_clients` | 3 clients, 1 descriptor, 3 failures, all outcomes of the race, 4 million states | only sockets of clients that left are closed, up to the failure of `poll()`, with one exception below |
| `small_servers` | 7 servers, 3 clients on 2 descriptors, 2 requests, 0.4 million states | own answers in order, only leavers closed, everybody accepted, served and released, but for what each property exempts by name |
| `programs` | every command line of 4 arguments; 4 clients, 3 answers, 0.1 million states | a server that runs is the one asked for; a query that is taken in at most two pieces is sent whole; the headers are found when no cut falls in or behind the header end, and only then; a program closes its socket, and one with a timeout ends, but for the exceptions below |
| `containers` | sizes below, 0.2 million states | queue, stack, heap and both caches implement their abstract types; lists, blocks, the singleton and the sort keep their invariants |
| `assert_two_clients` | violation | `poll_async.cpp:93` aborts with two clients |
| `have_work_ready` | violation | a client without data is handed to a worker |
| `poll_assert` | violation | `poll.cpp:150` aborts with three clients |
| `poll_hup_leak` | violation | a client that hangs up leaks its descriptor |

The violations are findings in `PROJECT.json`, each with the line of the repository
that it contradicts.

Exceptions. A property that the code keeps but for one case names the case, and TLC
finds a counterexample when it is left out:

* `OnlyLeaversClosed` of `PollEngine`: when the race revives the entry of a removed
  client, two entries hold one descriptor number: the read() for the second fails, and
  if a client is accepted with that number before the close() of `poll.cpp:103`, it is
  the newcomer that is closed.
* `OnlyLeaversClosed` of the small servers: two slots of `server_poll.cpp` watching one
  number, a silent client of the blocking servers, and the client just accepted when
  setRcvTimeout() throws.
* `OwnAnswersInOrder` of the small servers is an action property: each answer, as it is sent,
  leaves its client with the answers to its own requests, in order and once. The exception is
  the hello of a stale slot of `server_poll.cpp`, sent to a client whose number two slots watch.
* `LeaversReleased`: `multiplex.cpp` keeps who left, `server_poll.cpp` who reset.
* `EveryoneAccepted`: `net/asio` accepts nobody after its first failed accept; and
  `simple_server` and `prefork` accept nobody while clients that send again before every
  timeout hold all their processes (`HeldForEver`).
* `EndsInTime`: http_client may stay in `send()`, which has no timeout and whose loop may
  not end for a query cut in three or more pieces; `recv_loop()` goes on as long as the
  server sends. `client.cpp` sets no timeout and is left out.
* `SentIntact` claims nothing of a query cut in three or more pieces: `send()` goes on from the
  length of the last piece.
* `ServesAsAsked`: `usage()` offers the port 65536 (`options.cpp:22`), which the cast to
  `uint16_t` (line 58) turns into 0. For ports from 65536 on the property claims nothing.
* `HeadersSeen` states exactly which cuts of the answer lose the header end: `recv_loop()`
  trims line ends after every piece.

Bounds of the servers. One client already exercises every thread of a round; two make
the index of the dispatch loop go wrong and let a number be reused; three are needed
for the stale slot of `poll.cpp`, for a revived entry to meet a reused number, and for
one to wait while two hold all descriptors. `MaxReq` 2 lets a request arrive while the
previous one is being answered. `Limit - FirstFd` is the number of descriptors for
clients: as many as clients, or fewer in `exhausted`, `poll_clients`, `engines` and
`small_servers`. `MaxFail` bounds the failed accepts; it is chosen so that `poll()` is
given more entries than it takes. `POLL_SIZE` 4 is the listener and a slot for each of
the three clients, since a slot is never given back: two stale ones and a newcomer fit.
The overflow of that array needs one client more and is covered by the theorems only, which
hold for every size. In `engines` and `small_servers` only `Senders` send, at most `AllReq` requests
together (`SelectReq`, `PollReq`, `EpollReq` per engine), and the liveness properties are
stated for `Watched`, one client that sends and one that does not: the clients are
otherwise interchangeable. For the same reason the safety runs with two or three
clients use symmetry; runs with liveness do not.

Bounds of the rest. Ports 0, 8080 and 65536 are the smallest, a plain one and the first
that wraps; four arguments let an option come twice next to the two others. A query of
3 characters can be sent in one, two or three pieces, and `BufSize` 7 takes a whole
answer in one call, none of which is longer. The queue and the stack have 4 slots, so
that three values wrap around; `BufferSizes` 0 and 1 start the array at the size that
never grows and at the one that doubles twice on the way to `MaxLen` 4; two lists share
3 nodes; caches of size 0, 1 and 2 meet 3 keys and 5 inserts, which evict several times;
3 objects copy 4 blocks; 3 threads make one singleton; arrays of up to 10 elements have two gaps, and of values 0 and 1,
which for a comparison sort is enough to expose a wrong order.

Deadlock is not checked: with all clients gone a server waits for ever, and a process
that died or a program that ended takes no step.

Fairness. Every thread or process that can take a step takes one eventually (weak
fairness per thread), which is what the operating system's scheduler gives runnable
threads. libevent's loop and the threads of asio get round to every callback that is
ready (weak fairness per client). The sleeps and time-outs of the code only delay a
step, and a timer that runs goes off. No fairness is assumed of a `send()` or `write()` of
the client programs, which may wait for ever for room in the send buffer. The servers are
taken to find room always: a client that never reads its answers is not modelled.

No client or server at the far end is assumed to do anything, nor is undefined behaviour or
SIGPIPE assumed away. But liveness of the servers rests on finitely many clients that connect
once and send finitely many numbered requests (`MaxReq`, `AllReq`, `SelectReq`, `PollReq`,
`EpollReq`), except towards the blocking servers: an endless stream of new clients, which
would end the loop of `select.cpp` early for ever, does not occur. The liveness properties
exempt clients that reset their connection and servers that stopped.

## Proofs

TLAPS checks every theorem below for all values of the constants that satisfy the
assumptions named; TLC evaluates each assumption in the runs.

### The asynchronous server: `EventLoopProofs`

Any clients, workers, descriptors and bounds; assumptions `SocketsAssumption`,
`ThreadsAssumption`, `ConnsAssumption`, `MaxFailAssumption` (numbers are numbers, and the
names of clients, threads and "no Connection" differ).

* `TypeCorrect`. `TypeOK` is strengthened by `HoldsWhileBusy`: a thread at work has a
  Connection, without which appending its event would not be well typed.
* `DescriptorsOwned` and `DescriptorsReleased`. The invariant `DInv` adds that only
  accepted clients are referenced and that a thread about to close after an error
  implies `readFailed`. The two properties support each other: a number handed out is
  free, so no open descriptor of a referenced Connection has it; a closed one had no
  reference left. The lemmas on appending, popping and removing say how the set of
  referenced Connections changes with the queues.
* `NoForeignEcho`. `EInv` adds that what is in a receive buffer or in `m_WriteBuf`
  came from that client; ownership gives that a worker's descriptor is that client's.
* `AssertionHolds`, `WorkersDoNotMeet`, `EchoesInOrder`. With two clients these are false
  (`assert_two_clients` shows it for the first), so they are proved under the hypothesis
  `OneClient`: one client and a descriptor for it, with any number of workers, requests
  and rounds. `OInv` says why they hold then: the client has a single event, which is with
  one thread or in one queue, but for the copy the manager is about to erase; the manager's
  index stands at its slot; a read() fails only after a reset. `Ordered` adds that the
  requests echoed, read and not yet written, and unread are those sent, in this order.

### The other servers of libtpevent: `PollEngineProofs`, `EnginesProofs`

* `TypeCorrect` and `LeaversOnly` of `PollEngine` hold with every outcome of the race
  (`Raced`) on the vector. What is needed besides the types is `CloseTarget`: the slot at
  which a client that left is closed still exists, and its number still belongs to a
  client that left. `OnlyLeaversClosed` is an action property; it follows step by step.
* `EnginesTypesHold`, `ClientsAreAlive`. `EpollInv` ties the descriptor table to the
  Client objects both ways, says that a batch names only live Clients, each once and none
  that is on `disconnected_clients`, and that a Client wants to write exactly when it owes
  an answer. Assumption `ListenerAssumption`: the listener is not a client.
* `EnginesImplementSession`. Both servers implement `Session`, action by action. The
  count of requests (sent = answered + owed + unread while the far end is open) is part
  of the invariants, because `Session` lets a client be dropped only when it left.

### `SmallServersProofs`

`SmallServersTypesHold`, `AnswersAreOwn` and `SmallServersCloseLeavers`, for all seven
servers (assumption `SmallServersAssumption`: the array of `server_poll.cpp` has a slot, and
there is a descriptor). `SmallInv` says of a client whose connection is intact that the
requests answered, ready to be written, kept by libevent and unread are those sent, in this
order; that a client socket has one descriptor; that what the servers are about to visit is
open; and, for `server_poll.cpp`, that a slot found readable still is, unless another slot
watches the same number, and that a client watched by one slot alone has its unsent answers
there (`PollOrder`): the hello of any other slot goes to a client that two slots watch.
`ControlTypes` is inductive by itself. The clients that the properties exempt are those the
section on exceptions names.

### `ProgramsProofs`

* `StartsAsAsked`, for command lines of any length. `StartInv` says of the last argument of
  each name that was looked at that the member holds its word. Such a last argument exists by
  the greatest-element lemma. Assumptions `PortsAssumption`, `UnsetAssumption`,
  `UnsetPortAssumption`: what an uninitialised member holds is told apart from what was assigned.
* `SocketsAreClosed`: `SocketInv` ties where a program is to who holds its descriptor.
* `QueryIsSent`, for queries of any length below the range of `size_t` (`QueryAssumption`).
* `HeadersAreSeen`, for answers of any length over the characters told apart
  (`AnswersAssumption`), cut anywhere, with any buffer (`BufferAssumption`). `RecvInv` has a map
  from what was kept to where it stood in the answer: what lies between two kept
  characters are line ends that were trimmed at a cut. The blank line is found in what
  was kept exactly when such a map takes it to a blank line of the answer with text
  behind it and no cut inside.

### Containers and examples: `ContainersProofs`

* `QueueTypeCorrect`, `QueueIsFifo` (any size from 1 on, any values). The invariant adds that the slots
  in use hold pushed values; `Items` maps the ring to the abstract sequence, and each call
  is shown to be the call of `BoundedFifo` with the same result.
* `StackRefines` (`StackAssumption`: the size is below the range of `size_t`). `StackInv`
  has `top_` in the buffer or at the largest `size_t`, from which `++top_` wraps to the first slot.
* `SingletonHolds` (`SingletonAssumption`): only the holder of the mutex is past the lock,
  and an object made and not published is with the holder.
* `OwnersHold` (`OwnershipAssumption`): every block in use has one object and no object
  has a free or leaked one, through all copies, moves and exceptions.
* `IteratorsHold`. Entries of the map and nodes of the list correspond both ways and are equally
  many; without the converse, evicting from the list would leave an entry behind.
* `CachesRefine` (`CacheAssumption`: the sizes are natural numbers). `LruInv` adds to the
  invariant of `IteratorsHold` that both maps have the same keys and that the list of the
  good cache is in the order of the stamps of the bad one, none of which is later than the
  generation. That gives three things. The keys in the order of their stamps are the list:
  there is one such order, because as many different keys as there are must be all of them
  (pigeonhole), and at the first place where two orders differ each would be later than the
  other. The last node of the list has the least stamp, so both caches drop the same key.
  And `insert()` moves the nodes of the list as `LeastRecentlyUsed` moves its entries
  (`FrontMoved`): a known key leaves its place, a new one takes a free place or the last. The
  entries of both caches are then the list with the items of their map (`Shown`), and every
  step is one of the abstract cache, for a cache that keeps nothing too.
* `OnlyUnionIsUnsafe`, `ListsHold` (`ListAssumption`). Calls that forget an end leave lists
  that no longer hold what they should, so the invariant cannot speak of `items` alone.
  `Sound` says that nodes can be shared out so that each list's ends and links stay among its
  own (`Apart`) and that some order of the nodes is ascending along every link
  (`Ascending`). The first keeps lists from touching each other's nodes, the second, with
  the pigeonhole principle, gives that every walk ends. A list whose ends were left alone
  is moreover linked as `items` says (`Linked`). `Union()` gives two lists the same nodes and is
  where both properties stop claiming anything.

### The dynamic array, the heap and the shell sort: `ArrayProofs`

* `ArrayHolds` (`ArrayAssumption`). A buffer `Held` to a length has stored values below it.
  Exchanges, `SiftDown`, `SiftUp` and the loops built from them keep that. The loops are
  recursive functions of a count; `Repeated` gives that such a function exists, and
  `Throughout` what holds at each count.
* `HeapRefines` (`HeapAssumption`: the values are numbers, and `MaxLen` is below the range of
  `size_t`). `HeapInv` says that an array not written outside its buffer has no child greater
  than its parent, if only heap functions were called since the last `MakeHeap()`. In the middle of
  `SiftDown()` this fails at one node: `Down` says that its children are no greater than its
  parent, which is what the next exchange needs; `Up` is the same for `SiftUp()`. That
  exchanges keep the values is proved by counting: a rearrangement and its inverse (`Moves`)
  take the cells with a value one to one to those with that value. `PopBack()` keeps a heap
  one; an assignment through `operator[]` does not, and `HeapInv` claims nothing after it.
* `SortHolds` (`SortAssumption`: a length and numbers). Two cells are in one `Chain` when their
  distance is a multiple of the gap; `Insert()` rearranges one chain. The hard part is
  that a pass does not undo the order at an earlier, larger gap g. In the middle of a pass that
  order is really lost, so it cannot be part of the invariant; `SortInv` keeps instead the
  array the pass began with and the rearrangement since then, inside chains and below the
  index (`Pass`). When the pass is over, suppose that a value is less than the one g cells
  below it. Its chain is in order, so every value of the chain up to it is less too. When the
  pass began, each of these values, unless it stood in the first g cells, had a value no
  greater than itself g cells down, which now stands below the greater one. Different values have
  different such cells, of which there is one too few: the pigeonhole principle gives the
  contradiction (`PassKeepsOrder`). The last gap is 1 because the gaps are 1, 4, 13 and so on, and
  `h / 3` leads from each to the one before; `Gaps` is the least set with 1 and `3 * h + 1`, so
  that no induction over data is needed.

### Only model-checked

* Liveness (`EveryRequestEchoed`, `DisconnectedReleased`, `RequestsAnswered`,
  `LeaversReleased`, `RequestsServed`, `EveryoneAccepted`, `EndsInTime`): fairness is out of
  the prover's reach.

All other properties of the passing runs are stated by a theorem above. What the
runs that expect a violation show rests on TLC's counterexamples.

## Not modelled

* Byte lengths, the kind of allocator a block came from, and logging. What follows from
  them is left to reading: `buf[r] = 0` behind a full buffer (`poll_async.cpp:253`), the
  padded and perhaps partial write of `net/asio/main.cpp:151`, the block one byte short
  of `examples/008`, line 8, and `delete[]` of what `malloc` or `new` made
  (`DArray.cpp:40`, `LinkedList.cpp:10`).
* `server_fork.cpp`: `make_socket()` ends the process (line 70) as soon as it listens,
  and nothing behind it runs.
* A `Node*` of `LinkedList` that the caller kept from an earlier call: a call is given a
  node that is in the list, or its tail.
* The width of the ints `h` and `i` of `shell_sort()`, against lengths near `INT_MAX`.
* Clients that never read what a server sends, and so send buffers that fill up.
* Functions nobody calls: `recv(bytes)` and `parse_protocol()` of `socket.cpp`,
  `client_work()` of `multiplex.cpp`, the synchronous demonstrations of `net/asio`.
* `main()` of `stack_corr.cpp`, which fills more than its array holds (line 30), and classes B and C of example 008, which do not link.
* The other language examples, which show rules of C++ and keep no state; the skia demo,
  which draws; the test drivers; vendored CppUnit.
* In `SelectEngine` a failed `accept()`, whose FD_SET(-1) writes outside the set.

`EpollEngine` is modelled although `main()` cannot choose it: `engine_t` has no name
for it.

## Plan

Done: every component above, and a theorem for every safety property of a passing run. Left,
if the prover learns to reason about fairness, are the liveness properties. The hazards without
a property (`PROJECT.json`) would need byte lengths and the sleep after a failed `read()`.

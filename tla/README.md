# A TLA+ verification project for boost-net-programing

The repository is a course in network and concurrent C++: a TCP server built
on boost.asio that grows from lesson to lesson (`src/Network`), and a series of
concurrent containers, thread pools and lock-free structures
(`src/Concurrent`, `dayNN`). This directory holds TLA+ modules that model its
core, TLC configurations that check them, and TLAPS proofs.

`tlc -config X.cfg M` checks a module, `tlapm M.tla` checks its proofs;
`PROJECT.json` lists the runs, the correspondence of every definition to the
source, the hazards, the findings and the theorems.

## 1. Inventory

### asyncServer (`src/Network/asyncServer`) - the system's core

| part | state | operations | hard because |
|---|---|---|---|
| accept loop, `CServer` | `_sessions` map, the session waiting in `async_accept` | `start_accept`, `handle_accept`, `ClearSession` | the map is changed by main and by every pool thread, without a mutex; a session is started before it is inserted |
| pool, `AsioIOServicePool` | one `io_context` and one thread per core, a round-robin index | `GetIOService`, `Stop` | joins threads that may be in a handler, from the signal handler |
| receive path, `CSession::HandleRead` | `_data`, `_b_head_parse`, `_recv_head_node`, `_recv_msg_node` | one completion handler with a loop over what was read | TCP cuts and glues messages at every byte; the body node is shared with the logic thread |
| send path, `CSession::Send`, `HandleWrite` | `_send_que`, `_send_lock`, the write in flight | push and start if idle; pop and continue | two threads hand the queue to each other; a write may fail half way |
| logic layer, `LogicSystem` | `_msg_que`, `_b_stop`, `_consume`, `_mutex` | `PostMsgToQue`, `DealMsg`, the destructor | condition variable, notification only at size 1, stop flag set without the mutex |

A request passes: socket, `HandleRead` (pool thread), `_msg_que`, the worker of
`LogicSystem`, the callback, `Send`, `_send_que`, `async_write`, `HandleWrite`
(pool thread). Sessions are kept alive by `shared_ptr`s in handlers, in the
logic queue and in the map.

It is correct if frames are posted exactly as sent, every posted request is
dealt with once and in order, answers go to the right peer in order and each
whole on the wire, a session object lives as long as anything refers to it and
no longer, and the server can be stopped.

### The other networking programs

* `asyncServer_ThreadPool`: the same session and logic classes on one
  `io_context` with many threads, handlers wrapped in a strand; main waits on a
  condition variable for the pool's stop.
* `coroutineServer`: one coroutine per session reads with `co_await`; a locked
  session map; `Send` unlocks before `async_write`; destructors that call back
  into the server. Correct if the send path is still one write at a time, and
  the session lives exactly as long as somebody uses it.
* `beast_websocket`: an echo server whose reads and writes of one connection
  overlap; a send queue, and a map of connections without a mutex. Correct if
  a peer gets back what it sent, in order and all of it.
* `beastHttp`: one request for each connection and a deadline timer that races
  with the read, the write and the shutdown. Correct if no peer keeps a
  connection past the deadline, and the deadline ends one connection and not
  the server.
* `asycApi`: the four ways to write and two ways to read that the course starts
  with; single-threaded, with a `_send_pending` flag.
* `asyncClient`, `syncServer`, `syncClient`, `endpoint`, `tlv`, `coroutine`,
  `singleton`, `grpc_Server`: clients, one-call demonstrations, generated code.

### The concurrency lessons

* Thread pools (day22, copies in day06, day07, day19): `ThreadPool.h` and five
  variants on a two-lock queue, one of them work-stealing. Correct if each task
  is run once, no worker sleeps over a task, and the pool can be stopped.
* Lock-free stacks (day17) and queues (day18), the two-lock queue (day22):
  several ways to find out when a node may be deleted. Correct if they are
  queues and stacks, and no node is used after its deletion or left behind.
* Threads, mutexes and singletons (day01-day04), condition variables and
  futures (day05, day06, day09), memory orders and fences (day10, day11,
  day13), rings, containers and lists with locks (day12, day14-day16), the
  channel of day08, the actor chain of day20, parallel algorithms (day21),
  interruptible threads (day23), trouble-shooting (day24): a few dozen small
  programs, each with its threads, its shared variables and usually an assertion or a
  comment that says what must come out. Correct if that is what comes out in
  every interleaving, ordinary variables are not raced for, and the threads end.
* The actors of day08: a cash machine, a bank and the hardware. Correct if
  money is neither made nor lost, and an answer is taken for the question it
  answers.

`components` in `PROJECT.json` lists all of them with what is modelled;
`hazards` lists, line by line, what is hard to test in them.

## 2. Modules

| module | models | composition |
|---|---|---|
| `SendQueue` | the send path of one session | refines `FifoWire` |
| `FifoWire` | what the send path promises: an ordered channel without gaps | abstract |
| `LogicSystem` | the logic layer: io threads, the worker, main's stop | |
| `RecvFraming` | `HandleRead` on streams of frames | |
| `AsyncServer` | accept loop, map, pool, handlers, worker, stop | refines `SendQueue` (for each session) and `LogicSystem` |
| `CoroutineServer` | coroutineServer: one session, its coroutine, its lifetime | refines `SendQueue` |
| `WebSocket` | beast_websocket: connections, map, echo queue | |
| `HttpServer` | beastHttp: read, write and deadline of each connection | |
| `ThreadPool` | day22's `ThreadPool.h` and the fork-join functions on it | |
| `QueuePools` | the five other pools of day22 | on the queue that `TwoLockQueue` is proved to be |
| `Container` | what a concurrent queue or stack promises | abstract |
| `ContainerThreads` | threads that push and pop, nodes that are made and deleted | extended by the next five |
| `LockFreeQueue` | day18's `lockfreeque.h` | refines `Container` |
| `RefCountStack`, `HazardPointerStack`, `PendingStack` | day17's stacks, by the way they reclaim nodes | refine `Container` |
| `TwoLockQueue` | day22's `ThreadSafeQue.h` | refines `Container` |
| `Atm` | the actors of day08 | |
| `Instructions` | the steps that the programs of the lessons are made of, as data | |
| `Threads` | what these steps do: threads, locks, condition variables, C++ memory | runs the programs |
| `MemoryPrograms`, `LockPrograms`, `FuturePrograms`, `ConditionPrograms`, `ContainerPrograms`, `ListPrograms`, `ParallelPrograms` | the programs of the lessons | extend `Instructions` |
| `Containers` | the five containers, and what is asked of them | extends `ContainerThreads`, instances of the five and of `Container` |
| `MCRecvFraming`, `MCSession`, `MCAsyncServer`, `MCThreadPool`, `MCThreadPoolSort`, `MCServers`, `MCPoolsAndServers`, `MCContainers`, `MCLessons`, `MCRefuted` | values of the constants for TLC, and the runs of several components | |
| `Session_proofs`, `RecvFraming_proofs`, `AsyncServer_proofs`, `Servers_proofs`, `ThreadPool_proofs`, `Atm_proofs`, `Containers_proofs`, `ContainersOrder_proofs` | theorems (section 4) | each extends the modules it is about |

`MCSession`, `MCThreadPool`, `MCServers`, `MCPoolsAndServers`, `Containers` and
`MCLessons` put several components into one run. A behaviour there is a
behaviour of one of them, chosen by the initial state, beside others that are over
(in `MCSession` those nobody uses: no send, no message) and take no
step; the properties ask the same of each. So a run of them shows what a run of each would,
and nothing about several at once.

### SendQueue

`send_que` is `_send_que`, a node being named by the number of its push; `ops`
is the set of `async_write` operations whose handler has not run, each with the
number of units it has left; `wire` is what the socket has taken. `Send` is
one step (the whole function holds `_send_lock`), as is each outcome of
`HandleWrite`. `WriteSome` and `WriteError` stand for the composed
`async_write`: it may write a part and then fail. That only one operation is
in `ops` is a property, not an assumption. `pushed`, `dropped` and `cleared`
count pushes and refused sends, and remember that `ClearSession` was called.
`Send` is still possible after that, as in the code.

Fairness: the socket takes data or fails, and `io_context::run` invokes
completion handlers. Nobody is obliged to call `Send`.

### LogicSystem

`worker` says where `DealMsg` is: waiting for the mutex (`lock`, `woken`),
evaluating the predicate (`test`), about to block with the mutex still held
(`park`), blocked (`wait`), after the wait (`go`), in one of the two branches
(`deal`, `drain`), gone (`exit`). The mutex is held at the places in
`Holding`. The flag `_b_stop` is read and written without the mutex where
the code does so, which is why `test` and `park` are separate steps. A
notification wakes the worker only if it is in `wait`; `Spurious` is the
spurious wakeup of a condition variable. The destructor runs after main has
joined the io threads (`JoinIoThreads`): `main` returns only after
`AsioIOServicePool::Stop`, and static objects are destroyed after that.

Fairness: the worker, a poster between its push and its notification, and the
destructor go on if they can. Posting, stopping and spurious wakeups are free.

### RecvFraming

A byte is a record of its frame and place, so a misread byte is recognised.
`stream` is what the peer sends byte by byte: the place of a byte in it is its
place in its frame after all bytes of earlier frames.
One action is one pass of the `while` loop of `HandleRead`, one action for each
way through its branches. `HandleRead(n)` is a completion with the next `n`
bytes of the stream. Bytes that are not a real head decode to any length and
any id. `posted_bodies` has the bodies as they were posted, `heap` the nodes posted to the logic thread; the last one is
still `_recv_msg_node` and `Clear` runs on it (`ClearData`, `ClearLen`) while
`DealMsg` may read it: that is a data race, and the callback then gets the
body with any subset of its bytes zeroed.

Lengths are signed, as in the code, and only one that is too big is refused. At
a length below -1 `new[]` throws in the constructor of the node, nothing
catches it and the process ends (`HeadThrows`). At -1 the node has no byte, and
since the number of bytes read is unsigned, every number of them counts as less
than the body needs (`Fewer`): all that comes is copied to where the node
has no room (`HeadOverrun`, then `BodyShort` for ever). What is overwritten there
is not followed up, except that `DealMsg` may find bytes of a message lost.

`confused` is set where the code loses its place: at a body that takes a third
read, or that completes with more bytes behind it, and at a length of -1
(section 3, `recv_leftover` and the list after the findings). The other properties of the module speak of behaviours before
that; `InBounds` excepts the node of a length of -1 only, which is never posted.

Not modelled: negative ids, which are treated as any other, and the printing.

### AsyncServer

The main thread, one thread per `io_context`, and the worker. Handlers of one
session run on one thread (`Thread`), one at a time (`CanRun`). A completed
read brings one request. `sessions` is `_sessions`; every erase and insert
is an interval, and if two of them overlap (`raced`) the map afterwards is any
subset of what it could hold, since the code has a data race there. `late`
records the sessions inserted after their read had already failed.
`Signal`, `StopContext` and `JoinIoThreads` are the signal handler with
`Stop`, the end of `main` and `~CServer`; `SetStop`, `StopNotify`, `StopJoin`
are `~LogicSystem`. The order of the destructors of the two static singletons
is the linker's choice; the model has the logic layer destroyed while the pool
object, whose threads are joined by then, may or may not exist. Requests are
well-formed, so the callback always answers.

`LogicImpl` and `SendImpl` substitute expressions of this module for the
variables of `LogicSystem` and `SendQueue` and state that every step here is a
step there, or a stutter. Both are proved, so what is proved of the parts holds
of the composed server.

Fairness: as in the parts; a thread that waits for `_mutex` gets it if it is
free again and again (strong fairness of `Post`). Peers and the signal are
under no obligation.

### ThreadPool

`pc` of a worker: `loop` (the test of `stop_`), `lock`, `test`, `park`, `wait`,
`woken` as in `LogicSystem`, `late` (asleep, with `stop_` set after the
predicate was evaluated), `take`, `run`, `after`, `exit`. A task is known by
the tasks it commits and whether their futures are waited for; `commit` has its
three parts (the test of `stop_`, the push under `cv_mt_`, the notification
outside it). `get` is part of `Returned`: a caller ends when every
future it waits for is ready; the order of the `get`s makes no difference to
that. What stop leaves in the queue (`Left`) never runs, nor does a task end that
waits for it (`BlockedOn`). `thread_num_` is an expression (`ThreadNum`), not a variable. The
constructor's loop runs before anybody can commit (the instance is a function
local static) and is not a step.

Fairness: as above; a worker or committer gets `cv_mt_` if it is free again and
again.

### QueuePools

`pool` says which of the five it is: one queue or one for each worker, polled
or waited for, with or without stealing. `at` and `idx` are where `submit` is
and the queue that `atm_index` gave it; `victim` is the queue a thief looks
into. The queues are sequences, which is what `TwoLockQueue` is checked to
be, with one exception that matters here: `push` and `Exit` notify without
`head_mutex`, so a notification can fall between the predicate of
`wait_and_pop` and its sleep. `missed` records that one was lost in this way,
and the two liveness properties except those behaviours.

### ContainerThreads and the containers

One action is one operation on an atomic, or one section under a mutex, with
the thread's own code up to the next; a compare-exchange loop that only retries is
its successful attempt. `nodes` are the nodes with whether they are `alive`;
`head` and `tail` are the pointers (counted ones in `LockFreeQueue` and
`RefCountStack`), `old` the thread's copy. Each module adds its own
protection: split counts, published hazard pointers, the count of pops in
progress with its list of nodes to be deleted. The stacks and `TwoLockQueue`
give a new node the first address that is free (`Address`), so that an address
comes back while an old pointer to it is still about; `LockFreeQueue` numbers
its nodes afresh, so that a pointer to a deleted one is recognised (a node
that somebody holds is never deleted, which is what `NoUseAfterFree`
shows, so a reused address could not be met).

The refinement takes the container to be the data of the nodes from head (to
tail); a push into `LockFreeQueue` takes effect when the tail moves, by
whomever. `LockFreeQueue` ends with its destructor. A push of `LockFreeQueue`
that stores its value into a node that has left the queue (`Lost`, section 3)
never takes effect; `ExactlyOnce` counts the values that the nodes of the
container or a pop under way hold, and excepts those; `LostOnlyStale` says that
no other value gets into such a node.

`Chain` follows `next` from the first node (`ListFrom`, which numbers the places
of the list, so that it is defined whatever the pointers of deleted nodes are).

A comparison of counted pointers compares their two fields; the padding
between them, which some library versions compare too, is left out, as is the
wrap of the 30-bit count (its zero is unaffected). Operations are
sequentially consistent here; what the weaker orders of the code allow is
looked at only in the programs of the lessons. The constructors of the stacks
leave their atomics default-initialised, the models begin with null and 0.

Fairness: only of the threads in `Running`; another thread may stop anywhere,
which is what separates helping from waiting (`PushReturns`). A pop has no such
promise: its exchange of `head` compares the external count, and two pops that
keep counting themselves in make each other fail for ever. `MaxCopies` bounds
that count.

### CoroutineServer, WebSocket, HttpServer

`CoroutineServer`: main accepts a connection, inserts its session and waits for
a signal; `co` is where the coroutine of the session is, on the one pool
thread; `worker` and the logic queue are as `LogicSystem` shows them. The
references to the session are counted as in the code: `_sessions`, messages in
the logic queue, handlers. The coroutine has none of its own, because the
lambda never names `shared_this` (see findings); what it does with a session
that is gone is undefined, and it takes no step then. `Send` lets go of
`_send_lock` before `async_write`; `SendImpl` shows that this changes nothing,
taking a caller between the two (`Starting`) to have its write in flight.
`late` marks the session inserted after its coroutine had ended. Requests are
well-formed; the unchecked negative lengths of `RecvFraming` are there too.

`WebSocket`: one thread, so handlers are atomic; what overlaps are the reads and the
writes of a connection. `async_write` refers to a parameter that is gone when
`AsyncSend` returns, so what the socket takes later may be `Garbage`. A
completion passes the next message to `AsyncSend`, which queues it once more
and writes nothing: `EverythingEchoed` holds for connections where no read
came in during a write (`overlapped` has the others).

`HttpServer`: a connection is kept by its three handlers. A timer that has
expired calls its handler with success though it is cancelled before that, and
so does a read that was complete when the deadline closed the socket: the
request is processed, and its write fails. Three things throw out of
`io_context::run` and main, and `down` says which: the shutdown after the write
when the deadline has closed the socket, the same when the peer is gone, and a
post whose JSON is no object with a string. `ConnectionFreed` has every
connection released and the server up in the end, unless the peer or a request
ended it or a deadline has closed the socket under a write (`Overtaken`);
that the last must not happen is `ShutdownWhileOpen`, which the code violates.

Fairness: handlers that are ready run, a socket takes data or fails, a
deadline passes. Peers are under no obligation.

### Atm

Three actors with a queue each, and main, which sends the keys pressed and
closes the queues in its order. An actor drops a message its state has no
handler for. A request carries a number that its answer repeats; the code has
none, nothing but the properties depends on it. `cancelled` and `lost` count
withdrawals cancelled and `withdraw_ok` dropped; `crossed` is set when
cancel is pressed while a PIN is being verified. Fairness: each actor and main
go on; nobody has to press a key.

### Instructions, Threads and the programs of the lessons

A function of a lesson that starts threads is a program: the initial values of
its locations, its mutexes, and for each thread a sequence of instructions
(loads and stores with their memory orders, lock, unlock, wait, notify, start,
join, jumps, assertions), put together with the operators of `Instructions`
(`Guarded`, `Spin`, `Wait`, ...). A program module has an operator for each
function of a lesson, under its name, and a table of its programs. What only
prints, sleeps or computes is left out; an endless loop runs `Rounds` times.

`Threads` runs them. `mem` keeps, for each location, all that was stored in it
in modification order, with the view that a release attached; `view` is what
each thread has seen of each location, and a load reads any message not older
than that. An ordinary access races if the thread has not seen the last
write; it may then read any of the values. An ordinary write also races if
the thread has not seen what another one has read: the views keep, for each
reader of a variable, which of its values that has read last (`Mark`). (A
second read of the same value does not count anew: a write that is ordered
after the first of them only is not reported.) What the predicate of a wait
looks at is not checked; it runs under the mutex. `went` records what went
wrong: a failed assertion, `std::terminate` or undefined behaviour ("crash"),
a missed notification, and every variable raced for, by its name. A program
that is there to show one of these, or whose comment announces it, has it in
`may` (`Danger`); one that nothing announces is in `flaws` (`Flawed`).
Both name the variables, so any other race of these programs is reported:

| program | raced for | announced |
|---|---|---|
| `oops`, `day01` | the local variable of a detached thread | day01-thread.cpp:39-41 |
| `danger_oops` | the buffer given to a detached thread | day01-thread.cpp:98 |
| `MultiThreadPush` (day16) | `last_node_ptr`, read to choose the mutex; and the guard adopts a mutex its thread does not hold ("crash") | no |
| `SingleAutoSafe` (day04) | the pointer and, through it, the object | day04-singleton.cpp:193-200 |
| `TestSingle11` (day11's `TestSingle`) | the pointer | no |
| `ThreadPoolCommits` (day06's `main`) | `m`, which a task writes and main reads after a sleep | no |
| `ActorChain` (day20's `main`) | the actors B and C, destroyed while A or B posts to them | no |
| `InterruptMain` (day23's `main`), `InterruptPredicate` | the flag of a thread that has ended | no |

`MCRefuted` runs `LightSlow` and `SyncSlow`, whose `pop` does what the comment beside
it rules out; they are in no other run.

Simplifications of memory: modification order is the order of the steps, and
stores take effect in program order (so no load reads from a later store of
its own thread's future: no load buffering); consume is acquire, as compilers
have it (so the assertion of `ConsumeDependency` on the data that the pointer
does not carry holds, which the standard does not promise); a seq_cst load
reads the last message. Each of these allows fewer outcomes than the standard
does. Atomics without an initial value
start with 0. A loop that polls is one instruction that waits for a value, when
nothing else happens in the loop.

Fairness: every thread goes on if it can. A mutex that is free now and then
need not be given to a particular waiter, so loops that take a lock again and
again until something has happened are bounded by `Rounds`. Timeouts come;
spurious wakeups may come.

## 3. Runs

| run | instance | what it shows |
|---|---|---|
| `session` | send path: messages of 2 units, a limit of 1 (so 2 nodes), 5 sends, up to 2 of them refused. Logic layer: 2 io threads, 3 messages, registered and not. `HandleRead`: heads of 3 bytes, a buffer of 4, seven streams of two or three frames with empty bodies, bad ids, lengths that are too big, -1 and -2, every cut | `OneWriteOfFront`, `NoStall`, the refinement of `FifoWire`, every send completes; no lost wakeup, order, nothing left at exit, stop; cursors in bounds (but for a length of -1), posted and delivered bodies exact, no frame forgotten |
| `logic_system_stop` | the logic layer of `session` | violated: see findings |
| `recv_leftover` | the `HandleRead` of `session` | violated: see findings |
| `async_server` | 2 sessions, 2 pool threads, 2 + 1 requests, send limit 0 | answers in order, refinement of the parts, release of sessions, `Stop` returns |
| `pools_and_servers` | `ThreadPool`: 2 workers, 3 tasks: main waits for one of the two it commits, the other one blocks on a task of its own, so that stop may come while that is queued, taken or not yet committed. The other five pools: 2 workers and 2 threads with a task each. Coroutine server: limit 1, 2 units, 4 requests; websocket: 2 connections of 3 messages; HTTP: 2 connections | `NoIdleSleeper`, `TakenInOrder`; every task runs, unless stop leaves it in the queue or it waits for one that is left (`TasksRun`); stop and destructors return, unless a worker overslept the stop or waits for a task that is left (`PoolsEnd`); `EchoedInOrder`, `SendImpl`, `SessionFreed`, `EverythingEchoed`, `ConnectionFreed` |
| `thread_pool_sort` | 2 workers, the 7 tasks of the documented test | violated: see findings |
| `containers` | 3 threads. Queue: 2 pushes, 3 pops, the thread that does both may stop anywhere. Stacks: 3 pushes, 4 pops. Two-lock queue: 4 pushes by the three threads, a wait, a timed wait, 2 steals, a pop, `Exit` | `NoUseAfterFree`, `NoLeak` at rest, `ExactlyOnce` and what it excepts (`LostOnlyStale`), FIFO or LIFO (`ImplementsContainer`), pushes return though a pusher has stopped (`PushReturns`) |
| `containers_lost` | the same | violated: see findings |
| `coroutine_closure` | the coroutine server with 3 requests | violated: see findings |
| `http_deadline` | the HTTP server with one connection | violated: see findings |
| `lessons_slow_pop` | two consumers and three elements in a ring for one | violated: see findings |
| `lessons` | every program of the lessons but `LightSlow` and `SyncSlow`; the cash machine with 8 keys, a PIN of 1 digit, a deposit and an amount of 1 | `AssertsHold`, `NoDataRace`, `AllJoined`, `MoneyConserved`, `AnswersMatch` |

Why the bounds suffice. *Send queue*: a limit of a few nodes and one send more
than fits make the empty, the growing and the full queue, and the race of the
last completion with a push. *Logic layer*: the notification depends only on
whether the queue is empty before a push, so three messages from two threads
give a push to an empty, a filling and a draining queue in every position of
the worker. *Framing*: a head of three bytes can be cut in two places, and
with a buffer of four bytes a body of three is complete in one read, cut once
or cut twice, and a read ends one frame and begins the next; `MAX_LENGTH + 1`
is the first length that is refused, -1 and -2 are the two kinds that are not and
have no body. *Server*: two sessions
on two threads is the least with handlers in parallel and an accept besides;
the limit 0 (the queue refuses its second waiting node) makes a full send
queue with two requests. *Pool*: two workers are the least the pool makes.
The other pools have one queue or two, so two workers are the owner
and a thief, and two submitted tasks meet both ends of a queue.
*Containers*: two pushes at once give every case of storing, linking,
helping and moving the tail of the lock-free queue, on both nodes; a third thread with two pops meets
the pop of the first on the same head, and the empty queue before and after.
The count of a head starts at 1, so `MaxCopies` of 6 admits five copies by
three threads: every pop may fail and begin anew. In the stacks a node is
popped, deleted and its address pushed again while a third thread holds it,
and a list of nodes to be deleted is taken, put back and freed.
*Servers*: a limit of one makes a full send queue; three messages of a
connection are the least where a read overlaps a write and another follows.
*Lessons*: programs run as they are, with loops cut to two rounds (a
round and its repetition), counters to `0..3`, rings of 2 or 3 places (empty,
full, wrapped), lists of three nodes (first, middle, last), vectors of 4
elements. *Cash machine*: insert, digit, withdraw, cancel, then insert and ask
again takes seven keys, an eighth is a `q` or another cancel at any place;
`MaxAhead` bounds how far the keyboard may be ahead of the machine.

`CHECK_DEADLOCK FALSE` in every configuration: a session, a server and a pool
that have been stopped, or whose bounded inputs are used up, do stop. That
nothing stops too early is what the liveness properties say.

Every property has a mutant in `PROJECT.json`: an operator marked `Faulty` in
the module, a plausible mistake in that code, with which TLC finds the
property violated.

### Findings

* **`logic_system_stop`** - `LogicSystem.cpp:93`. `_b_stop` is set without
  `_mutex`. If the worker has evaluated the predicate of `wait` and not yet
  blocked, flag and notification both miss it, and the `join` of the
  destructor never returns, whatever the comment on line 38 says the worker
  does once stopped. `CleanStop` shows the other half: stopping in any other
  place of the worker is fine.
* **`recv_leftover`** - `CSession.cpp:182`. When a body that began in an
  earlier read is completed, `bytes_transferred` is reduced but `copy_len` is
  not advanced. If the read brought more than the rest of the body, the next
  pass reads its head from the body just posted; the comment on line 204 says
  that what is left is a head.
* **`thread_pool_sort`** - `QuickSort.h:104`. The tasks of
  `pool_thread_quick_sort` block their worker in `get` on tasks queued behind
  them. With two workers the documented test hangs. With one such task and two
  workers it takes a stop to leave a task behind (`TasksRun`).
* **`containers_lost`** - `lockfreeque.h:181`. A push copies the tail, another push
  stores its value there, links a node and moves the tail, a pop takes the value
  and sets the data pointer back to null (line 236). The first push then finds
  null, stores its value in the node that has left the queue, sees that `next`
  is set, drops its own node and returns. This is the ABA problem on the data
  pointer, though 无锁编程注意事项.md says (line 60) that none of these structures
  has it; the threads of `TestLockFreeQueMultiPushPop` that pop until every
  value has come out then go on for ever. It is no matter of memory safety:
  the push holds a count on the node, so the node exists. `LostOnlyStale`
  says that no value is lost otherwise.
* **`coroutine_closure`** - `CSession.cpp:28` of coroutineServer. `Start` makes
  `shared_this`, which the comment on line 25 calls a pseudo-closure, but the
  lambda of the coroutine captures `[=]` and never names it, so it is not
  captured. When the peer leaves, the erase from `_sessions` destroys the
  session under its coroutine, inside `ClearSession`, whose mutex the
  destructor then waits for on the same thread.
* **`http_deadline`** - `main.cpp:86` of beastHttp. The deadline closes the
  socket while a response is being written, or before the handler of its write
  has run. That handler looks at no error and calls the `shutdown` that throws;
  on a closed socket it does, the exception leaves `io_context::run`, and the
  server is gone with every other connection. The comment on line 163 says that
  only the sending side is shut down and that the server does not close by
  itself.
* **`lessons_slow_pop`** - `CircularQueLight.h:48` and `CircularQueSync.h`. `pop`
  reads the slot before it claims it: another pop may have taken the element
  and a push may be writing the next one there. The comment on line 43 says
  that comparing with `_tail_update` settles this.

Also visible in the models; the properties except exactly these, by name:

* a frame of length -1 (`Overrun`, `confused`). The length is a signed short and only
  compared with `MAX_LENGTH` (`CSession.cpp:123`), under a comment that says it is
  judged. -1 passes: the node is `new char[0]`, its constructor writes
  `_data[-1]` (`MsgNode.cpp:9`), and line 131 compares an unsigned number with
  -1, so that all that follows the head is copied into the node of no bytes. A length
  below -1 ends the process (`terminated`);
* a push of the lock-free queue may lose its value (`Lost`, see `containers_lost`);
* a session whose first read fails before its insertion stays in the map for
  good (`late`, in both servers), and the map of asyncServer is unlocked (`raced`);
* a worker of the two-lock queue's pools can oversleep a task (`missed`);
* a worker of `ThreadPool` can oversleep the stop (`late`): `stop_` is set without
  `cv_mt_` (`ThreadPool.h:100`), so a worker between its predicate and its sleep misses
  flag and notification and is never joined, though 线程池详解.md says (line 141) that
  the signal is sent so that no thread stays suspended over an empty queue;
* a stop leaves tasks in the queue of `ThreadPool` (`Left`), since a worker tests `stop_`
  before it looks there (`ThreadPool.h:79`). They never run; a task another worker has
  begun that waits in `get` for one of them (`BlockedOn`; as `pool_thread_quick_sort` does,
  `QuickSort.h:104`) never returns, and its worker is never joined, though the document
  says (line 154) that the pool is destroyed when all threads have left;
* the websocket server stops echoing once a read overlaps a write
  (`overlapped`), and writes from a buffer that is gone (`Garbage`);
* a PIN's answer that comes after a cancel is taken for the next card's
  (`crossed`), and a withdrawal cancelled after the bank has paid is lost money
  (`lost <= cancelled`);
* the HTTP server goes down with a peer that is gone before the shutdown, with a
  post that throws (`main.cpp:188`), and with a deadline that overtakes a write
  (`Overtaken`, see `http_deadline`);
* the consumer of day24 can oversleep the destructor (`missed`), which sets `b_stop` and
  notifies without the mutex (`deadlock.h:74`), and is joined for ever; the notes of
  day24 say (lines 655 and 718) that notifying both threads is enough and that the
  program exits after Ctrl-C;
* `MultiThreadPush` of day16 (`last_node_ptr` and "crash"): `push_back` evaluates
  `last_node_ptr` without a lock to say which mutex to lock (`tailpushlist.h:56`), and
  again on line 57 to say which it has locked. When the head's side has changed it
  in between, the guard adopts the mutex of another node, which this thread does not hold,
  though the comment on lines 53-54 says that both are locked so that the two do not
  run together;
* data races that no comment announces, each at the variables named in `flaws`:
  `ActorChain`, the main of day20; `InterruptMain`, the main of day23, and
  `InterruptPredicate`; `TestSingle11`; `ThreadPoolCommits` (the table under
  `Threads` above).

## 4. Proofs

`Session_proofs`, the send path - for every queue limit, node length and number of
sends: `SendTypeCorrect` (`SendTypeOK`), `SingleWriter` (`OneWriteOfFront`), `NeverStalled` (`NoStall`),
`Refinement` (`ImplementsChannel`). The invariants are not inductive: that the
write in flight is over the *front* node needs the names in the queue to be
consecutive (`QueueConsecutive`); that the next unit on the wire is the right
one needs to know how far the write in flight has come (`WireInv`); that
nothing follows a failed write needs the failed node to stay in the queue, so
that `Send` never again finds it empty (`SilentInv`). `SendInv` is their
conjunction; each action has a lemma. `Refinement` maps initial states to
initial states and each step to a step of the channel or a stutter
(`StepRefines`).

`Session_proofs`, the logic layer - for every set of io threads and messages: `TypeCorrect`,
`WakeupSafe` (`NoLostWakeup`), `InOrder` (`DealtInOrder`), `Drained`
(`DrainedAtExit`). `WorkerKnows` says what the worker knows at each place -
above all that at `park` the queue is still empty, because the mutex is held -
and `StopAfterJoin` that nobody posts once `_b_stop` is set.

`RecvFraming_proofs` - for every length of a head, limit of a body, stream of
frames and way of cutting it: `CursorsInBounds` (`InBounds`), `FramesPosted`
(`PostedExact`), `StringsDelivered` (`DeliveredExact`). The bounds need the
types and that no body is in hand while a node is cleared (`Bounded`); they
hold also after HandleRead has lost its place, and except, as the code does, the
node of a length of -1. That the frames are posted needs
to know where it is in the stream. A layout `E` gives the place where each
frame begins (`StreamLayout` shows, by counting bytes, that `stream` has one,
and it is all the steps know of it), and `Parse` says that the bytes not yet
consumed are the end of `_data` and begin after those of the frame in hand that
are consumed, and what is held of the frame are its own bytes. So a complete
head is the head of that frame (`HeadIs`), and a completed body its body.
`SharedExact` says the same of the nodes shared with the logic thread: only one
whose body came in two reads is ever cleared. The part about the stream
begins with `~confused`: nothing is claimed after a place was lost.

`AsyncServer_proofs` - for any number of sessions, pool threads and requests:
`AnswersInOrder` (`RepliesInOrder`), `HandlersSerialised`, and the two
refinements `LogicRefinement` (`LogicImpl`) and `SendRefinement` (`SendImpl`).
The invariant says that a pool thread is inside one handler at a time
(`OneHandler`) and in none after main has joined it (`NoneAfterJoin`) - which
`LogicSystem` assumes of its io threads - that each session posts its requests
in the order it reads them (`PostedInOrder`) and that the worker deals with
them in the order of the posts (`DealtAsPosted`). The number of answers is
that of the places in `dealt` (`Answered`), hence cardinalities.

`Servers_proofs` - for any number of connections, messages, requests, any queue
limit and length: `EchoInOrder` (`EchoedInOrder`) of the websocket server, and
`SendRefinement` (`SendImpl`) of the coroutine server. For the first, `WebInv`
relates the front of the queue to the number of messages sent while a write is
in flight, and says that an empty queue means all were echoed; a queue left
behind by an overlap is never written from again. For the second, `OneStart`
says that at most one caller is between its unlock and its `async_write`, and
only while no write is in flight; `RequestsCounted` bounds the sends.

`ThreadPool_proofs` - for any finite set of workers and any tasks that commit
one another: `TypeCorrect`, `NoLostWakeup` (`NoIdleSleeper`),
`EachTakenOnceInOrder` (`TakenInOrder`), `OneWorkerPerTask`. The second counts:
each push adds a notification that is due, each notification turns a sleeper
into a coming worker, and a worker that goes to sleep has an empty queue,
because it keeps `cv_mt_` from its test to its sleep (`ParkEmpty`). That no task is
taken twice needs to know which calls of `commit` the pushed tasks come from
(`PushedWereCalled`).

`Atm_proofs` - for every deposit, amount, length of a PIN and number of keys:
`TypeCorrect`, `MoneyIsConserved` (`MoneyConserved`), `AnswersAreMatched`
(`AnswersMatch`). Every withdrawal the machine may still hear of is the one it
waits for or a cancelled one (`AtMostOneOpen`). The bank answers in the order of
the questions (`Ordered`), so a late answer comes before the answer to the next
PIN and is dropped in a state that does not accept it (`OpenQuestions`), unless
cancel was pressed during a PIN check.

`Containers_proofs` - for any threads, values and programs of
operations: memory safety (`NoUseAfterFree`) and no leak at rest (`NoLeak`) of
the stack with hazard pointers (`HazardPointersProtect`), of the one that counts
its pops (`PendingCountProtects`), of the one with split reference counts
(`RefCountsProtect`), of the two-lock queue (`LocksProtect`) and of the lock-free
queue (`SplitCountsProtect`). Each theorem speaks of the behaviours of
`Containers` in which `kind` is that container; `MemorySafe` puts them together.
A list is a set of nodes with an order in which `succ` leads through them
(`IsChain`); the lemmas on chains say what an action makes of it, and
`ChainFound` that `ListFrom` finds this set. `Apart` says that the list, the
nodes put aside and what each thread has of its own share no node and are all
the nodes there are; it is what both properties follow from, and what keeps a
second deletion out. The rest is the protection of each container.
*Hazard pointers*: a node published and then found to be head once more is alive, and if
it is the one another thread is going through the pointers for, that thread has
not yet read this pointer (`HPublished`). *Counted pops*: `threads_in_pop`
is the number of pops in progress (`PType`); a pop that finds itself alone after
it has taken its node out proves that nobody has read it (`PRead`). *Split
counts*: the internal count of a node and the threads that hold it differ by what
head has counted for it (`CCounts`, with `Due`), so the count becomes zero
when the last thread lets go, whoever that is. *Two mutexes*: `head` is before `tail` in
the list or equal to it, also for a thread that holds only one of the mutexes
(`LList`, `LTake`). *The lock-free queue* (`QInv`): two counted pointers come to a node in the
course of time, one on the way of tail and one on the way of head (`TailRefs`,
`HeadRefs`), and the external count says how many of the two have still to be
accounted for (`QExternal`). The threads that have copied one of them and not finished
(`Keepers`), less what the node has counted for those that have, are what the two
pointers have counted (`Sums`). So both counts become zero exactly when the last pointer
is accounted for and the last copy given up, and the thread that makes them zero
deletes a node nobody else has. This needs three more facts: a node that a thread
found to be behind tail, or to have a successor, stays so (`QRead`), which is why a stale
copy can neither link nor move tail; no two threads account for the same pointer or
own the same new node (`QOnce`); and the list reaches one node beyond tail at most,
and only while some push is about to move tail there (`QList`). A helper's node that is
linked stops being its own, and one that is not linked is dropped (`QOwn`).

`ContainersOrder_proofs` - for any threads, values and programs that push each value
once: the five containers are queues and stacks. `EachValueOnce` (`ExactlyOnce`) and
`ContainersImplement` (`ImplementsContainer`, the refinement of `Container`) rest on
the invariants of `Containers_proofs` and on one more, `Held`, that has the same form
for all five. The nodes that have data, the results of the pops and the
pushes still to be made have no value in common and each value once (`Once`), and the
nodes with data are those of the container, in the order `L` of its list, and those of a
set `X`: the nodes pops are taking, in the queues also those whose value is stored and that tail has
still to pass, in the lock-free queue also the lost ones. The list is now a sequence:
`Sorted` says that it is the one `ListFrom` computes, and the lemmas after it what becomes
of it when a node is put before it, taken from it, added behind or cut off at the end;
`Before` is the part from head to the node before tail. The lemmas on `Held` say what a step does: nothing to
the data, a value stored in a node that had none (`HeldPut`), a node of `X` put first or
last (`HeldFirst`, `HeldLast`), the first taken (`HeldTaken`), the last stolen, a value returned (`HeldOut`).
With them each action of each container is shown to keep `Held` and to change the values as an action of
`Container` or not at all (`Change`). Where a container needs more, it is this: in the lock-free
queue a push links, and moves tail, only where tail has data, and a pop that finds head to be tail
finds the queue empty, though both were read at different times (`QFull`, from `QInv`: head does not
move past tail). In the two-lock queue the node whose value is stored and that tail has still to pass
is tail itself, and only while the mutex of tail is held (`LFilled`). `KindHeld` puts the five together. It is inductive (`KindInit`,
`KindStep`, `KindStutter`), `KindOnce` gives `ExactlyOnce` and the items as they are shown to
`Container`, and `AbstractStep` and `AbstractInit` make the refinement of it.

The proofs assume what the modules assume of their constants, and nothing else;
TLC evaluates these assumptions in the runs:

* `SendAssumption`, `CoroutineAssumption`: the limit is a number, lengths are
  positive numbers, counts are numbers.
* `LogicAssumption`: the registered ids are those of messages.
* `FramingAssumption`: head length and body limit are positive, the streams are
  sequences of frames.
* `ServerAssumption`: at least one session, one `io_context`, bounded requests.
* `PoolAssumption`: the workers are finitely many; no task is committed by two
  calls (a task is the name of one call of `commit`), and main is not a task.
* `ThreadsAssumption`, `ProgramsAssumption`: each thread has a sequence of
  operations, and values are told from operations and from no data at all. The
  threads need not be finitely many: at any time finitely many have begun.
* `OnceAssumption`: no two pushes are of the same value. A value is the name of its push,
  and what is asked, that each comes out once, could not be told otherwise; the code copies
  values and never looks at them. `NamesAssumption`: the names of the two-lock
  queue's other operations are no values.
* `AtmAssumption`: a PIN has a digit, amounts are numbers.

Only model-checked: liveness and what is stated of the end (TLAPS has no
fairness reasoning); the pools built on the two-lock queue, the HTTP server, and the lessons, whose programs are finite data with nothing to prove
for other constants.

## 5. Not modelled, and the plan

Bytes, JSON, encodings, printing and operating-system limits are abstracted
throughout: threads interleave at the granularity of atomic operations, lock
regions and library calls. Weak memory orders are modelled in `Threads`, for
the programs of the lessons, and nowhere else.

Without a module:

* gRPC: generated code and a blocking stub. The synchronous servers and clients,
  `endpoint`, `tlv`, `coroutine`, `singleton`, `test-json`, `testBoost`: straight-line
  calls of one API after the other.
* `asycApi` does not compile as it stands and nothing uses it; the echo
  `Session` of asyncServer is not created by any program.
* The pool and the accept loop of `asyncServer_ThreadPool`. Its session and logic
  classes are the text of asyncServer's with a strand around each handler.
* The sorts of day07 and day19. The pool is `ThreadPool`; day19's `sorter`
  waits by polling a stack under a mutex, for the end of which the fairness
  assumed here is too weak, and changes its `threads` vector unsynchronised.
* The versions that a lesson presents as wrong (`crushque.h`,
  `memoryleakque.h`), `SingleRefStack.h` (the algorithm of `RefCountStack`),
  overloads that differ in how they return a value, and day24's sequential
  demonstrations.

Theorem to add: that a connection of the HTTP server does not outlive its handlers.

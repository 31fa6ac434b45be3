# A verification of liblsp in TLA+

liblsp is a small C library of a datagram/stream protocol for embedded targets:
sockets over a pool of connections, ports, a routing table, packet buffers and
an operating-system layer (`src/src/arch/posix`) with a blocking queue, event
groups, mutexes, threads, time and memory. The networking side is young: many
handlers are empty, and some files are not built. The layer that everything
else will stand on, and that is hard to test, is the concurrent one: the queue
(every connection's receive queue, every listening socket's backlog and the core
task's events are such queues) and the event group. Above it are the pool of
connections, the ports and the sockets, whose calls several threads make on
shared slots and lists.

Paths below are relative to the repository, so `src/lsp_conn.c` is the file that
PROJECT.json calls `src/src/lsp_conn.c`.

## Inventory

| component | state | operations | hard behaviour | correct when |
|---|---|---|---|---|
| blocking queue, `src/arch/posix/lsp_queue.c` | ring `data` with `head`, `tail`, `length`; counters `waiting_full`, `waiting_empty`; one mutex, two condition variables | create, push, pop, clear, destroy | threads interleave at the waits; timeouts race signals; spurious wake-ups; clear and destroy look at counters without the mutex; signed/unsigned comparison of `length` | it is a bounded FIFO; nobody sleeps through what it waits for; who waits for ever is served; nobody is inside a freed queue |
| event group, `src/arch/posix/lsp_egroup.c` | `event_bits`, mutex, condition variable | init, create, wait, set, destroy | competing waits consume each other's events; a wait loops on a clock; error paths | a wait takes its events in one step, no event is delivered twice, no wait sleeps through its events |
| mutex, `src/arch/posix/lsp_mutex.c` | a pthread mutex | lock with timeout, unlock | a lock fails by timeout or clock, always as `LSP_ERR_MUTEX` | exclusion |
| connection pool, `src/lsp_conn.c` | `conn_pool` of states, per connection a receive queue, event group, port link, and parent or children | init, alloc, close, free, rxq_flush, rxq_push | allocation marks the slot after it unlocks; error labels fall through; recursive free of children | one owner per connection, nothing leaks, nothing is freed twice |
| ports, `src/lsp_port.c` | `ports[33]`: state, list of sockets by priority | init, free, get, bind, listen | list insertion by priority; index and port-number edges | a listening socket is found on its port, in priority order |
| sockets, `src/lsp_socket.c` | the connections | socket, closesocket, accept, connect | an accept that times out; states set by other components | only legal call sequences reach a listening or connected state |
| lists, `src/include/lsp_list.h` | circular doubly linked nodes | add, add_tail, insert, del, is_empty, iterators | one-element lists; deletion of unlinked nodes | links describe one sequence |
| routing table, `src/lsp_routing.c` | list of routes, mutex | init, add, find | test and insertion are not atomic; find takes no lock | one route per address, the best one |
| packet buffer, `src/lsp_buffer.c` | pointers and room counters into one block | alloc, put, push, pull, free | unsigned arithmetic at the edges | pointers stay in the block; bytes come out as they went in |
| core task, `src/lsp_core.c` | event queue, thread | start, sendevent, task loop | the start's error label is on the success path | every event sent is handled once, in order |
| time, `src/arch/posix/lsp_time.c` | none | uptime, gettime_ms, gettime_s | 32-bit arithmetic | milliseconds increase |
| memory, `src/arch/posix/lsp_memory.c` | in DEBUG a list of blocks | malloc, calloc, free | list is edited while iterated | the count is that of live blocks |
| interface list, interfaces, configuration, threads, log | lists and constants | trivial or empty bodies | | |

Interactions: a socket is a connection; `lsp_listen` gives it a queue of
children, from which `lsp_accept` pops, and links it into its port's list;
received buffers are pushed to the connection's queue; the core task pops events
that any thread sends; the pool, the ports and the routing table use the lists;
queue and event group use the mutex and lock with the caller's timeout.

The repository has no tests (`CMakeLists.txt` names a `tests/main.c` that is not
there). `lsp_core.c` and `lsp_interface.c` are not in the build and use
undeclared types; `lsp_conn.c` builds only with `LSP_CONN_EGROUP_POOL=1` (it
uses the value of a void function otherwise).

## Modules

* `LspTypes` — the error codes, with their values (two of them are equal, and no
  caller can tell them apart), the port numbers, and a timeout reduced to 0,
  finite, for ever.
* `BoundedFifo` — what a queue promises: a call takes effect in one step between
  its start and its return, or fails without effect; "full" and "empty" are
  reported only by a call during which the queue was full or empty.
* `LspQueue` — `lsp_queue.c`. Variables have the names of the handle's fields;
  `pc`, `op`, `timeout`, `buf` and `rc` are the frames of the calls. A push is
  `CallPush`, `Lock`, `PushCheck` (with `Wait`, `WaitTimeout`,
  `SpuriousWakeup`, `Reacquire`, `Refused` under it), `PushTransfer`, `Unlock`.
  The code between lock and unlock is split, although the mutex is held, because
  clear and destroy read the counters without it: they see also the increment
  that a refused wait takes back. `alive` turns false when the
  handle is freed, and nothing is modelled after that.
* `EventFlags` — what `lsp_egroup.h` promises of an event group: a wait returns
  events that fulfil it, and clears them, or returns none because its timeout
  expired (`Spec`). The code does not keep this with finite timeouts, so a weaker
  one (`LapsingSpec`) says what it does keep then: a wait with a timeout may also
  `Lapse`, taking what does not fulfil it or returning anything.
* `LspEgroup` — `lsp_egroup.c`, in the same style. The remaining time of a
  finite wait is any: `lsp_gettime_ms` is not a clock that runs forwards. An
  unassigned result (the lock failed) is any set of events.
* `LspTime` — how finite timeouts are reckoned: the deadlines that
  `lsp_mutex_lock`, `queue_wait_internal` and `egroup_wait_internal` compute,
  and the milliseconds of `lsp_gettime_ms`, modulo `UintMod`, that decide what
  `lsp_egroup_wait` takes to be left. One thread calls, sleeps and is woken; the
  clock runs beside it.
* `LspList` — the lists of `lsp_list.h`: the links; the separate writes of an
  insertion, for a list that is read meanwhile; insertion (in front, at the
  back, before, after) and deletion as one step, for a list that one thread
  uses at a time; what it means that a list is a ring through given nodes.
* `LspRouting` — `lsp_routing.c`, over `LspList`. Insertions are made under
  `rtable_mutex`, one write per step; searches (of `lsp_route_find`, and those
  with which `lsp_route_add` begins) take no lock, and each of their reads is a
  step. `Test` is the iterators' test for an empty list, `next == prev`, which
  also holds of one node: a search skips a table's only route. A route's
  `linkspeed` is never stored when it is added (`Alloc` draws it), only when it
  is replaced. A thread that has read the head as if it were a route ends
  "wild" and is not followed. `Test` reads `head->prev` and `head->next` in one
  step: its comment says why no other outcome is lost. The time stamps, which nothing reads, are left out.
* `ConnPool` — what the pool promises: a connection that is out belongs to one
  user or waits at one server; it comes back once, and a server only after all
  who waited at it have left.
* `LspConn` — `lsp_conn.c` and `lsp_conf.c`. A connection is its index in
  `conn_pool`. `lsp_conn_alloc` is split at every access to what other threads
  write: `Lock`, `Search` (one turn of the loop), `Unlock`, `MakeQueue`, `Mark`,
  the last two after the unlock as in the code. `lsp_conn_free` is `Free` (with
  `lsp_conn_close` in it), `Flush`, `FreeChildren`; its recursion over the
  children of a server is kept in `outer`, the connection from whose queue one
  is being freed. An `rc` that is never assigned is a choice (`FreeClosed`).
* `LspPort` — `lsp_port.c` over `LspConn` and `LspList`: bind, and listen with
  its insertion by priority.
* `LspSocket` — `lsp_socket.c` over `LspPort`: the composition of sockets, ports,
  pool and lists, called by threads that open and threads that do the rest.
* `ByteDeque` — what the code makes of a packet buffer: bytes that are added at
  either end, removed at the front as far as there are any, and stay as they are
  in between. What `lsp_buffer.h` says of the tail in a pull is no part of it.
* `LspBuffer` — `lsp_buffer.c`: one buffer, its pointers as offsets into the
  block, lengths modulo `Modulus`. The bytes that a put or a push gives to its
  caller are written by the same action. `lsp_packet`, a third name for the
  first `data`, and `iface` are left out. An allocation whose three summands
  exceed `size_t` is excluded (`Sizes`): the code does not look for it.
* `MCLspQueue`, `MCLspEgroup`, `MCLspRouting`, `MCLspBuffer`, `MCLspSocket` — the
  sets, masks, configurations, initial states and symmetries that the `.cfg`
  files use.
* `LspListProofs` — lemmas about the walks and rings of `LspList`, on which the
  proofs about routes and ports rest.
* `LspQueueProofs`, `LspEgroupProofs`, `LspBufferProofs`, `LspTimeProofs`,
  `LspRoutingProofs`, `LspPortProofs`, `LspSocketProofs` — the theorems.

`pthread_cond_wait` is modelled by its contract: it releases the mutex and goes
to sleep in one step, returns with the mutex, and may return for no reason
(`MaxSpurious` bounds how often). `pthread_cond_timedwait` refuses a deadline
with `tv_nsec >= 1e9`; the waits add two sub-second parts and do not
normalise, so that a finite wait is refused or not depending on the time of the
call: a choice in `Wait` and `Check`, computed in `LspTime`.
`hdl->tail = ++hdl->tail % n` writes `tail`
twice without a sequence point; gcc 12 at -O0, -O2 and -O3 computes
`(tail + 1) % n`, which is what `NextIndex` says.

The sockets depend on a layer that is not in the repository: nothing in `src`
gives a socket the port it was bound to, opens a connection, or puts a child
into a server's queue. `Configure`, `Establish`, `Offer` and the receiver of
`RxqPush` are that layer, external, and do only what the fields of `lsp_conn_t`
and the tests of the code leave to it. Without it most of `lsp_conn_close`,
`lsp_conn_free` and `lsp_accept` could not be reached. `alive` turns false in
`LspConn`, `LspPort` and `LspSocket` when a call uses a null or unassigned
pointer, a slot beyond the pool, an entry beyond the ports, or a list it must
not touch; nothing is said about what comes after, and everything up to there is
checked. The pops of `lsp_accept` and `lsp_conn_free` may have their lock refused,
and the code then goes on with the pointer it had: `AcceptNothing`, `Flush` and
`FreeChild` end the model there, whatever the queue holds. That
`lsp_queue_destroy` may refuse, and leave the queue to nobody, is not followed:
no later call can reach that queue.

Operators whose comment starts with "Mutant:" are deliberate bugs. Each replaces
the definition after it to show that a property notices; the specification does
not use them.

## Runs

| run | instance | checks |
|---|---|---|
| `queue_pair` | 1 producer, 1 consumer, 2 slots, 2 items, every timeout, failing clocks, weak fairness | `TypeOK`, `InBounds`, `NoLostFullWakeup`, `FifoSpec` (refinement of `BoundedFifo`), `PushServed`, `PopServed` |
| `queue_shared` | 2 producers, 2 consumers, finite timeouts, a thread that clears and destroys, a spurious wake-up | `WaitCounts`, `RingConsistent`, `NoLostEmptyWakeup` |
| `queue_stolen` | 2 consumers | `PopHasItem` fails |
| `egroup_flags` | 2 waits over one common event, for ever or, one of them, for a time or not at all, 1 setter, failing locks and clocks, a spurious wake-up, a destroyer, weak fairness | `NoMissedEvent`, `LapsingFlags` (refinement of the weaker `EventFlags!LapsingSpec`), `EventDelivered` |
| `egroup_timed` | 1 waiter with finite timeouts, 1 setter | `WaitAnswers` fails |
| `time_waits` | seconds of 3 ms, ms of 2 ns, 5 timeouts, 5 seconds of clock, milliseconds modulo 16 | `TypeOK`, `DeadlineExact`, `RefusedOnCarry` |
| `egroup_early` | the same, milliseconds modulo 32 | `EgroupNeverEarly` fails |
| `route_table` | 2 threads that add and find, 2 addresses, 4 routes | `TypeOK`, `ListIntact`, `DuplicatesBounded`, `HeadOnlyAtFirst`, `NothingMissed`, `SearchEnds` |
| `buffer_bytes` | `size_t` modulo 7, so blocks of up to 6 bytes, every length | `TypeOK`, `Layout`, `DequeSpec` (refinement of `ByteDeque`) |
| `sockets` | 1 opener, 1 closer, 2 slots, also with a pool of 1 that is searched up to 2, 1 port, received buffers, servers with children | `TypeOK`, `OnePlace`, `NoSpareMissed`, `PoolSpec` (refinement of `ConnPool`) |
| `port_lists` | 3 connections of 2 priorities that listen on 1 port and close in every order | `PortLists` |
| `socket_owner` | 2 openers, 2 slots | `UniqueOwner` fails |

The queue tests `length` once, before it sleeps, and not again when it wakes.
That is enough, and the queue is a FIFO, exactly when no second thread can
come between a signal and the woken thread's transfer: `SafeUse` states it (the
calls that may sleep on one side come from one thread, or no call of that side
may sleep; no clear; no spurious wake-up). `queue_stolen` shows the first
failure outside it. After that failure `length` is -1, which the comparison with
the unsigned `queue_size` takes for full: pushes are refused or sleep on an
empty queue. `RingConsistent`, `WaitCounts` and `NoLostEmptyWakeup` hold even
then. `NoLostFullWakeup` is not among them because `lsp_queue_clear` frees all
slots and signals nobody.

A finite wait of the event group sleeps before it looks at the events
(`lsp_egroup.c:198`): with its events already there it returns only when the
sleep ends. `Check` models it; `LapsingFlags`, which says what a wait returns and
not when, holds. Nor does a finite wait keep to what the header says it returns:
however it ends, it goes through the lines that read and clear `event_bits`
(`lsp_egroup.c:215` to 223), so that it may return, and take from others, events
that it did not wait for. `egroup_timed` shows it. A wait whose timeout is 0 has
no time to expire and is left out of `WaitAnswers`, though it does the same; one
whose lock fails returns an unassigned value, which `LapsingFlags` allows, and
takes nothing, which it demands. A wait for ever has no part in this: of it
`LapsingFlags` asks what the header promises, also while another wait gives up
beside it, and where every wait is for ever the group keeps the whole promise
(`FlagsSpec`, theorem `FlagsCorrect`). `NoMissedEvent` and `EventDelivered` are
about waits for ever. When a finite wait ends is the subject of `LspTime`: a
mutex and a queue wait exactly as long as they are told or, on a carry, a queue
not at all; `egroup_early` shows an event group giving up early.

The routing table is walked while it changes. `ListIntact` and `SearchEnds` hold
because an insertion writes the visible link last, and nothing is ever removed.
`NothingMissed` is about searches that begin with two routes or more, since a
search of a shorter table may miss what is there: the first route by the test
above, and any when the test is made between two writes. `DuplicatesBounded`
says how far the promise of one route per address fails: at most one more than
there are threads. `HeadOnlyAtFirst` confines the reading of the head as a route
to searches that begin before the second route is in the table.

A slot of the pool is found under `conn_mutex` and taken after it is released.
`socket_owner` shows two threads getting one slot. With one thread that opens
sockets the pool keeps its promise whatever the others close: `lsp_conn_free`
gives slots back without the mutex, at any point of a search, and frees the
children of a server recursively. `NoSpareMissed` says that the search is not
led astray by this, `OnePlace` and `PoolSpec` that a connection is never in two
places and never comes back twice. `OnePlace` has a place "lost": a closed
connection, which is not closed again, is freed or not as an unassigned `rc`
says, so that a slot may never come back; that every slot comes back would fail.

A pull of more bytes than there are removes what there is: `lsp_buffer_pull` clips
the length first, and the lines after it, which would move the tail as
`lsp_buffer.h:87` says ("adjusts tail if bytes to remove exceeds the tail"), are
never reached. No run is spent on this difference: the theorem `TailKept` says
that no pull, of any length, moves the tail, and `DequeSpec` is what holds
instead of the header.

The list of a port is exact as long as each call links what is not linked and
unlinks what is (`PortLists`); by priority it is not sorted, and a socket of the
lowest priority is linked nowhere (`LinkNowhere`).

### Bounds

Two slots distinguish empty, partly full and full and make the indexes
wrap; two items tell a wrong order from a right one; two threads on a side are
what it takes to steal from one another. Two events are enough for "any" and
"all" to differ and for one wait to take part of another's events. Four routes
are one more than the duplicates two threads can make; routes are symmetric.
Modulo 7, every order of data, tail and end occurs with lengths below, at and
above the room, and the two rooms can be confused with one another.

In `LspTime` 3 and 2 stand for 1000 ms and 10^6 ns: timeouts below, at and above a
second start at every nanosecond of one, until the clock stops at `MaxNow`, after
five seconds. 2^32 is 16 in `time_waits`, where milliseconds of up to 22 and the
`max_time` made of them wrap, and a time left may come out as `LSP_TIMEOUT_MAX`,
the wait for ever. It is 32 in `egroup_early`, where nothing wraps, so that the
trace shows the multiplication and no wrap. In `egroup_timed` the deadlines are
refused or not, as in every run of `LspEgroup`.

In `LspSocket` two slots are a server and its child, or a slot given back behind
the search and one ahead of it. `MaxOpen` bounds how many connections are open
at once; a queue of received buffers holds one. `SmallConf` is a pool of one
where the search goes up to two. Three sockets are a front, a middle and a back
of a port's list; `HeldInit` starts from sockets that are allocated and
configured, states that `Spec` reaches, so that the lists, and not the
allocation, fill the run.

Deadlock is checked except where the system may stop: after a destroy
(`queue_shared`, `egroup_flags`), after a call that leaves the model by `alive`
(`sockets`, `port_lists`, `socket_owner`), and when the clock has stopped
(`time_waits`, `egroup_early`).

### Fairness

`FairSpec` asks that a thread whose next step stays possible takes
it (weak fairness of `Proceed`): that threads run. It never obliges a thread to
call, nor a timeout to expire, nor a thread to obtain a mutex that others keep
taking, as a pthread mutex promises no order. `EventDelivered` therefore
speaks of the time after the sets have stopped and the waits with a timeout are
over, and `PushServed` and `PopServed`
of behaviours in which, from some time on, every call waits for ever
(`Patient`): calls with a timeout may lock, fail and call again so as to keep
the mutex from one that waits.

## Proofs

Checked by TLAPS for every number of threads, queue size, pool size, set of
events, routes, timeouts and items, from the assumptions on the constants in
the modules (`QueueSize` is positive, the threads are finitely many, the units
of time are positive, ...), which TLC evaluates in every run.

* `LspQueueProofs!TypeCorrect`, `MutexCorrect` — by induction directly.
* `BoundsCorrect`, `FullWakeupCorrect` — under `SafeUse`. `InBounds` is not
  inductive: one must know that a woken thread's room is still there when it
  gets the mutex. `BoundInv` adds `Promises` (a thread awake and entitled has
  room; one asleep sees a full, or empty, queue), `MaySleep` (who sleeps is
  of a side that may) and `Roles`.
* `RingCorrect` — in any use; the congruence is kept with or without a wrap.
* `EmptyWakeupCorrect` — in any use. Each push adds one entitled consumer while
  one sleeps, each transfer removes one; cardinality lemmas do the counting.
* `CountsCorrect` — in any use: who goes to sleep adds one to the sleepers of its
  side and to their counter, who has the mutex again takes one from both.
* `FifoCorrect` — under `SafeUse`, the whole refinement of `BoundedFifo`. By
  `RingCorrect` and the bounds the tail is the slot after the last item
  (`TailSlot`), so that a push appends (`PushAppends`) and a pop takes the head
  away (`PopTakes`); a position wraps at most once (`WrapIs`), which keeps two
  items out of one slot. The transfer, which room was promised to, is the step
  of the FIFO. That a refusal has its own name, and no transfer follows an error,
  needs to know which codes a wait leaves behind (`Codes`). All other steps are
  stutters: they leave every call's `Status` as it was.
* `LspEgroupProofs!NoMissedEventCorrect`, `LapsingCorrect`, `FlagsCorrect` —
  `IndInv` adds to the type that the holder of the mutex is alone, and that a
  wait for ever which finishes is fulfilled. `LapsingCorrect` is the whole
  refinement: each step is one of `EventFlags!LapsingNext` or a stutter.
  `FlagsCorrect` assumes that all waits are for ever: then no step is a lapse,
  and what the header promises holds.
* `LspBufferProofs!TypeCorrect`, `LayoutCorrect`, `TailKept`, `DequeCorrect` — for
  every width of `size_t`. `Layout` is inductive together with the type; with it
  no subtraction of the code wraps (`WrapSmall`), and the branch of
  `lsp_buffer_pull` that moves the tail is never taken (`PullStep`), which
  `TailKept` states as a property of every step. `DequeCorrect` is the whole
  refinement.
* `LspTimeProofs!TypeCorrect`, `Exact`, `Refusals` — for all units,
  timeouts and times. `SumSplit` shows what the two additions of the code make
  of the instant asked for, `QuotientUnique` that a sum without carry is its
  timespec. The invariant adds that a sleeping wait of a queue has crossed no
  second (`Uncrossed`) and that only the event group loops (`LoopIsEgroup`).
* `LspRoutingProofs!TypeCorrect`, `MutexCorrect`, `HeadCorrect` — for any number
  of threads and routes. That a cursor stays on cells of the list needs the
  links: from what can be reached one reads on to what can be reached (`Forward`),
  also from the route about to be made visible. This needs that a thread's new
  route is its own and not in the table (`OwnRoutes`), which needs the mutex
  (`MutualExclusion`). `Searches` says where the cursors are and what they know.
* `ListCorrect`, `SearchesEnd` — `ListIntact` is not inductive: between two
  writes of an insertion the back links do not mirror the list. `ListInv` says
  what they are then (`Backward`): the node after the head points back to the
  head, or to the route being inserted, which before its last write points on to
  where the head does. The last write is then `RingInsert`. No step changes
  what is ahead of a route already in the table, so that a cursor only goes
  forward.
* `NoRouteMissed` — `SearchInv`: every route with the address searched for that
  was there when the search began is the cursor or ahead of it, until the search
  finds one. The test `next == prev` ends no search that began with two
  routes, and the last cell of a walk is the one the head points back to.
* `DuplicatesCorrect` — `Counted`: the routes to an address, and the threads
  that are about to add one because they looked before it was there (`Late`),
  are together at most one more than the threads. A thread becomes late only
  while the table has no such route, or one route at all; each insertion uses
  its thread up.
* `LspPortProofs!ListsFromEmpty`, `PortListsCorrect` — for any number of
  sockets, ports and threads, allocating or not. `PortLists` is strengthened by
  that no socket is in two lists (`Disjoint`), which makes an insertion or a
  deletion in one leave the others alone (`Inserted`, `Unlinked`); the types
  that this needs (`Typed`) hold with any number of openers, which those of
  `LspSocketProofs` do not. An unlinked socket that is unlinked again ends the
  model (`alive`), as it does in the other properties of the sockets.
* `LspSocketProofs!TypeCorrect`, `OwnerCorrect`, `OnePlaceCorrect`,
  `SpareCorrect`, `PoolCorrect` — for any number of slots, ports and closing
  threads, and one that allocates (`OneOpener`: with two, `UniqueOwner` fails).
  The invariant joins what the locals say of the slots (`Allocating`), `state`
  and `holder` (`StateTells`), the frames of `lsp_conn_free` and their recursion
  (`Frames`, `Outers`, `CalledIsFreed`: one frame per connection, and one
  recursive free per server), the queues of children (`Queues`, `Servers`), the
  receive queues (`HasQueue`), and where the search has still to find what it
  must not miss (`SpareAhead`). `PoolCorrect` is the whole refinement, each
  action being a step of `ConnPool` or a stutter (`MovesRefine`).

What is said of lists rests on `LspListProofs`. `Walk` is a recursive function,
and what it computes is proved by induction all the same, without the library's
induction theorems, which cannot be used here: a set of naturals that is not
empty has a least member (`Least`, from the well-foundedness of inclusion among
finite sets), so that a set with 0 that is closed under successors, up to a bound,
contains every number up to it (`Induct`). `WalkExists` and `WalkIs` give the
equations of the recursion; `RingOrder` and `OrderRing` make of a ring an
injective enumeration of its nodes and back, so that what an insertion and a
deletion do (`RingInsert`, `RingDelete`) is a statement about two enumerations.

Only model-checked: the properties under fairness (`PushServed`, `PopServed`,
`EventDelivered`), since the provers here do not reason about `ENABLED`; and
the four findings, which TLC refutes. Every other property of a run is stated
by a theorem. No `RECURSIVE` operator is used. Three theorems on the queue
(`SafeUse`), five on the sockets (`OneOpener`) and one on the event group (waits
for ever) have a condition on the use; `queue_stolen`, `socket_owner` and
`egroup_timed` show what can happen outside it.

## Findings

* `queue_stolen` — `lsp_queue_pop` returns success and a stale item from an empty
  queue when another consumer comes between the signal and the woken one.
* `socket_owner` — two threads that call `lsp_socket` may get one connection.
* `egroup_early` — `lsp_egroup_wait` may time out long before its timeout, as
  `lsp_gettime_ms` multiplies the nanoseconds where it should divide.
* `egroup_timed` — a wait with a timeout that gives up returns, and clears, events
  that do not fulfil it, where `lsp_egroup.h:75` says 0.

One more disagreement is proved and has no run: `lsp_buffer_pull` never moves the
tail (`TailKept`), where `lsp_buffer.h:87` says that it may.

## Not modelled

* The core task: not in the build, its event type is declared nowhere, and the
  handlers are empty. Its queue is `LspQueue`.
* Memory: wrappers of `malloc`. The list of blocks of the DEBUG build is read
  after the block it is reading has been freed, from the second call on.
* The interface list (one insertion and two walks that nothing calls), the
  interfaces (one function, which does not compile), threads, the log.
* That the block which `lsp_conn_init` allocates is released again before it
  returns (it falls through its error labels). It is taken to keep its contents:
  if `malloc` gives it out again, nothing about the pool can be said.
* In `lsp_port.c`, the state of a port and the codes returned, which decide
  nothing else; and interleavings inside `lsp_listen`, `lsp_bind` and
  `lsp_accept`, which are one step each. Two threads that listen on one port at
  once are thus not followed write by write.
* Addresses, socket flags and options, which nothing reads.
* `send`, `recv` and the rest of what `lsp_socket.h` declares: not defined.

## Plan

What is left, in order:

1. The insertion of `lsp_listen` write by write, with two listeners on one port.
2. The core task over `LspQueue`, once its events are declared in the source.

# Verification of the TCF agent

TLA+ models of the Target Communication Framework agent (`src/agent/tcf`): its
concurrent core, its channels and protocol, run control and breakpoints, the
streams of processes, and discovery of other agents; TLC configurations that check
them on small instances; and proofs about the event queue, the worker pool with the
shutdown, the caches, and the reply handlers of the protocol, for every size. Source
names are kept: an action is named after the function it models, and `PROJECT.json`
maps each definition to its lines.

## The system

The agent is one *dispatch thread* that runs event handlers to completion, and a
set of background threads that block on its behalf. Nothing else in it is
concurrent, so nearly all code is written as if it were sequential. Its hard part
is what may happen between two events, what a handler may call while somebody
further up the stack holds a pointer, and what the debugged program, the peers and
the network do meanwhile.

| Part | State | Operations | Interacts with |
|---|---|---|---|
| Event queue (`events.c`) | `event_queue` (dispatch thread only), `timer_queue`, node pools, `cancel_handler` | post, post with delay, cancel, run and cancel the loop | everyone posts; background threads wake the dispatch thread |
| Worker pool (`asyncreq.c`) | idle list, thread count, the request of each worker | post a request, complete, leave, stop | done events go to the event queue; stopped by the shutdown manager |
| Shutdown manager (`shutdown.c`) | list of active objects, their states | set normal, set stopped, start, notify all | calls back into worker pool and channels |
| Caches (`cache.c`) | waiting clients of each cache, copies of their arguments | enter, wait, notify, exit, dispose | run clients again; hold locks on channels |
| Line numbers proxy (`linenumbers_proxy.c`) | entries filled by a remote peer | look up, validate, flush, channel closed | a provider of caches, and a user of the protocol |
| Output queue (`outputbuf.c`, writing side of `channel_tcp.c`, `channel_pipe.c`) | buffers queued, pooled and being filled; locks; flush count | write, write a block, splice, flush, done, close | requests of the worker pool |
| Input buffer (`inputbuf.c`, reading side of `channel_tcp.c`) | ring buffer, two decoders, message count | read done, get more, start message, flush, close | requests of the worker pool; message handlers |
| Protocol (`protocol.c`) | reply handlers by channel and token, channel states | send command, Hello, reply, progress, redirect, channel closed | handlers of services; close listeners of channels |
| Channels (`channel.c`) | locks, broadcast groups, listeners | lock, unlock, close, notify | all of the above |
| Proxy (`proxy.c`, redirect command of `discovery.c`) | a host and a target channel that relay, close and redirect each other | relay, redirect, connect, disconnect | two channels, two protocols |
| Peers and discovery (`peer.c`, `discovery_udp.c`) | table of peers with an expiry timer, table of slaves | add, remove, expire, announce, take over a port | other agents over UDP |
| Run control, contexts, waitpid (`runctrl.c`, `context.c`, `context-linux.c`, `waitpid.c`) | state and references of each thread, safe events, locks | resume, step, stop, terminate, detach, run safe events | the kernel through `ptrace()` and `waitpid()`; breakpoints |
| Breakpoints (`breakpoints.c`) | breakpoints, evaluation requests, planted instructions, status | add, change, remove, evaluate, plant, hit, step over | caches, run control |
| Streams service, processes (`streamsservice.c`, `processes.c`) | ring buffer, clients, waiting reads and writes of each stream | subscribe, read, write, end of stream, connect, delete | pipes through the worker pool |
| Remaining services, symbol readers, portability layer, main programs | mostly none beyond a request | | |

### What is hard, and what correct means

* *Threads.* A wake-up lost between a background post and a dispatch thread about
  to sleep; `cancel_event()` waiting for a post that was, or will never be, made;
  a worker going idle just as the pool is told to stop. Correct: no event or
  request is lost, duplicated or starved, and nobody waits for nobody.
* *Ownership across events.* Event nodes, output buffers, cache entries, client
  arguments, contexts and channel locks change hands; a worker reads or writes the
  memory meanwhile. Correct: each thing is in one place, and is freed once, after
  its last use.
* *Streams.* Bytes are split, merged, escaped, buffered in rings, and sent in
  part. Correct: what is read is what was written, in order, and nobody waits for
  data or space that is there.
* *Callbacks.* `notify_all()`, `cache_notify()` and `channel_closed()` call code
  that changes the list they walk. Correct: no saved pointer dangles, no entry is
  lost or visited twice.
* *The debugged program.* Threads appear, stop, are killed and exit while the agent
  acts on what it last heard of them. Correct: a break instruction is removed from
  memory only while no thread can run past it, no thread is left stopped without
  being reported, and no hit that an evaluation can still see is passed over.
* *Peers and networks.* Channels close, redirect and break at any point; agents
  crash, and packets are lost, delayed and duplicated. Correct: every command is
  answered once, by the session it was sent in, and tables of peers become right
  again.
* *The end.* Correct: every handler is told, every lock is given back, and a
  shutdown completes, only after everything has stopped.

The hazards, each at its line, are in `PROJECT.json` with the properties that would
catch them. These are known and covered by none: `wait_list_buf` and
`current_client` of `cache.c:191` are global, so a client that enters another
cache's notification would overwrite them; the end of a stream overtakes complete
messages that arrived before it (`inputbuf.c:327`); `send_command_failed()` uses a
channel on which `protocol_send_command()` took no lock (`protocol.c:433`); the
next entry read before clients run in `expressions.c:4693`; a proxy connected to
itself (`proxy.c:277`, which a comment there mentions); the list walked by
`clear_stale_peers()` while listeners run (`peer.c:89`); the one `detach` flag of
`waitpid.c:229`; `service_available` of `linenumbers_proxy.c:143`, read once per
channel.

## Modules

| Module | Models | Notes |
|---|---|---|
| `EventQueue` | `events.c` | every critical section of `event_lock` is one action; reading the clock is an action of its own because it happens before the lock |
| `EventQueueProofs`, `AsyncReqProofs`, `CacheProofs`, `ProtocolProofs`, `ProxyProofs`, `ProxyOnceProofs`, `OutputQueueProofs` | | the theorems about `EventQueue`, `AsyncReq` with `Shutdown`, `Cache`, `Protocol`, `Proxy`, and `OutputQueue` with `ByteStream` |
| `ListLemmas` | | sequences as linked lists, for the proofs |
| `Shutdown` | `shutdown.c` | functions of one record, as all of it runs on the dispatch thread |
| `AsyncReq` | `asyncreq.c`, composed with `Shutdown` and with channels reduced to their requests | `notify_all()` is a step per object, as workers run meanwhile |
| `Cache` | `cache.c`, `linenumbers_proxy.c`, the safe-event gate of `runctrl.c` | a run of a client is a sequence of cache accesses that may miss, be caught, or throw |
| `ByteStream` | | what the writing side of a channel promises |
| `OutputQueue` | `outputbuf.c` and its two channels | refines `ByteStream` (`ImplementsByteStream`) |
| `InputBuf` | `inputbuf.c` and its channel | compared with a decoder that has no buffer (`Decode`) |
| `Protocol` | reply handlers, handshake, redirection and closing in `protocol.c` | the loop of `channel_closed()` is a step per entry, as it calls handlers |
| `Proxy` | `proxy.c`, the redirect command, and the parts of `protocol.c` and `channel_tcp.c` they run in | client, server and targets, with two connections between them |
| `RunControl` | `runctrl.c`, `context.c`, `context-linux.c`, `waitpid.c` for one process | composed with a kernel that runs, stops and ends threads |
| `Breakpoints` | `breakpoints.c` | composed with threads that run over planted instructions, and with caches that miss |
| `StreamsService` | `streamsservice.c` and the pipes of `processes.c` | two streams of one child process |
| `Discovery` | `discovery_udp.c`, `peer.c` | several agents on several hosts, and a network with faults |
| `MC...` | | instances for TLC |

Each `Mut...` operator is a plausible bug of the definition that follows it. It is
used nowhere; put in place of that definition it must violate the property that
`PROJECT.json` names, which shows that the property depends on the code.

### How state and actions correspond to the code

*EventQueue.* Variables have the names of the globals. `pc` is where the dispatch
thread is (`code` is anything a handler does), `cur` the event it handles, `call`
the post a thread is in the middle of. A (handler, argument) pair is one value,
as `cancel_event()` compares both. `SpuriousWake` is what POSIX allows. The clock
is bounded by `MaxTime`; when it stands still timed events of the last instant are
due, so no behaviour is cut off in the middle of a wait.

*AsyncReq.* Posted events are a set: the order between threads is not guaranteed
(see the first observation below). A read waits until the peer sends or ends the
connection, a write until it takes the data, both for ever if need be; a connect
succeeds or fails. A closed channel throws away what it reads until the peer ends the
connection. There are no listening sockets, so `LastChannel` does not look at
`channel_server_root`. Thread identities are bounded by `Workers`; an identity is reused after
`worker_thread_exit()`.

*Cache.* `ValidateEntry` is the reply of the peer, also the error reply of a
closed channel. `MaxAccess`, `MaxSafe` and `MaxFlush` bound the accesses of one
run, the safe events and the flushes. Identifiers wrap at `IdMod`.

*OutputQueue.* A byte is its position in the output. That makes loss, repetition
and reordering visible; an escape sequence counts as one byte, since its two bytes
are always written into the same buffer or flushed in between like any others.
Loops over buffers are in closed form: `AllocObufs` is what several allocations
return, `AddNew` what the loop of `output_queue_add()` leaves, `QueueClear` what
freeing the whole queue does to a pool of bounded size. `loc_alloc()` does not
return when memory is short, so there are more buffers than bytes
(`ConstantAssumption`); that this is enough is part of the proof.

*InputBuf.* Bytes are real: the escape codes are decoded twice, by
`ibuf_read_done()` to count messages and by `ibuf_get_more()` to read them, and
the point is that the two agree. So are the sizes of blocks: both decoders add up
groups of 7 bits, and the streams have sizes of one and two groups, split by reads
and by the end of the buffer. Sizes whose shift leaves an `int` (five groups and
more) are not sent. The model allows slightly more orders of events
than the event queue does: a completed read may be handled before a message event
that was posted earlier.

*Protocol.* A message carries the command it answers, which the code cannot see;
`RepliesSound` compares it with the handler that was called. Peers act only outside
of the loop of `channel_closed()`, which sees nothing of them. `ReenterOther` says
whether a handler that `channel_closed()` calls may send on another channel; see
the observations. Such a handler closes no channel in the model, which would nest a
second loop in the first. A reply that ends too early makes its handler throw and the
channel close; for `redirect_done()` this is what `RedirectTold` is about.

*Proxy.* A token is the client's number and the count of `R` prefixes. Sessions are
numbered, so that an event or a reply of one target can be told from those of the
next; the code has no such number. Connections are FIFO and break at either end, but
between messages: a reply to a redirection that ends too early is in `Protocol`
only, and `PairSound` does not speak of the lock that it leaves (see the
observations).

*RunControl.* The record `s` holds the agent, `s.k` what the kernel knows of each
thread: the agent acts on the former and learns of the latter by `Report`. Every
call of `post_safe_event()`, `context_stop()` and `context_continue()` is a function
of `s`; `Dispatch` runs the next event. Timeouts of `stop_all_timer()` are steps
that may come at any moment, and `ptrace()` may fail while the thread is dying.

*Breakpoints.* `r` holds breakpoints, instructions, evaluation requests with their
generations, and the threads. An evaluation is a cache client and may miss
(`CacheReply`), with anything in between. A scenario of `Scenarios` bounds one kind
of history (forks and exits, misses and conditions, more data breakpoints than
registers, one breakpoint of two clients); the run explores all of them.

*StreamsService.* Bytes are numbers, as in `OutputQueue`. `InputCallback` and
`OutputCallback` are the two notifications of `processes.c`, `WriteComplete` and
`ReadComplete` what a worker does to a pipe. Commands of clients may overtake events
the service has posted to itself; the event queue would order some of them.

*Discovery.* A time stamp is stored as what is left of it, in refresh periods; the
ratio of the two periods is that of `protocol.h` (`Retention = 4`). `Timers` is
both timers of an agent, in either order; `Tick` lets a period pass when all timers
have fired. Where in their periods the timers fire is left open, so that what ends
after n periods may be found ended one period later. All packets of one `udp_send_all()` to one receiver are one entry of
`net`, of which `Lose` may take a part. `calm` counts the periods that began since the
last start or fault. `told` is history: whether what an agent knows of another one is
about its present life.

## Runs

| Run | Instance | Checks |
|---|---|---|
| `event_queue` | 2 threads, 1+2 nodes, 2 handlers, delays 0 and 1, batch 2, clock to 2 | `NoLostWakeup`: the dispatch thread never sleeps past an event that is due. `CancelWaitSafe`: `cancel_event()` waits only for an event that will be posted. `QueuesSound`: each node is in one place, and the queues are in dispatch order. `EveryEventHandled`: no event starves, and `cancel_event()` returns |
| `async_req` | 4 workers, 2 channels, 1 background request, 1 idle worker allowed | `PoolSound`: the pool's books balance, a request runs once, no worker sleeps through the end. `ShutdownSafe`: the list of active objects is walked safely, completion is reported only when everything has stopped, and the pass is not forgotten |
| `shutdown_liveness` | 4 workers, 1 channel | `ShutdownCompletes`: a shutdown completes, or a late connection is open, or a closed channel waits for its peer for ever |
| `cache` | 3 clients (2 on one channel), 2 keys, 2 entries, identifiers modulo 3 | `ClientOnce`, `ClientSafe`: a client is neither lost nor run twice, and its arguments and channel live as long as it does. `WaitersHaveReply`: who waits, waits for an entry that will be filled. `ClientFinishes` |
| `output_queue` | TCP and pipe, 7 bytes, 8 buffers of 2 (pipe 3), pool of 1 | `QueueSound`, `LocksExact`: buffers are in one place, the head is being written, locks balance. `ImplementsByteStream`: bytes leave once, in order, and the connection is shut down after the last. `OutputLeaves`: they do leave, and the channel is shut down |
| `input_buffer` | 89 streams, buffer of 4 that may grow to 8 | `BufferSound`: what handlers read is what was sent, messages are counted right, nothing unread is overwritten. `NoDeadlock`: the dispatch thread blocks only in a long message, while a read is under way. `StreamEnds` |
| `protocol` | 3 commands, 2 channels, 2 buckets, tokens modulo 2 | `CommandAccounted`: a handler is called once, for every command. `RepliesSound`: with the reply to its command, and no correct reply is unexpected |
| `proxy` | 2 commands, 2 sessions with targets, 1 event each | `AnsweredOnce`, `EventsInSession`, `PairSound` (assertions, locks and both channels), `RedirectEnds` |
| `run_control` | 2 threads, 1 command, signal or failure | `BooksSound`: assertions (all but that of `runctrl.c:2193`), wait requests, locks, safe events and references. `StepOverAlone`: while a break instruction is out of memory no other thread runs. `NoForgottenThread`: no thread stays stopped and unreported. `InterceptEnds` |
| `breakpoints` | 5 scenarios with 2 threads, 2 breakpoints, 1 debug register | `TablesSound`, `PlantedAsWanted`: what is planted at rest is what the breakpoints want. `HitStops`: a hit that its evaluation can see stops the thread. `StatusUpToDate`: clients know what is planted. `ReplantEnds` |
| `streams` | 4 scenarios with 2 clients, ring of 2 | `RequestsSound`: nothing freed is used, commands are answered once and in order. `DataIntact`, `NoLostWakeup`, `WritesEnd` |
| `discovery` | 3 agents on 2 hosts with 1 fault, or 2 on 1 host with 2 faults; 4 periods of retention | `SettlesInTime`: when 11 periods have begun after the last event all tables are exact. `NoFlapping`: faults do not make an agent drop another that runs and that it was told of, but for a late PEERS_REMOVED |

Five more configurations are no runs of the project, but show what the code promises
and does not keep: TLC finds the one property of each violated. They explain why the
properties above leave these promises out (see the observations).

| configuration | module | property | promise |
|---|---|---|---|
| `MCInputBufAssert.cfg` | `MCInputBuf` | `LongMessageAlone` | assertion of `inputbuf.c:261` |
| `MCProtocolRedirect.cfg` | `MCProtocol` | `RedirectTold` | comment of `protocol.h:102` |
| `MCRunControlDetach.cfg` | `MCRunControl` | `StoppedAtDetach` | assertion of `runctrl.c:2193` |
| `MCBreakpointsDisabled.cfg` | `MCBreakpoints` | `DisabledHasNone` | assertion of `breakpoints.c:1351` |
| `MCBreakpointsStopped.cfg` | `MCBreakpoints` | `StoppedAtCondition` | assertions of `breakpoints.c:1402`, `1690`, `1691` |

`CHECK_DEADLOCK FALSE` is set where the system may come to rest: a loop that was
cancelled, a shutdown that is complete, a channel that was deleted, or all bounded
inputs used up. Discovery never rests, and is checked for deadlock.

### Why the bounds are enough for these questions

Each bound lets the case it limits happen. Two threads and delays of 0 and 1 give
posts that insert in another order than they read the clock. A batch of 2 with
three nodes lets a batch end with untimed events left. One idle worker allowed makes
the pool overflow with two. Two entries for two keys make entries be reused after a
flush while an orphan waits; identifiers modulo 3 wrap within one behaviour. Seven
bytes in buffers of two and three make a queue of several buffers, merging, reuse
from the pool and a partial send in one behaviour. A ring of 4 wraps and fills in
every stream and grows in half of the runs; the long streams have three buffers'
length, and one of them is given up in the middle. Tokens modulo 2 wrap with the
second command, and the hash bases put commands of both channels into one bucket.

Two sessions let a reply and an event of the first target meet the redirection to
the second, and the first redirection of the server has the token of the client's
first command. Two threads are the least with which a break instruction can be
stepped over in the presence of somebody else, the second being created while the
first is stopped; one input combines with any number of hits, clones, exits and
timeouts. A ring of two bytes is full with one write and wraps with the second. One
debug register is exhausted by two data breakpoints. Three agents on two hosts are
the least with a master, a slave and a remote master; with one fault the master may
crash and return, which `Start` does at no cost, while any number of agents join. The
bound of `SettlesInTime` is sharp in the model: ten periods are too few. An entry lives for up to five periods
where the announcement was heard, and for five more where it was passed on at the
end: eleven periods may begin before it goes. Two faults are the least for a PEERS_REMOVED
that arrives after a restart, which two agents suffice for; three agents with two
faults are too many states.

### Fairness

Liveness is checked under weak fairness of each thread's own steps (threads are
scheduled) and of dispatching posted events (which `EveryEventHandled` shows for
the queue itself). Strong fairness is used where a step is disabled again and
again by steps of the same thread: a handler returns although it may go on
calling (`HandlerReturn`), `notify_all()` is dispatched although other events
come between (`NotifyAll`), and a handler reads rather than peeks for ever. In
`OutputQueue` a connection sooner or later takes data or breaks. In `RunControl`
the kernel delivers SIGSTOP, reports stops and lets threads exit that were killed;
in `Breakpoints` caches are filled and stops are reported; in `StreamsService` a
write to a pipe completes. No fairness is given to users, to peers that stay idle,
or to reads and writes of a channel, which depend on its peer: `ShutdownCompletes`
therefore excepts a closed channel that stays so for ever, and users that connect
again and again. A redirection has to end although the target may refuse, fail or
disappear. `InputBuf` assumes that the peer ends its connection, without
which nothing ends. In the larger modules weak fairness of an action `A` is written
out as `[]<>~(A is possible) \/ []<><<A>>_vars` with the plain condition of `A`.

`Discovery` needs no fairness: its bound is in periods, and a period ends only when
all timers have fired and all packets have arrived.

## Observations

What the models showed where the code and its documentation, or its assertions,
disagree. Where an assertion or a promise fails, a configuration of its own shows the
violation; the properties of the runs are stated so that they hold, and these are the
exceptions they make.

* `events.h:38` promises that events are dispatched in the order of posts; a post
  on the dispatch thread (`events.c:342`) overtakes events that background threads
  posted before. `QueuesSound` orders each queue by itself.
* A connection that is established after the shutdown pass registers a channel
  nobody is notified of (`channel_tcp.c:914`, `shutdown.c:100`); the shutdown waits
  until somebody closes it. This is the exception `LateChannel` of
  `ShutdownCompletes`.
* Closing a channel ends only the sending direction (`channel_tcp.c:665`); it is then
  read until the peer ends the other one (`channel_tcp.c:775`), without a timeout. A
  peer that does not, or that reads no more while data are left to send, keeps the
  channel, its worker thread and a shutdown for ever: the exception `WaitsForPeer`.
* The assertion on `message_count` in `ibuf_read_done()` (`inputbuf.c:261`) fails
  when a peer closes inside a message longer than the buffer:
  `MCInputBufAssert.cfg`. `BufferSound` leaves it out; the stream is read to its end
  all the same.
* A command sent on another channel by a handler that `channel_closed()` calls can
  be unlinked from the table with the old entry (`protocol.c:712`); its handler is
  never called. The run `protocol` limits handlers to the channel that is being
  closed; `CommandAccounted` fails with `ReenterOther = TRUE`.
* If the reply to a redirection cannot be read, `redirect_done()` is left by the
  exception at `protocol.c:484` before it calls the handler of whoever asked for the
  redirection, and nobody else calls it: `MCProtocolRedirect.cfg`. A proxy then never
  gives back the lock of its host channel, which is closed but not freed.
* SIGKILL is not delivered to a thread that was stopped by `PTRACE_EVENT_CLONE`,
  `FORK` or `EXEC` when it is terminated: `context-linux.c:535` passes a signal only
  if `ptrace_event` is 0. The thread is resumed and runs until it stops for some
  other reason. No property says that a terminated thread exits.
* `assert(is_all_stopped)` of `runctrl.c:2193` fails when a process is detached with a
  thread that could not be stopped in time, and the thread creates another one before
  `sync_run_state()` runs: `MCRunControlDetach.cfg`. `Sound` covers the other
  assertions of run control, not this one.
* A main thread that is a zombie is neither suspended nor gone until the others exit,
  the exception of `InterceptEnds`.
* The assertion of `breakpoints.c:1351` fails if a breakpoint is disabled while a
  forked child that is not attached yet holds copies of its instruction:
  `MCBreakpointsDisabled.cfg`. Those of `breakpoints.c:1402`, `1690` and `1691` fail if a
  thread is killed between a hit and the evaluation of its condition:
  `MCBreakpointsStopped.cfg`. `TablesSound` covers the other assertions of the file that
  speak of what is modelled, not these. A hit that is reported after its instruction was
  removed is lost, and the status of a breakpoint that is replanted during a step
  over lacks the type of its instruction.
* A process output stream is never deleted if data are unread when the process ends
  and nobody reads on (`processes.c:1005`, `streamsservice.c:252`). Writes that wait
  when a process exits are answered only when their client disconnects. The end of
  stream of a client never closes the input pipe of the process.
* A restarted agent is first known by the entry of its previous life, which may expire
  before the new life is announced: a master that crashes and is back before a slave
  has taken its port knows no slave, hears of them when they refresh, and may be dropped
  and listed again in between. `NoFlapping` speaks of agents that were told of since
  they started. A PEERS_REMOVED that arrives after a restart drops the agent too,
  the exception of `NoFlapping`. An entry of an agent that crashed may stay for almost ten
  periods, more than twice PEER_DATA_RETENTION_PERIOD.

## Proofs

`EventQueueProofs`, for any number of threads, nodes, handlers, delays and any
batch size, from the named assumptions of `EventQueue` on its constants (pools
disjoint, the `NULL` values distinct, delays natural, the batch positive):

* `TypeCorrect`: types, and that `run_event_loop()` takes the head of
  `event_queue` only if there is one. The types alone are not inductive: a delayed
  post takes its handler and time from `call`, and `Dispatch` reads the head of a
  sequence. `TypeInv` adds that the dispatch thread has a call under way while it
  posts (`PostingHoldsEvent`) and `DispatchHasWork`; then every action is checked
  on its own, with lemmas on what inserting, removing and splicing do to a
  sequence.
* `WakeupCorrect`: `NoLostWakeup`, inductive relative to `TypeInv`. The two steps
  that matter are `Fetch`, which goes to sleep with a time-out no later than the
  first timer (`FetchSleeps`), and `BgInsert`, which either signals or does not
  change the first timer (`BgInsertWakes`).
* `CancelCorrect`: `CancelWaitSafe`, inductive relative to `TypeInv`: while
  `cancel_event()` waits, the dispatch thread posts nothing, and the thread that
  owes the event gives it up only by being swallowed, which ends the wait.
* `QueuesCorrect`: `QueuesSound`. The order of the queues is not inductive by
  itself: `OrderInv` adds that no timer has the time 0, which marks untimed events
  (`TimersTimed`), and that the thread sleeps only right after `event_cnt` was reset
  (`SleepFresh`). A fetch moves a prefix of `timer_queue`, a cancel removes one
  entry; both are embeddings of sequences, which keep order. That no node is lost or
  shared (`Spread`) needs in addition that `cur` is empty when the loop takes the
  next event (`LoopIdle`).

`ListLemmas` holds what all modules use of the C lists: members, length and
repetition after appending, inserting, removing and taking the first entry.

`AsyncReqProofs`, for any finite set of workers and any number of channels,
background threads and idle workers, from the assumptions of `AsyncReq` (the values
that stand for no request, the timer and `shutdown_req` are distinct from requests):

* `PoolCorrect`: `PoolSound`, and `ShutdownCorrect`: `ShutdownSafe`. They share one
  inductive invariant, because pool, channels and shutdown manager rely on each
  other: the pool is registered exactly while a thread exists (`Manager`), so the
  exit of the last thread must not be forgotten; a thread is joined only after its
  last answer was taken (`EventsTrue`), so the count is the number of threads
  (`Books`); and a channel posts its next request only after the answer to the one
  before (`Requests`: each request is free, with one worker, or in one event, as the
  state of its channel says). `NoSleeperLeft` needs the state of `notify_all()`,
  which sets the object to pending before its callback takes `wtlock`. Functions of
  `shutdown.c` are lemmas of their own on the record that is their state.

`CacheProofs`, for any finite set of clients and any number of channels, entries,
keys, look-ups, flushes and safe events, and any width of the transaction counter:

* `OnceCorrect`: `ClientOnce`, `SafeCorrect`: `ClientSafe`, `ReplyCorrect`:
  `WaitersHaveReply`. The properties count clients; the invariant says instead where
  they are: lists and buffers have no client in common (`Apart`), and where a client
  is follows from what it is doing (`Phases`). The client that runs is the first of
  the batch, or was just started on an open channel (`RunState`), which is why its
  channel exists although it holds no lock yet. Lock counts are sums of
  cardinalities of these places (`LocksExact`); a client that moves from a list to a
  buffer moves its lock. `Replies` is `WaitersHaveReply` with uniqueness in place
  of a cardinality.

`ProtocolProofs`, for any set of channels and commands, any addresses of channels,
any size of the table and any range of tokens, from the assumptions of `Protocol` on
its constants:

* `AccountedCorrect`: `CommandAccounted`, and `RepliesCorrect`: `RepliesSound`. Both
  assume `~ReenterOther`: no handler that `channel_closed()` calls sends a command on
  another channel. Without it they are false (see the observations), so the
  assumption is a condition on clients and stated in the theorems. One inductive
  invariant serves both. `TableOK`: an entry is in the bucket of its hash, once, and
  no two entries of a channel have the same token; `find_reply_handler()` then finds
  the one entry there is, and a token that wraps is skipped while an entry holds it.
  `Commands`: the life of a command and where it is at each stage, also of a
  redirection that is lost (`RedirectTold`). `ClosedAhead`: an
  entry of a closed channel is still before the loop of `channel_closed()`, in a
  later bucket or behind the current entry of this one; unlinking an entry moves
  what is behind it one place forward and leaves the loop where it was. `Redirects`:
  one redirection at a time on a channel, in the state that `redirect_done()`
  asserts. `Mail`: a message in flight is about an entry of the table with its
  token, a reply is the last message about its command, and a command that the peer
  of an open channel has to answer is in the table. `Mail` is why entries of a
  redirected channel are kept: the replies to them are still in flight.

`ProxyProofs`, for any set of commands and any number of sessions and events, from
the assumption of `Proxy` that commands and bounds are natural numbers:

* `PairCorrect`: `PairSound`, and `EventsCorrect`: `EventsInSession`, from one
  inductive invariant. `Mode` lists the nine combinations of proxy, channel states
  and redirection that the server can be in; the functions of `proxy.c` and
  `discovery.c` are lemmas that lead from one to the other, with the locks they
  leave (`Books`). That a message finds the server in a mode where its handler's
  assertion holds depends on what is in the queues, so the invariant follows the
  sessions through them: a queue that leads to the client, and one that comes from
  the target, holds at most one of `redirectFailed`, `redirected`, `Hello`, or
  `redirected` before `Hello`, and every event between them is of the session that
  they delimit (`Shape`). The queue of the client ends in the session in which the
  queue of the target begins (`Sessions`). `ClientWord` and `TargetWord` say which of
  these messages may be there while the server is in which state: the client asks for
  one redirection at a time (`AskOK`), and a target that has not said Hello still
  owes it. `MailOK` is the prefix of each token, by which the reply to a redirection
  is told from a relayed one.
* `AnsweredCorrect` (in `ProxyOnceProofs`): `AnsweredOnce`, from that invariant and
  `OnceInv`, which adds that a command which was not sent is nowhere and that the
  target holds finitely many. `Places` is a sum of cardinalities of sets of
  positions, not of lengths of filtered sequences, so that its laws follow from
  the theorems on finite sets: positions of a concatenation are those of both parts
  (`CountConcat`), and hence what appending and reading a message do to a count.
  `OnceInv` is preserved by a step that is `Kept`, adding a command to no place
  and taking none away unless it closes a connection. Every action but `ClientSend`
  is `Kept`; the ones of the server are reduced to lemmas on what an event reads and
  writes (`EventKept`, `PutKept`, `QuietKept`). `MailOK` is needed for the replies to
  the server's own commands, which count for no command of the client, and that a
  command comes to the target once is needed because the target keeps a set.

`OutputQueueProofs`, for buffers, pools and pipe buffers of any size, any number of
bytes, and both kinds of channel, from the assumptions of `OutputQueue` (sizes are
natural numbers, there is more memory than bytes, `None` is no request):

* `QueueCorrect`: `QueueSound`, `LocksCorrect`: `LocksExact`, and `StreamRefined`:
  `ImplementsByteStream`, from one inductive invariant `Inv`. `QueueSound` says
  nothing about the state after an error, and does not say how much of a buffer a
  request covers; `Inv` does. Buffers of queue and pool are distinct and `obuf` is
  elsewhere (`Places`, `Aside`); a request is for the unsent part of the first buffer
  (`InFlight`, `Asks`), so what a worker sends is what follows on the wire; the blocks
  of the queue are runs of bytes, each starting where the one before it ends, from
  what was sent to what was flushed (`Line`). `Ascending` follows from that
  only by induction over the queue, so `Inv` carries it along: block number j starts
  at least j - i bytes behind block number i. It bounds the length of the queue by
  the bytes in it, which is why an allocation finds memory. `Ghosts` says that `written` and `wire` count from 1,
  and `Control` that locks balance, that data is spliced only behind a flushed
  `obuf`, and that a connection which was shut down has an empty queue.
  Each function of `outputbuf.c` is a lemma on the record that is its state, and
  each action is a sequence of these functions. The refinement maps a write to
  `Write`, a worker's send or the end of a splice to `Send`, a completion with an
  error to `Fail`, the last completion of a closed channel to `Shut`, with or without
  an error, `SendEofAndClose` to `Close`, and the steps between buffers to stuttering; that `Send` extends the wire by what was written next is `Line`, that
  nothing is sent after `Shut` is `Control`.

Only model-checked:

* all liveness properties, which are out of the prover's reach;
* `BufferSound` and `NoDeadlock` of the input buffer and `DataIntact` of the streams
  service: they depend on folds over a stream, which need induction over data;
* everything of `Breakpoints`, whose operators are recursive;
* `RunControl` and the requests of `StreamsService`: their handlers loop over the
  threads of the process and the clients of a stream, and what such a loop preserves
  needs induction over the fold that models it;
* `Discovery`, for which no inductive invariant is written: that peers settle in
  time depends on the ages of the entries and packets of every agent together.

## Not modelled

The map covers a small share of the repository's lines, and can cover no large one:
most of the lines are readers of symbols, line numbers, DWARF and ELF, an expression
interpreter, disassemblers and register tables of several processors, debug contexts
for other operating systems, and a vendored web socket library. These are sequential
conversions of large inputs, whose correctness is that of a table or a file format,
or code whose behaviour is that of the system below. What remains, by component:

* *Protocol and channels*: commands and events received from peers (in `Proxy` they
  are relayed), congestion messages, the handler tables; servers, accepting,
  connecting, the SSL handshake.
* *Run control*: fork and exec, recovery of lost clone events, `ESRCH` of `tkill()`,
  sampling, system call tracing, steps over lines, ranges and functions, reverse
  execution, locks of single contexts, state names.
* *Breakpoints*: eventpoints, filters by context and query, hit and ignore counts,
  stop groups, hardware attributes, unmapped code, path maps, breakpoints without an
  address, memory errors while planting, memory access through planted
  instructions, timeouts while stopping all threads.
* *Streams*: a read of size 0; handles, which are found or not found; starting,
  listing and attaching processes, pseudo terminals.
* *Discovery*: errors of the socket and the delayed retry, a receive that blocks
  while its socket is replaced, several subnets, peers that change attributes or are
  not announced, packets split by size, time stamps of older versions.
* `event_queue.c` and `timed_event_queue.c`, which nothing calls; the context and
  symbols proxies, which use caches the way the line numbers proxy does.

The reasons are listed by component in `PROJECT.json`.

## Plan

Done, in this order: the event queue and its proofs; the worker pool with the
shutdown manager; the caches; the writing and the reading side of channels; the
protocol; the proxy; run control; breakpoints; the streams service; discovery.

Proved: the event queue, the worker pool with the shutdown manager, the caches, the
reply handlers of the protocol, the pair of channels of a proxy, the output queue and
its refinement of the byte stream. Left, proving: an inductive
invariant for discovery; `RequestsSound` of the streams service and `BooksSound` of run
control, once induction over folds is within the prover's reach. Left, extending: the injected function calls
of `expressions.c` on top of `RunControl` and `Cache`, and servers and connecting on
top of `AsyncReq`.

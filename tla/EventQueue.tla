----------------------------- MODULE EventQueue -----------------------------
(***************************************************************************)
(* The dispatch thread and its event queues: framework/events.c.           *)
(*                                                                         *)
(* One dispatch thread runs run_event_loop() and every event handler.      *)
(* Background threads hand results to it with post_event().  event_queue   *)
(* is touched by the dispatch thread only; timer_queue, free_bg_queue and  *)
(* cancel_handler are shared under event_lock.  Each critical section is   *)
(* one action: what the dispatch thread does to its private data before    *)
(* it takes the lock commutes with everything the other threads do.        *)
(*                                                                         *)
(* Abstractions.  A (handler, arg) pair is one member of Handlers.         *)
(* clock_gettime() is the variable now, a natural number that starts at 1, *)
(* so that runtime 0 marks an event that is not timed (tv_sec == 0), as in *)
(* the code.  The free lists are sets: which free node is taken does not   *)
(* matter.  What a handler does is any sequence of calls of this module.   *)
(***************************************************************************)
EXTENDS Integers, FiniteSets, Sequences, SequencesExt

CONSTANTS
    Buf,        \* the nodes of event_buf[] ({} if !ENABLE_FastMemAlloc)
    Heap,       \* the nodes loc_alloc() can return
    Handlers,   \* (handler, arg) pairs
    Threads,    \* background threads
    Dispatcher, \* the dispatch thread
    NoHandler,  \* cancel_handler == NULL
    NoNode,     \* no event is being dispatched
    Delays,     \* delays passed to post_event_with_delay()
    Batch,      \* untimed events dispatched between two looks at the timers
    MaxTime     \* bound on the clock

Nodes   == Buf \cup Heap
Callers == Threads \cup {Dispatcher}

ASSUME NodeAssumption == Buf \cap Heap = {} /\ NoNode \notin Nodes
ASSUME HandlerAssumption == NoHandler \notin Handlers
ASSUME ThreadAssumption == Dispatcher \notin Threads
ASSUME NumberAssumption == /\ Delays \subseteq Nat
                           /\ Batch \in Nat \ {0}
                           /\ MaxTime \in Nat

Event   == [node : Nodes, handler : Handlers, runtime : Nat]
NoEvent == [node |-> NoNode, handler |-> NoHandler, runtime |-> 0]

VARIABLES
    now,            \* CLOCK_REALTIME
    event_queue,    \* events the dispatch thread handles next
    timer_queue,    \* events ordered by runtime
    free_queue,     \* free nodes of event_buf[], dispatch thread only
    free_bg_queue,  \* free nodes set aside for background threads
    heap,           \* nodes loc_alloc() may return
    cancel_handler, \* the event cancel_event() is waiting for
    process_events, \* cleared by cancel_event_loop()
    event_cnt,      \* untimed events dispatched since the last fetch
    pc,             \* where the dispatch thread is
    cur,            \* the event whose handler is running
    wake_time,      \* time-out of the wait on event_cond, 0 if it has none
    signalled,      \* event_cond was signalled during the wait
    call            \* the post each thread is in the middle of

queues == <<event_queue, timer_queue>>
pools  == <<free_queue, free_bg_queue, heap>>
loop   == <<process_events, event_cnt>>
sleep  == <<wake_time, signalled>>
vars   == <<now, event_queue, timer_queue, free_queue, free_bg_queue, heap,
            cancel_handler, process_events, event_cnt, pc, cur, wake_time,
            signalled, call>>

NoCall == [pc |-> "idle", handler |-> NoHandler, runtime |-> 0]
Call   == {NoCall} \cup [pc : {"work", "post"}, handler : Handlers, runtime : Nat]

-----------------------------------------------------------------------------
(* Helpers.                                                                *)

NodesOf(q) == {q[i].node : i \in 1..Len(q)}

\* k entries at the front of q are due at time t and the next one is not:
\* where the insertion loops and the scan for ready events stop.
DuePrefix(q, t, k) ==
    /\ \A i \in 1..k : q[i].runtime <= t
    /\ k < Len(q) => q[k + 1].runtime > t

\* Position i holds the first event of q that has handler h.
FirstMatch(q, h, i) ==
    /\ q[i].handler = h
    /\ \A j \in 1..(i - 1) : q[j].handler # h

Posted(q, h) == \E i \in 1..Len(q) : q[i].handler = h

\* Some background thread is going to post h.
Owed(h) == \E t \in Threads : call[t].pc # "idle" /\ call[t].handler = h

\* Nothing that cancel_event() could remove: neither queue holds h.
NotPosted(h) == ~Posted(event_queue, h) /\ ~Posted(timer_queue, h)

\* The test at the start of post_from_bg_thread(): cancel_event() is
\* waiting for this very event.
MutSwallows(t) == FALSE
Swallows(t) == cancel_handler = call[t].handler

\* post_from_bg_thread() signals event_cond if the new event, inserted
\* behind k others, became the first one.
MutWakesDispatcher(k) == timer_queue = << >>
WakesDispatcher(k) == k = 0

\* run_event_loop() counts only the events that are not timed.
MutNotCounted(ev) == FALSE
Counted(ev) == ev.runtime = 0

\* post_event() links the new node behind event_last.
Enqueue(q, ev) == Append(q, ev)

\* alloc_event_node, alloc_event_node_bg: the pool first, then the heap.
AllocFrom(pool) == IF pool # {} THEN pool ELSE heap

\* free_event_node: event_buf nodes go back to the dispatch thread's pool.
FreeNode(n) ==
    /\ free_queue' = IF n \in Buf THEN free_queue \cup {n} ELSE free_queue
    /\ heap' = IF n \in Buf THEN heap ELSE heap \cup {n}
    /\ UNCHANGED free_bg_queue

Busy == {t \in Callers : call[t].pc # "idle"}

\* Bound: every post under way finds a node on the heap, so that an
\* allocation never fails (the program exits when one does).
HeapBound == Cardinality(heap) > Cardinality(Busy)

-----------------------------------------------------------------------------
Init ==
    /\ now = 1
    /\ event_queue = << >>
    /\ timer_queue = << >>
    /\ free_queue = Buf
    /\ free_bg_queue = {}
    /\ heap = Heap
    /\ cancel_handler = NoHandler
    /\ process_events = FALSE
    /\ event_cnt = 0
    /\ pc = "code"
    /\ cur = NoEvent
    /\ wake_time = 0
    /\ signalled = FALSE
    /\ call = [t \in Callers |-> NoCall]

Tick ==
    /\ now < MaxTime
    /\ now' = now + 1
    /\ UNCHANGED <<queues, pools, cancel_handler, loop, pc, cur, sleep, call>>

-----------------------------------------------------------------------------
(* Background threads: post_from_bg_thread().                              *)

\* A thread starts the work that ends with posting h.
BgStart(t, h) ==
    /\ call[t] = NoCall
    /\ HeapBound
    /\ call' = [call EXCEPT ![t] = [pc |-> "work", handler |-> h, runtime |-> 0]]
    /\ UNCHANGED <<now, queues, pools, cancel_handler, loop, pc, cur, sleep>>

\* The clock is read before event_lock is taken.
BgReadClock(t, delay) ==
    /\ call[t].pc = "work"
    /\ now + delay <= MaxTime
    /\ call' = [call EXCEPT ![t].pc = "post", ![t].runtime = now + delay]
    /\ UNCHANGED <<now, queues, pools, cancel_handler, loop, pc, cur, sleep>>

\* The event cancel_event() waits for never reaches a queue.
BgSwallow(t) ==
    /\ call[t].pc = "post"
    /\ Swallows(t)
    /\ cancel_handler' = NoHandler
    /\ call' = [call EXCEPT ![t] = NoCall]
    /\ UNCHANGED <<now, queues, pools, loop, pc, cur, sleep>>

BgInsert(t) ==
    /\ call[t].pc = "post"
    /\ ~Swallows(t)
    /\ \E n \in AllocFrom(free_bg_queue), k \in 0..Len(timer_queue) :
         /\ DuePrefix(timer_queue, call[t].runtime, k)
         /\ timer_queue' = InsertAt(timer_queue, k + 1,
                [node |-> n, handler |-> call[t].handler, runtime |-> call[t].runtime])
         /\ signalled' = IF WakesDispatcher(k) /\ pc = "sleep" THEN TRUE ELSE signalled
         /\ free_bg_queue' = free_bg_queue \ {n}
         /\ heap' = heap \ {n}
    /\ call' = [call EXCEPT ![t] = NoCall]
    /\ UNCHANGED <<now, event_queue, free_queue, cancel_handler, loop, pc, cur, wake_time>>

-----------------------------------------------------------------------------
(* Calls made by code that runs on the dispatch thread: initialization     *)
(* before run_event_loop(), and event handlers.                            *)

\* post_event() on the dispatch thread.
PostEvent(h) ==
    /\ pc = "code"
    /\ HeapBound
    /\ \E n \in AllocFrom(free_queue) :
         /\ event_queue' = Enqueue(event_queue, [node |-> n, handler |-> h, runtime |-> 0])
         /\ free_queue' = free_queue \ {n}
         /\ heap' = heap \ {n}
    /\ UNCHANGED <<now, timer_queue, free_bg_queue, cancel_handler, loop, pc, cur, sleep, call>>

\* post_event_with_delay() on the dispatch thread, up to taking event_lock.
PostDelayed(h, delay) ==
    /\ pc = "code"
    /\ HeapBound
    /\ now + delay <= MaxTime
    /\ call' = [call EXCEPT ![Dispatcher] =
                    [pc |-> "post", handler |-> h, runtime |-> now + delay]]
    /\ pc' = "posting"
    /\ UNCHANGED <<now, queues, pools, cancel_handler, loop, cur, sleep>>

\* ... and the rest of it: nobody is waiting on event_cond, so no signal.
InsertDelayed ==
    /\ pc = "posting"
    /\ \E n \in AllocFrom(free_queue), k \in 0..Len(timer_queue) :
         /\ DuePrefix(timer_queue, call[Dispatcher].runtime, k)
         /\ timer_queue' = InsertAt(timer_queue, k + 1,
                [node |-> n, handler |-> call[Dispatcher].handler,
                 runtime |-> call[Dispatcher].runtime])
         /\ free_queue' = free_queue \ {n}
         /\ heap' = heap \ {n}
    /\ call' = [call EXCEPT ![Dispatcher] = NoCall]
    /\ pc' = "code"
    /\ UNCHANGED <<now, event_queue, free_bg_queue, cancel_handler, loop, cur, sleep>>

\* cancel_event(): the first match in event_queue is removed.
CancelQueued(h) ==
    /\ pc = "code"
    /\ \E i \in 1..Len(event_queue) :
         /\ FirstMatch(event_queue, h, i)
         /\ event_queue' = RemoveAt(event_queue, i)
         /\ FreeNode(event_queue[i].node)
    /\ UNCHANGED <<now, timer_queue, cancel_handler, loop, pc, cur, sleep, call>>

\* cancel_event(): otherwise the first match in timer_queue is removed.
CancelTimed(h) ==
    /\ pc = "code"
    /\ ~Posted(event_queue, h)
    /\ \E i \in 1..Len(timer_queue) :
         /\ FirstMatch(timer_queue, h, i)
         /\ timer_queue' = RemoveAt(timer_queue, i)
         /\ FreeNode(timer_queue[i].node)
    /\ UNCHANGED <<now, event_queue, cancel_handler, loop, pc, cur, sleep, call>>

\* cancel_event(..., 1): nothing is posted yet, wait for it.  Callers do
\* this only for the completion of a request that is still running on a
\* background thread (tcp_wait_read, tcp_splice_block_all, ...).
CancelWait(h) ==
    /\ pc = "code"
    /\ NotPosted(h)
    /\ Owed(h)
    /\ cancel_handler' = h
    /\ pc' = "cancelling"
    /\ UNCHANGED <<now, queues, pools, loop, cur, sleep, call>>

\* The wait on cancel_cond ends once post_from_bg_thread() cleared
\* cancel_handler; a spurious wake-up goes back to waiting.
CancelReturn ==
    /\ pc = "cancelling"
    /\ cancel_handler = NoHandler
    /\ pc' = "code"
    /\ UNCHANGED <<now, queues, pools, cancel_handler, loop, cur, sleep, call>>

CancelEventLoop ==
    /\ pc = "code"
    /\ process_events
    /\ process_events' = FALSE
    /\ UNCHANGED <<now, queues, pools, cancel_handler, event_cnt, pc, cur, sleep, call>>

-----------------------------------------------------------------------------
(* run_event_loop()                                                        *)

RunEventLoop ==
    /\ pc = "code"
    /\ cur = NoEvent
    /\ process_events' = TRUE
    /\ event_cnt' = 0
    /\ pc' = "loop"
    /\ UNCHANGED <<now, queues, pools, cancel_handler, cur, sleep, call>>

\* tick: events_timer_ms moved on by 100 or more (optional in an agent).
NeedFetch(tick) ==
    \/ event_queue = << >>
    \/ event_cnt >= Batch
    \/ event_cnt >= 1 /\ tick

\* The refill of the background pool: until it holds two nodes.
MutRefill ==
    \E n \in free_queue : /\ free_bg_queue' = free_bg_queue \cup {n}
                          /\ UNCHANGED free_queue
Refill ==
    \E S \in SUBSET free_queue :
        /\ \/ S = free_queue /\ Cardinality(free_bg_queue \cup S) <= 2
           \/ S = {} /\ Cardinality(free_bg_queue) >= 2
           \/ Cardinality(free_bg_queue \cup S) = 2
        /\ free_queue' = free_queue \ S
        /\ free_bg_queue' = free_bg_queue \cup S

\* One pass of the loop over timer_queue: the ready events move to the
\* front of event_queue; with nothing to do at all the thread goes to sleep.
Fetch ==
    \/ \E k \in 1..Len(timer_queue) :
         /\ DuePrefix(timer_queue, now, k)
         /\ event_queue' = SubSeq(timer_queue, 1, k) \o event_queue
         /\ timer_queue' = SubSeq(timer_queue, k + 1, Len(timer_queue))
         /\ pc' = "dispatch"
         /\ UNCHANGED sleep
    \/ /\ DuePrefix(timer_queue, now, 0)
       /\ event_queue # << >>
       /\ pc' = "dispatch"
       /\ UNCHANGED <<queues, sleep>>
    \/ /\ DuePrefix(timer_queue, now, 0)
       /\ event_queue = << >>
       /\ pc' = "sleep"
       /\ wake_time' = IF timer_queue = << >> THEN 0 ELSE timer_queue[1].runtime
       /\ signalled' = FALSE
       /\ UNCHANGED queues

LoopFetch ==
    /\ pc = "loop"
    /\ process_events
    /\ \E tick \in BOOLEAN : NeedFetch(tick)
    /\ event_cnt' = 0
    /\ Refill
    /\ Fetch
    /\ UNCHANGED <<now, heap, cancel_handler, process_events, cur, call>>

LoopNoFetch ==
    /\ pc = "loop"
    /\ process_events
    /\ \E tick \in BOOLEAN : ~NeedFetch(tick)
    /\ pc' = "dispatch"
    /\ UNCHANGED <<now, queues, pools, cancel_handler, loop, cur, sleep, call>>

\* pthread_cond_timedwait() or pthread_cond_wait() returns ...
Wake ==
    /\ pc = "sleep"
    /\ signalled \/ (wake_time # 0 /\ wake_time <= now)
    /\ Fetch
    /\ UNCHANGED <<now, pools, cancel_handler, loop, cur, call>>

\* ... or returns for no reason, as POSIX allows.
SpuriousWake ==
    /\ pc = "sleep"
    /\ Fetch
    /\ UNCHANGED <<now, pools, cancel_handler, loop, cur, call>>

Dispatch ==
    /\ pc = "dispatch"
    /\ cur' = Head(event_queue)
    /\ event_queue' = Tail(event_queue)
    /\ event_cnt' = IF Counted(Head(event_queue)) THEN event_cnt + 1 ELSE event_cnt
    /\ pc' = "code"
    /\ UNCHANGED <<now, timer_queue, pools, cancel_handler, process_events, sleep, call>>

\* The handler returned: the node is freed only now.
HandlerReturn ==
    /\ pc = "code"
    /\ cur # NoEvent
    /\ FreeNode(cur.node)
    /\ cur' = NoEvent
    /\ pc' = "loop"
    /\ UNCHANGED <<now, queues, cancel_handler, loop, sleep, call>>

LoopExit ==
    /\ pc = "loop"
    /\ ~process_events
    /\ pc' = "exit"
    /\ UNCHANGED <<now, queues, pools, cancel_handler, loop, cur, sleep, call>>

-----------------------------------------------------------------------------
BgNext(t) ==
    \/ \E h \in Handlers : BgStart(t, h)
    \/ \E d \in Delays : BgReadClock(t, d)
    \/ BgSwallow(t)
    \/ BgInsert(t)

Next ==
    \/ Tick
    \/ \E t \in Threads : BgNext(t)
    \/ \E h \in Handlers :
         \/ PostEvent(h)
         \/ \E d \in Delays : PostDelayed(h, d)
         \/ CancelQueued(h)
         \/ CancelTimed(h)
         \/ CancelWait(h)
    \/ InsertDelayed
    \/ CancelReturn
    \/ CancelEventLoop
    \/ RunEventLoop
    \/ LoopFetch
    \/ LoopNoFetch
    \/ Wake
    \/ SpuriousWake
    \/ Dispatch
    \/ HandlerReturn
    \/ LoopExit

\* The dispatch thread and the background threads keep running, every
\* handler returns after finitely many calls, and time passes.
Fairness ==
    /\ WF_vars(Tick)
    /\ WF_vars(InsertDelayed)
    /\ WF_vars(CancelReturn)
    /\ WF_vars(LoopFetch \/ LoopNoFetch \/ LoopExit)
    /\ WF_vars(Wake)
    /\ WF_vars(Dispatch)
    /\ SF_vars(RunEventLoop \/ HandlerReturn)
    /\ \A t \in Threads : /\ WF_vars(\E d \in Delays : BgReadClock(t, d))
                          /\ WF_vars(BgSwallow(t) \/ BgInsert(t))

Spec == Init /\ [][Next]_vars
FairSpec == Spec /\ Fairness
-----------------------------------------------------------------------------
(* Correctness.                                                            *)

TypeOK ==
    /\ now \in Nat \ {0}
    /\ event_queue \in Seq(Event)
    /\ timer_queue \in Seq(Event)
    /\ free_queue \in SUBSET Buf
    /\ free_bg_queue \in SUBSET Buf
    /\ heap \in SUBSET Heap
    /\ cancel_handler \in Handlers \cup {NoHandler}
    /\ process_events \in BOOLEAN
    /\ event_cnt \in Nat
    /\ pc \in {"code", "posting", "cancelling", "loop", "sleep", "dispatch", "exit"}
    /\ cur \in Event \cup {NoEvent}
    /\ wake_time \in Nat
    /\ signalled \in BOOLEAN
    /\ call \in [Callers -> Call]

\* An event is in one place at a time, once: no node is queued twice, or
\* queued while it is free, or given back while its handler still runs, and
\* none is lost (the alloc/free macros, the moves between the lists).
Distinct(q) == \A i, j \in 1..Len(q) : q[i].node = q[j].node => i = j

NodeOwnership ==
    LET places == <<free_queue, free_bg_queue, heap, NodesOf(event_queue),
                    NodesOf(timer_queue), {cur.node} \ {NoNode}>>
    IN  /\ Distinct(event_queue)
        /\ Distinct(timer_queue)
        /\ \A i, j \in 1..6 : i # j => places[i] \cap places[j] = {}
        /\ UNION {places[i] : i \in 1..6} = Nodes

\* The dispatch thread never sleeps past work: while it waits on event_cond
\* event_queue is empty, and unless it was signalled its time-out is no later
\* than the first timer (post_from_bg_thread() signals for a new head only).
NoLostWakeup ==
    pc = "sleep" =>
        /\ event_queue = << >>
        /\ ~signalled /\ timer_queue # << >> =>
               wake_time # 0 /\ wake_time <= timer_queue[1].runtime

\* run_event_loop() may take the head of event_queue without a test.
DispatchHasWork == pc = "dispatch" => event_queue # << >>

\* cancel_event(..., 1) waits only while the event is still to come: it is
\* in no queue, where the handler would be called after cancel_event()
\* returned, and a background thread is still going to post it.
CancelWaitSafe ==
    cancel_handler # NoHandler =>
        /\ pc = "cancelling"
        /\ NotPosted(cancel_handler)
        /\ Owed(cancel_handler)

\* Ready timed events run before the untimed ones, in order of their time
\* and never early, and a batch is finished before the next one is fetched:
\* once an untimed event was counted no timed one is left in event_queue.
\* timer_queue is ordered too, although threads read the clock before they
\* take event_lock and may insert in another order.
Sorted(q) == \A i, j \in 1..Len(q) : i < j => q[i].runtime <= q[j].runtime
DispatchOrder ==
    /\ Sorted(timer_queue)
    /\ \A i \in 1..Len(event_queue) : event_queue[i].runtime <= now
    /\ \A i, j \in 1..Len(event_queue) :
          i < j /\ event_queue[j].runtime # 0 =>
              event_queue[i].runtime # 0 /\ event_queue[i].runtime <= event_queue[j].runtime
    /\ event_cnt # 0 => \A i \in 1..Len(event_queue) : event_queue[i].runtime = 0

\* The queues hold every event once and in the order in which it is to run.
QueuesSound == NodeOwnership /\ DispatchOrder

\* No posted event starves, whoever posted it, even if handlers and
\* threads go on posting for ever: its handler is called or it is cancelled,
\* unless the loop is cancelled.  And cancel_event(..., 1) returns.
Pending == NodesOf(event_queue) \cup NodesOf(timer_queue)
CancelReturns == pc = "cancelling" ~> pc # "cancelling"
EveryEventHandled ==
    /\ \A n \in Nodes : n \in Pending ~> (n \notin Pending \/ pc = "exit")
    /\ CancelReturns
=============================================================================

-------------------------- MODULE EventQueueProofs --------------------------
(* Proofs about EventQueue, for every set of nodes, handlers and threads,   *)
(* every batch size and every bound on the clock.                           *)
EXTENDS EventQueue, ListLemmas, TLAPS

-----------------------------------------------------------------------------
(* Types.  The inductive invariant also says that a delayed post holds the  *)
(* event it is going to insert, and that the loop takes the head of         *)
(* event_queue only if there is one.                                        *)

PostingHoldsEvent == pc = "posting" => call[Dispatcher].pc = "post"

TypeInv == TypeOK /\ PostingHoldsEvent /\ DispatchHasWork

USE DEF Callers, Nodes

\* A call that is under way names a handler.
LEMMA CallFacts ==
    ASSUME TypeOK, NEW t \in Callers, call[t].pc # "idle"
    PROVE  /\ call[t] \in [pc : {"work", "post"}, handler : Handlers, runtime : Nat]
           /\ call[t].handler \in Handlers
           /\ call[t].runtime \in Nat
  BY DEF TypeOK, Call, NoCall

\* A queued event is a complete one.
LEMMA EntryFacts ==
    ASSUME NEW q \in Seq(Event), NEW i \in 1..Len(q)
    PROVE  /\ q[i] \in Event
           /\ q[i].node \in Nodes
           /\ q[i].handler \in Handlers
           /\ q[i].runtime \in Nat
<1>1. q[i] \in Event
  OBVIOUS
<1> QED BY <1>1 DEF Event

\* free_event_node keeps the pools in their types.
LEMMA FreeNodeTypes ==
    ASSUME TypeOK, NEW n \in Nodes, FreeNode(n)
    PROVE  free_queue' \in SUBSET Buf /\ free_bg_queue' \in SUBSET Buf /\ heap' \in SUBSET Heap
  BY DEF TypeOK, FreeNode

\* A pass over timer_queue keeps the types and finds work or sleeps.
LEMMA FetchTypes ==
    ASSUME TypeOK, Fetch
    PROVE  /\ event_queue' \in Seq(Event)
           /\ timer_queue' \in Seq(Event)
           /\ pc' \in {"dispatch", "sleep"}
           /\ pc' = "dispatch" => event_queue' # << >>
           /\ wake_time' \in Nat
           /\ signalled' \in BOOLEAN
<1>1. CASE \E k \in 1..Len(timer_queue) :
             /\ event_queue' = SubSeq(timer_queue, 1, k) \o event_queue
             /\ timer_queue' = SubSeq(timer_queue, k + 1, Len(timer_queue))
             /\ pc' = "dispatch"
             /\ UNCHANGED sleep
  <2>1. PICK k \in 1..Len(timer_queue) :
             /\ event_queue' = SubSeq(timer_queue, 1, k) \o event_queue
             /\ timer_queue' = SubSeq(timer_queue, k + 1, Len(timer_queue))
             /\ pc' = "dispatch"
             /\ UNCHANGED sleep
    BY <1>1
  <2>a. event_queue \in Seq(Event) /\ timer_queue \in Seq(Event)
    BY DEF TypeOK
  <2>b. /\ event_queue' \in Seq(Event)
        /\ timer_queue' \in Seq(Event)
        /\ Splices(event_queue', timer_queue', timer_queue, event_queue, k)
    BY <2>1, <2>a, SubSeqSplices
  <2>2. /\ event_queue' \in Seq(Event)
        /\ timer_queue' \in Seq(Event)
        /\ Len(event_queue') = k + Len(event_queue)
    BY <2>b DEF Splices
  <2>3. event_queue' # << >>
    BY <2>2 DEF TypeOK
  <2> QED BY <2>1, <2>2, <2>3 DEF TypeOK, sleep
<1>2. CASE event_queue # << >> /\ pc' = "dispatch" /\ UNCHANGED <<queues, sleep>>
  BY <1>2 DEF TypeOK, queues, sleep
<1>3. CASE /\ event_queue = << >>
           /\ pc' = "sleep"
           /\ wake_time' = IF timer_queue = << >> THEN 0 ELSE timer_queue[1].runtime
           /\ signalled' = FALSE
           /\ UNCHANGED queues
  <2>1. timer_queue # << >> => timer_queue[1] \in Event
    BY DEF TypeOK
  <2>2. timer_queue # << >> => timer_queue[1].runtime \in Nat
    BY <2>1 DEF Event
  <2> QED BY <1>3, <2>2 DEF TypeOK, queues
<1> QED BY <1>1, <1>2, <1>3 DEF Fetch

\* The types hold at the start.
LEMMA TypeInit == Init => TypeInv
<1> SUFFICES ASSUME Init
             PROVE  TypeInv
  OBVIOUS
<1>1. call \in [Callers -> Call]
  BY DEF Init, Call
<1>2. event_queue \in Seq(Event) /\ timer_queue \in Seq(Event)
  BY DEF Init
<1>3. now \in Nat \ {0} /\ event_cnt \in Nat /\ wake_time \in Nat
  BY DEF Init
<1>6. process_events \in BOOLEAN /\ signalled \in BOOLEAN
  BY Zenon DEF Init
<1>4. /\ free_queue \in SUBSET Buf /\ free_bg_queue \in SUBSET Buf /\ heap \in SUBSET Heap
      /\ cancel_handler \in Handlers \cup {NoHandler} /\ cur \in Event \cup {NoEvent}
  BY DEF Init
<1>5. pc = "code"
  BY DEF Init
<1> QED BY <1>1, <1>2, <1>3, <1>4, <1>5, <1>6 DEF TypeInv, TypeOK, PostingHoldsEvent, DispatchHasWork

\* Every handler and every part of the loop keeps them.
LEMMA TypeStep == TypeInv /\ [Next]_vars => TypeInv'
<1> SUFFICES ASSUME TypeInv, [Next]_vars
             PROVE  TypeInv'
  OBVIOUS
<1> USE DEF TypeInv, PostingHoldsEvent, DispatchHasWork
<1>1. CASE Tick
  BY <1>1 DEF Tick, TypeOK, queues, pools, loop, sleep
<1>2. ASSUME NEW t \in Threads, NEW h \in Handlers, BgStart(t, h)
      PROVE  TypeInv'
  <2>1. call' \in [Callers -> Call]
    BY <1>2 DEF BgStart, TypeOK, Call
  <2> QED BY <1>2, <2>1, ThreadAssumption DEF BgStart, TypeOK, queues, pools, loop, sleep
<1>3. ASSUME NEW t \in Threads, NEW d \in Delays, BgReadClock(t, d)
      PROVE  TypeInv'
  <2>1. now + d \in Nat
    BY NumberAssumption DEF TypeOK
  <2>2. call[t] \in [pc : {"work", "post"}, handler : Handlers, runtime : Nat]
    BY <1>3, CallFacts DEF BgReadClock
  <2>3. call' \in [Callers -> Call]
    BY <1>3, <2>1, <2>2 DEF BgReadClock, TypeOK, Call
  <2> QED BY <1>3, <2>3, ThreadAssumption DEF BgReadClock, TypeOK, queues, pools, loop, sleep
<1>4. ASSUME NEW t \in Threads, BgSwallow(t)
      PROVE  TypeInv'
  <2>1. call' \in [Callers -> Call]
    BY <1>4 DEF BgSwallow, TypeOK, Call
  <2> QED BY <1>4, <2>1, ThreadAssumption DEF BgSwallow, TypeOK, queues, pools, loop, sleep
<1>5. ASSUME NEW t \in Threads, BgInsert(t)
      PROVE  TypeInv'
  <2>1. PICK n \in AllocFrom(free_bg_queue), k \in 0..Len(timer_queue) :
          /\ timer_queue' = InsertAt(timer_queue, k + 1,
                [node |-> n, handler |-> call[t].handler, runtime |-> call[t].runtime])
          /\ signalled' = IF WakesDispatcher(k) /\ pc = "sleep" THEN TRUE ELSE signalled
          /\ free_bg_queue' = free_bg_queue \ {n}
          /\ heap' = heap \ {n}
    BY <1>5 DEF BgInsert
  <2>2. call[t].handler \in Handlers /\ call[t].runtime \in Nat
    BY <1>5, CallFacts DEF BgInsert
  <2>3. n \in Nodes
    BY DEF AllocFrom, TypeOK
  <2>4. [node |-> n, handler |-> call[t].handler, runtime |-> call[t].runtime] \in Event
    BY <2>2, <2>3 DEF Event
  <2>5. timer_queue' \in Seq(Event)
    BY <2>1, <2>4, InsertAtInserts DEF TypeOK
  <2>6. call' \in [Callers -> Call]
    BY <1>5 DEF BgInsert, TypeOK, Call
  <2> QED BY <1>5, <2>1, <2>5, <2>6, ThreadAssumption DEF BgInsert, TypeOK, loop
<1>6. ASSUME NEW h \in Handlers, PostEvent(h)
      PROVE  TypeInv'
  <2>1. PICK n \in AllocFrom(free_queue) :
          /\ event_queue' = Append(event_queue, [node |-> n, handler |-> h, runtime |-> 0])
          /\ free_queue' = free_queue \ {n}
          /\ heap' = heap \ {n}
    BY <1>6 DEF PostEvent, Enqueue
  <2>2. n \in Nodes
    BY DEF AllocFrom, TypeOK
  <2>3. [node |-> n, handler |-> h, runtime |-> 0] \in Event
    BY <2>2 DEF Event
  <2>4. event_queue' \in Seq(Event)
    BY <2>1, <2>3 DEF TypeOK
  <2> QED BY <1>6, <2>1, <2>4 DEF PostEvent, TypeOK, loop, sleep
<1>7. ASSUME NEW h \in Handlers, NEW d \in Delays, PostDelayed(h, d)
      PROVE  TypeInv'
  <2>1. now + d \in Nat
    BY NumberAssumption DEF TypeOK
  <2>2. call' \in [Callers -> Call] /\ call'[Dispatcher].pc = "post"
    BY <1>7, <2>1 DEF PostDelayed, TypeOK, Call
  <2> QED BY <1>7, <2>2 DEF PostDelayed, TypeOK, queues, pools, loop, sleep
<1>8. CASE InsertDelayed
  <2> DEFINE c == call[Dispatcher]
  <2>1. PICK n \in AllocFrom(free_queue), k \in 0..Len(timer_queue) :
          /\ timer_queue' = InsertAt(timer_queue, k + 1,
                [node |-> n, handler |-> c.handler, runtime |-> c.runtime])
          /\ free_queue' = free_queue \ {n}
          /\ heap' = heap \ {n}
    BY <1>8 DEF InsertDelayed
  <2>2. c.handler \in Handlers /\ c.runtime \in Nat
    BY <1>8, CallFacts DEF InsertDelayed
  <2>3. n \in Nodes
    BY DEF AllocFrom, TypeOK
  <2>4. [node |-> n, handler |-> c.handler, runtime |-> c.runtime] \in Event
    BY <2>2, <2>3 DEF Event
  <2>5. timer_queue' \in Seq(Event)
    BY <2>1, <2>4, InsertAtInserts DEF TypeOK
  <2>6. call' \in [Callers -> Call]
    BY <1>8 DEF InsertDelayed, TypeOK, Call
  <2> QED BY <1>8, <2>1, <2>5, <2>6 DEF InsertDelayed, TypeOK, loop, sleep
<1>9. ASSUME NEW h \in Handlers, CancelQueued(h)
      PROVE  TypeInv'
  <2>1. PICK i \in 1..Len(event_queue) : /\ event_queue' = RemoveAt(event_queue, i)
                                         /\ FreeNode(event_queue[i].node)
    BY <1>9 DEF CancelQueued
  <2>2. event_queue' \in Seq(Event)
    BY <2>1, RemoveAtRemoves DEF TypeOK
  <2>3. event_queue[i].node \in Nodes
    BY EntryFacts DEF TypeOK
  <2>4. free_queue' \in SUBSET Buf /\ free_bg_queue' \in SUBSET Buf /\ heap' \in SUBSET Heap
    BY <2>1, <2>3, FreeNodeTypes
  <2> QED BY <1>9, <2>2, <2>4 DEF CancelQueued, TypeOK, loop, sleep
<1>10. ASSUME NEW h \in Handlers, CancelTimed(h)
       PROVE  TypeInv'
  <2>1. PICK i \in 1..Len(timer_queue) : /\ timer_queue' = RemoveAt(timer_queue, i)
                                         /\ FreeNode(timer_queue[i].node)
    BY <1>10 DEF CancelTimed
  <2>2. timer_queue' \in Seq(Event)
    BY <2>1, RemoveAtRemoves DEF TypeOK
  <2>3. timer_queue[i].node \in Nodes
    BY EntryFacts DEF TypeOK
  <2>4. free_queue' \in SUBSET Buf /\ free_bg_queue' \in SUBSET Buf /\ heap' \in SUBSET Heap
    BY <2>1, <2>3, FreeNodeTypes
  <2> QED BY <1>10, <2>2, <2>4 DEF CancelTimed, TypeOK, loop, sleep
<1>11. ASSUME NEW h \in Handlers, CancelWait(h)
       PROVE  TypeInv'
  BY <1>11 DEF CancelWait, TypeOK, queues, pools, loop, sleep
<1>12. CASE CancelReturn
  BY <1>12 DEF CancelReturn, TypeOK, queues, pools, loop, sleep
<1>13. CASE CancelEventLoop
  BY <1>13 DEF CancelEventLoop, TypeOK, queues, pools, sleep
<1>14. CASE RunEventLoop
  BY <1>14 DEF RunEventLoop, TypeOK, queues, pools, sleep
<1>15. CASE LoopFetch
  <2>1. free_queue' \in SUBSET Buf /\ free_bg_queue' \in SUBSET Buf
    BY <1>15 DEF LoopFetch, Refill, TypeOK
  <2> QED BY <1>15, <2>1, FetchTypes DEF LoopFetch, TypeOK
<1>16. CASE LoopNoFetch
  BY <1>16 DEF LoopNoFetch, NeedFetch, TypeOK, queues, pools, loop, sleep
<1>17. CASE Wake \/ SpuriousWake
  BY <1>17, FetchTypes DEF Wake, SpuriousWake, TypeOK, pools, loop
<1>18. CASE Dispatch
  <2>1. Head(event_queue) \in Event /\ Tail(event_queue) \in Seq(Event)
    BY <1>18 DEF Dispatch, TypeOK
  <2> QED BY <1>18, <2>1 DEF Dispatch, TypeOK, pools, sleep
<1>19. CASE HandlerReturn
  <2>1. cur.node \in Nodes
    BY <1>19 DEF HandlerReturn, TypeOK, Event
  <2>2. free_queue' \in SUBSET Buf /\ free_bg_queue' \in SUBSET Buf /\ heap' \in SUBSET Heap
    BY <1>19, <2>1, FreeNodeTypes DEF HandlerReturn
  <2> QED BY <1>19, <2>2 DEF HandlerReturn, TypeOK, queues, loop, sleep
<1>20. CASE LoopExit
  BY <1>20 DEF LoopExit, TypeOK, queues, pools, loop, sleep
<1>21. CASE UNCHANGED vars
  BY <1>21 DEF vars, TypeOK
<1> QED BY <1>1, <1>2, <1>3, <1>4, <1>5, <1>6, <1>7, <1>8, <1>9, <1>10, <1>11, <1>12,
           <1>13, <1>14, <1>15, <1>16, <1>17, <1>18, <1>19, <1>20, <1>21 DEF Next, BgNext

\* Every variable of events.c keeps its type, and run_event_loop() never
\* takes the head of an empty event_queue.
THEOREM TypeCorrect == Spec => [](TypeOK /\ DispatchHasWork)
<1>1. TypeInv => TypeOK /\ DispatchHasWork
  BY DEF TypeInv
<1> QED BY <1>1, TypeInit, TypeStep, PTL DEF Spec

-----------------------------------------------------------------------------
(* No lost wake-up.  NoLostWakeup is inductive on top of the types: only    *)
(* post_from_bg_thread() can change timer_queue while the dispatch thread   *)
(* sleeps, and it leaves the first entry alone unless it signals.           *)

\* Going to sleep establishes the invariant.
LEMMA FetchSleeps ==
    ASSUME TypeOK, Fetch, pc' = "sleep"
    PROVE  NoLostWakeup'
<1>1. /\ DuePrefix(timer_queue, now, 0)
      /\ event_queue = << >>
      /\ wake_time' = IF timer_queue = << >> THEN 0 ELSE timer_queue[1].runtime
      /\ UNCHANGED queues
  BY DEF Fetch
<1>2. CASE timer_queue = << >>
  BY <1>1, <1>2 DEF NoLostWakeup, queues
<1>3. CASE timer_queue # << >>
  <2>1. 1 \in 1..Len(timer_queue) /\ 0 < Len(timer_queue)
    BY <1>3 DEF TypeOK
  <2>2. timer_queue[1].runtime \in Nat
    BY <2>1, EntryFacts DEF TypeOK
  <2>3. timer_queue[0 + 1].runtime > now
    BY <1>1, <2>1 DEF DuePrefix
  <2>4. timer_queue[1].runtime # 0 /\ timer_queue[1].runtime <= timer_queue[1].runtime
    BY <2>2, <2>3 DEF TypeOK
  <2> QED BY <1>1, <1>3, <2>4 DEF NoLostWakeup, queues
<1> QED BY <1>2, <1>3

\* A background post while the dispatch thread sleeps.
LEMMA BgInsertWakes ==
    ASSUME TypeOK, NoLostWakeup, NEW t \in Threads, BgInsert(t)
    PROVE  NoLostWakeup'
<1>1. PICK n \in AllocFrom(free_bg_queue), k \in 0..Len(timer_queue) :
          /\ timer_queue' = InsertAt(timer_queue, k + 1,
                [node |-> n, handler |-> call[t].handler, runtime |-> call[t].runtime])
          /\ signalled' = IF k = 0 /\ pc = "sleep" THEN TRUE ELSE signalled
  BY DEF BgInsert, WakesDispatcher
<1>2. event_queue' = event_queue /\ pc' = pc /\ wake_time' = wake_time
  BY DEF BgInsert
<1>3. SUFFICES ASSUME pc = "sleep", ~signalled'
               PROVE  wake_time # 0 /\ wake_time <= timer_queue'[1].runtime
  BY <1>2 DEF NoLostWakeup
<1>4. k # 0 /\ ~signalled
  BY <1>1, <1>3
<1>5. timer_queue # << >>
  BY <1>4 DEF TypeOK
<1>6. call[t].handler \in Handlers /\ call[t].runtime \in Nat /\ n \in Nodes
  BY CallFacts DEF BgInsert, AllocFrom, TypeOK
<1>7. [node |-> n, handler |-> call[t].handler, runtime |-> call[t].runtime] \in Event
  BY <1>6 DEF Event
<1>8. 1 \in 1..(Len(timer_queue) + 1) /\ 1 <= k
  BY <1>4 DEF TypeOK
<1>9. timer_queue'[1] = timer_queue[1]
  <2>1. Inserted(timer_queue', timer_queue, k,
                [node |-> n, handler |-> call[t].handler, runtime |-> call[t].runtime])
    BY <1>1, <1>7, InsertAtInserts DEF TypeOK
  <2> QED BY <1>8, <2>1 DEF Inserted
<1> QED BY <1>3, <1>4, <1>5, <1>9 DEF NoLostWakeup

\* NoLostWakeup holds at every moment: the dispatch thread never sleeps
\* past an event that post_event() or post_event_with_delay() queued.
THEOREM WakeupCorrect == Spec => []NoLostWakeup
<1>1. Init => NoLostWakeup
  BY DEF Init, NoLostWakeup
<1>2. TypeInv /\ NoLostWakeup /\ [Next]_vars => NoLostWakeup'
  <2> SUFFICES ASSUME TypeInv, NoLostWakeup, [Next]_vars
               PROVE  NoLostWakeup'
    OBVIOUS
  <2>1. TypeOK
    BY DEF TypeInv
  <2>2. CASE \E t \in Threads : BgInsert(t)
    BY <2>1, <2>2, BgInsertWakes
  <2>3. CASE \E t \in Threads : \/ \E h \in Handlers : BgStart(t, h)
                                \/ \E d \in Delays : BgReadClock(t, d)
                                \/ BgSwallow(t)
    BY <2>3 DEF NoLostWakeup, BgStart, BgReadClock, BgSwallow, queues, sleep
  <2>4. CASE LoopFetch \/ Wake \/ SpuriousWake
    <3>1. Fetch
      BY <2>4 DEF LoopFetch, Wake, SpuriousWake
    <3>2. pc' \in {"dispatch", "sleep"}
      BY <2>1, <3>1, FetchTypes
    <3> QED BY <2>1, <3>1, <3>2, FetchSleeps DEF NoLostWakeup
  <2>5. CASE Tick \/ UNCHANGED vars
    BY <2>5 DEF Tick, NoLostWakeup, vars, queues, sleep
  <2>6. CASE /\ pc' # "sleep"
    BY <2>6 DEF NoLostWakeup
  <2>7. (\E h \in Handlers : \/ PostEvent(h) \/ \E d \in Delays : PostDelayed(h, d)
                             \/ CancelQueued(h) \/ CancelTimed(h) \/ CancelWait(h))
        => pc' # "sleep"
    BY DEF PostEvent, PostDelayed, CancelQueued, CancelTimed, CancelWait
  <2>8. InsertDelayed \/ CancelReturn \/ CancelEventLoop \/ RunEventLoop \/ LoopNoFetch
          \/ Dispatch \/ HandlerReturn \/ LoopExit => pc' # "sleep"
    BY DEF InsertDelayed, CancelReturn, CancelEventLoop, RunEventLoop, LoopNoFetch,
           Dispatch, HandlerReturn, LoopExit
  <2> QED BY <2>2, <2>3, <2>4, <2>5, <2>6, <2>7, <2>8 DEF Next, BgNext
<1> QED BY <1>1, <1>2, TypeInit, TypeStep, PTL DEF Spec

-----------------------------------------------------------------------------
(* cancel_event(..., 1).  Inductive on top of the types.                    *)

\* cancel_event(..., 1) waits only while the event is still to come.
THEOREM CancelCorrect == Spec => []CancelWaitSafe
<1>1. Init => CancelWaitSafe
  BY DEF Init, CancelWaitSafe
<1>2. TypeInv /\ CancelWaitSafe /\ [Next]_vars => CancelWaitSafe'
  <2> SUFFICES ASSUME TypeInv, CancelWaitSafe, [Next]_vars, cancel_handler' # NoHandler
               PROVE  /\ pc' = "cancelling"
                      /\ NotPosted(cancel_handler)'
                      /\ Owed(cancel_handler)'
    BY DEF CancelWaitSafe
  <2> DEFINE ch == cancel_handler
  <2>1. TypeOK
    BY DEF TypeInv
  <2>2. CASE \E h \in Handlers : CancelWait(h)
    <3>1. PICK h \in Handlers : CancelWait(h)
      BY <2>2
    <3>2. /\ cancel_handler' = h /\ pc' = "cancelling"
          /\ UNCHANGED <<event_queue, timer_queue, call>>
          /\ NotPosted(h) /\ Owed(h)
      BY <3>1 DEF CancelWait, queues
    <3> QED BY <3>2 DEF NotPosted, Posted, Owed
  <2>3. CASE ~ \E h \in Handlers : CancelWait(h)
    <3>1. cancel_handler' = ch
      BY <2>3 DEF Next, BgNext, vars, Tick, BgStart, BgReadClock, BgSwallow, BgInsert,
         PostEvent, PostDelayed, InsertDelayed, CancelQueued, CancelTimed, CancelReturn,
         CancelEventLoop, RunEventLoop, LoopFetch, LoopNoFetch, Wake, SpuriousWake,
         Dispatch, HandlerReturn, LoopExit
    <3>2. pc = "cancelling" /\ NotPosted(ch) /\ Owed(ch) /\ ch # NoHandler
      BY <3>1 DEF CancelWaitSafe
    <3>3. \/ Tick
          \/ UNCHANGED vars
          \/ \E t \in Threads : \/ \E h \in Handlers : BgStart(t, h)
                                \/ \E d \in Delays : BgReadClock(t, d)
                                \/ BgInsert(t)
      BY <3>1, <3>2, <2>3 DEF Next, BgNext, BgSwallow,
         PostEvent, PostDelayed, InsertDelayed, CancelQueued, CancelTimed, CancelReturn,
         CancelEventLoop, RunEventLoop, LoopFetch, LoopNoFetch, Wake, SpuriousWake,
         Dispatch, HandlerReturn, LoopExit
    <3>4. CASE Tick \/ UNCHANGED vars
      BY <3>1, <3>2, <3>4 DEF Tick, vars, queues, NotPosted, Posted, Owed
    <3>5. CASE \E t \in Threads : \/ \E h \in Handlers : BgStart(t, h)
                                  \/ \E d \in Delays : BgReadClock(t, d)
      <4>1. PICK t \in Threads : \/ \E h \in Handlers : BgStart(t, h)
                                 \/ \E d \in Delays : BgReadClock(t, d)
        BY <3>5
      <4>2. \A u \in Threads : call[u].pc # "idle" =>
                call'[u].pc # "idle" /\ call'[u].handler = call[u].handler
        <5>1. call \in [Callers -> Call] /\ t \in Callers /\ Threads \subseteq Callers
          BY <2>1 DEF TypeOK, Callers
        <5>2. CASE \E h \in Handlers : BgStart(t, h)
          <6>1. PICK h \in Handlers : BgStart(t, h)
            BY <5>2
          <6>2. call[t].pc = "idle"
            BY <6>1 DEF BgStart, NoCall
          <6>3. \A u \in Threads \ {t} : call'[u] = call[u]
            BY <5>1, <6>1 DEF BgStart
          <6> QED BY <6>2, <6>3
        <5>3. CASE \E d \in Delays : BgReadClock(t, d)
          <6>1. PICK d \in Delays : BgReadClock(t, d)
            BY <5>3
          <6>2. call[t] \in [pc : {"work", "post"}, handler : Handlers, runtime : Nat]
            BY <5>1, <6>1 DEF BgReadClock, Call, NoCall
          <6>3. call'[t] = [call[t] EXCEPT !.pc = "post", !.runtime = now + d]
            BY <5>1, <6>1 DEF BgReadClock
          <6>4. call'[t].pc = "post" /\ call'[t].handler = call[t].handler
            BY <6>2, <6>3
          <6>5. \A u \in Threads \ {t} : call'[u] = call[u]
            BY <5>1, <6>1 DEF BgReadClock
          <6> QED BY <6>4, <6>5
        <5> QED BY <4>1, <5>2, <5>3
      <4>3. pc' = pc /\ event_queue' = event_queue /\ timer_queue' = timer_queue
        BY <4>1 DEF BgStart, BgReadClock, queues
      <4> QED BY <3>1, <3>2, <4>2, <4>3 DEF NotPosted, Posted, Owed
    <3>6. CASE \E t \in Threads : BgInsert(t)
      <4>1. PICK t \in Threads : BgInsert(t)
        BY <3>6
      <4>2. PICK n \in AllocFrom(free_bg_queue), k \in 0..Len(timer_queue) :
              timer_queue' = InsertAt(timer_queue, k + 1,
                [node |-> n, handler |-> call[t].handler, runtime |-> call[t].runtime])
        BY <4>1 DEF BgInsert
      <4>3. call[t].handler \in Handlers /\ call[t].runtime \in Nat /\ n \in Nodes
        BY <2>1, <4>1, CallFacts DEF BgInsert, AllocFrom, TypeOK
      <4> DEFINE e == [node |-> n, handler |-> call[t].handler, runtime |-> call[t].runtime]
      <4>4. e \in Event
        BY <4>3 DEF Event
      <4>5. e.handler # ch
        BY <4>1 DEF BgInsert, Swallows
      <4> HIDE DEF e
      <4>6. timer_queue' = InsertAt(timer_queue, k + 1, e)
        BY <4>2 DEF e
      <4>7. ASSUME NEW i \in 1..Len(timer_queue')
            PROVE  timer_queue'[i].handler # ch
        <5>1. timer_queue'[i] = e \/ \E j \in 1..Len(timer_queue) : timer_queue'[i] = timer_queue[j]
          <6>1. Inserted(timer_queue', timer_queue, k, e) /\ timer_queue \in Seq(Event)
            BY <4>4, <4>6, <2>1, InsertAtInserts DEF TypeOK
          <6> QED BY <6>1, InsertedEntries
        <5>2. \A j \in 1..Len(timer_queue) : timer_queue[j].handler # ch
          BY <3>2 DEF NotPosted, Posted
        <5> QED BY <4>5, <5>1, <5>2
      <4>8. pc' = pc /\ event_queue' = event_queue
        BY <4>1 DEF BgInsert
      <4>9. NotPosted(cancel_handler)'
        BY <3>1, <3>2, <4>7, <4>8 DEF NotPosted, Posted
      <4>10. \A u \in Threads : u # t => call'[u] = call[u]
        BY <4>1, <2>1 DEF BgInsert, TypeOK
      <4>11. call[t].handler # ch
        BY <4>1 DEF BgInsert, Swallows
      <4>12. Owed(cancel_handler)'
        BY <3>1, <3>2, <4>10, <4>11 DEF Owed
      <4> QED BY <3>2, <4>8, <4>9, <4>12
    <3> QED BY <3>3, <3>4, <3>5, <3>6
  <2> QED BY <2>2, <2>3
<1> QED BY <1>1, <1>2, TypeInit, TypeStep, PTL DEF Spec
-----------------------------------------------------------------------------
(* Every event in one place, once, and in the order in which it is to run.  *)
(* The order needs more than itself to be inductive: an event with a time   *)
(* is never mistaken for an untimed one, because the clock is never 0, and  *)
(* the thread goes to sleep only right after a fetch reset event_cnt.       *)

TimersTimed ==
    /\ \A i \in 1..Len(timer_queue) : timer_queue[i].runtime # 0
    /\ \A t \in Callers : call[t].pc = "post" => call[t].runtime # 0

SleepFresh == pc = "sleep" => event_cnt = 0

\* s is a subsequence of q: entry i of s is entry f[i] of q.
Embeds(s, q, f) ==
    /\ f \in [1..Len(s) -> 1..Len(q)]
    /\ \A i \in 1..Len(s) : s[i] = q[f[i]]
    /\ \A i, j \in 1..Len(s) : i < j => f[i] < f[j]

Ordered(q) == \A i, j \in 1..Len(q) :
    i < j /\ q[j].runtime # 0 => q[i].runtime # 0 /\ q[i].runtime <= q[j].runtime

\* A subsequence keeps what holds of every two entries.
LEMMA EmbedsKeeps ==
    ASSUME NEW q \in Seq(Event), NEW s \in Seq(Event), NEW f, Embeds(s, q, f)
    PROVE  /\ Sorted(q) => Sorted(s)
           /\ Ordered(q) => Ordered(s)
           /\ Distinct(q) => Distinct(s)
           /\ NodesOf(s) \subseteq NodesOf(q)
<1>1. \A i \in 1..Len(s) : f[i] \in 1..Len(q) /\ s[i] = q[f[i]]
  BY DEF Embeds
<1>2. Sorted(q) => Sorted(s)
  BY <1>1 DEF Embeds, Sorted
<1>3. Ordered(q) => Ordered(s)
  BY <1>1 DEF Embeds, Ordered
<1>4. ASSUME Distinct(q), NEW i \in 1..Len(s), NEW j \in 1..Len(s), s[i].node = s[j].node
      PROVE  i = j
  <2>1. f[i] = f[j]
    BY SMTT(30), <1>1, <1>4 DEF Distinct
  <2>2. ~(i < j) /\ ~(j < i)
    BY <2>1, <1>1 DEF Embeds
  <2> QED BY <2>2
<1>5. NodesOf(s) \subseteq NodesOf(q)
  BY <1>1 DEF NodesOf
<1> QED BY <1>2, <1>3, <1>4, <1>5 DEF Distinct

\* Unlinking entry k of q: cancel_event(), and the head in run_event_loop().
LEMMA RemoveAtEvents ==
    ASSUME NEW q \in Seq(Event), NEW k \in 1..Len(q)
    PROVE  /\ Sorted(q) => Sorted(RemoveAt(q, k))
           /\ Ordered(q) => Ordered(RemoveAt(q, k))
           /\ \A i \in 1..Len(RemoveAt(q, k)) : \E j \in 1..Len(q) : RemoveAt(q, k)[i] = q[j]
           /\ Distinct(q) => /\ Distinct(RemoveAt(q, k))
                             /\ NodesOf(RemoveAt(q, k)) = NodesOf(q) \ {q[k].node}
<1> DEFINE s == RemoveAt(q, k)
           f == [i \in 1..Len(s) |-> IF i < k THEN i ELSE i + 1]
<1>0. Len(q) \in Nat /\ k \in Nat
  OBVIOUS
<1>a. s \in Seq(Event) /\ Removed(s, q, k)
  BY RemoveAtRemoves
<1> HIDE DEF s
<1>1. /\ s \in Seq(Event) /\ Len(s) = Len(q) - 1
      /\ \A i \in 1..(Len(q) - 1) : /\ i < k => s[i] = q[i]
                                    /\ i >= k => s[i] = q[i + 1]
  BY <1>a DEF Removed
<1>2. \A i \in 1..Len(s) : f[i] \in 1..Len(q) /\ s[i] = q[f[i]] /\ f[i] # k
  BY <1>0, <1>1
<1>3. \A i, j \in 1..Len(s) : i < j => f[i] < f[j]
  BY <1>0, <1>1
<1>4. Embeds(s, q, f)
  BY <1>2, <1>3 DEF Embeds
<1>5. \A j \in 1..Len(q) : j # k => \E i \in 1..Len(s) : f[i] = j
  <2> TAKE j \in 1..Len(q)
  <2>1. CASE j < k
    <3>1. j \in 1..Len(s) /\ f[j] = j
      BY <2>1, <1>0, <1>1
    <3> QED BY <3>1
  <2>2. CASE j > k
    <3>1. j - 1 \in 1..Len(s) /\ f[j - 1] = j
      BY <2>2, <1>0, <1>1
    <3> QED BY <3>1
  <2> QED BY <2>1, <2>2, <1>0
<1> HIDE DEF f
<1>6. ASSUME Distinct(q)
      PROVE  NodesOf(s) = NodesOf(q) \ {q[k].node}
  <2>1. \A j \in 1..Len(q) : j # k => q[j].node # q[k].node
    BY <1>6 DEF Distinct
  <2>2. NodesOf(s) \subseteq NodesOf(q) \ {q[k].node}
    BY <1>2, <2>1 DEF NodesOf
  <2>3. ASSUME NEW n \in NodesOf(q) \ {q[k].node}
        PROVE  n \in NodesOf(s)
    <3>1. PICK j \in 1..Len(q) : q[j].node = n
      BY DEF NodesOf
    <3>2. PICK i \in 1..Len(s) : f[i] = j
      BY <1>5, <3>1
    <3> QED BY <1>2, <3>1, <3>2 DEF NodesOf
  <2> QED BY <2>2, <2>3
<1>7. \A i \in 1..Len(s) : \E j \in 1..Len(q) : s[i] = q[j]
  BY <1>2
<1> QED BY <1>1, <1>4, <1>6, <1>7, EmbedsKeeps DEF s

\* Linking a new event behind the k entries that are due no later.
LEMMA InsertAtEvents ==
    ASSUME NEW q \in Seq(Event), NEW k \in 0..Len(q), NEW e \in Event
    PROVE  /\ Sorted(q) /\ DuePrefix(q, e.runtime, k) => Sorted(InsertAt(q, k + 1, e))
           /\ NodesOf(InsertAt(q, k + 1, e)) = NodesOf(q) \cup {e.node}
           /\ Distinct(q) /\ e.node \notin NodesOf(q) => Distinct(InsertAt(q, k + 1, e))
<1> DEFINE s == InsertAt(q, k + 1, e)
<1>0. Len(q) \in Nat /\ k \in Nat /\ k <= Len(q) /\ e.runtime \in Nat
  BY DEF Event
<1>a. s \in Seq(Event) /\ Inserted(s, q, k, e)
  BY InsertAtInserts
<1> HIDE DEF s
<1>1. /\ s \in Seq(Event) /\ Len(s) = Len(q) + 1
      /\ \A i \in 1..(Len(q) + 1) : /\ i <= k => s[i] = q[i]
                                    /\ i = k + 1 => s[i] = e
                                    /\ i > k + 1 => s[i] = q[i - 1]
  BY <1>a DEF Inserted
<1>2. \A i \in 1..Len(q) : q[i].runtime \in Nat
  BY EntryFacts
<1>3. ASSUME Sorted(q), DuePrefix(q, e.runtime, k), NEW i \in 1..Len(s), NEW j \in 1..Len(s), i < j
      PROVE  s[i].runtime <= s[j].runtime
  <2>1. \A m \in 1..Len(q) : m <= k => q[m].runtime <= e.runtime
    BY <1>0, <1>3 DEF DuePrefix
  <2>2. \A m \in 1..Len(q) : m > k => q[m].runtime >= e.runtime
    <3> SUFFICES ASSUME NEW m \in 1..Len(q), m > k
                 PROVE  q[m].runtime >= e.runtime
      OBVIOUS
    <3>0. m \in Nat /\ k < m /\ m <= Len(q)
      OBVIOUS
    <3>1. k + 1 \in 1..Len(q) /\ k < Len(q)
      BY <3>0, <1>0
    <3>2. q[k + 1].runtime > e.runtime
      BY <3>1, <1>3 DEF DuePrefix
    <3>3. q[k + 1].runtime <= q[m].runtime
      BY <3>1, <1>0, <1>2, <1>3 DEF Sorted
    <3>4. q[k + 1].runtime \in Nat /\ q[m].runtime \in Nat /\ e.runtime \in Nat
      BY <3>1, <1>0, <1>2
    <3> QED BY <3>2, <3>3, <3>4
  <2>3. CASE j <= k
    BY <2>3, <1>0, <1>1, <1>3 DEF Sorted
  <2>4. CASE j = k + 1
    BY <2>4, <2>1, <1>0, <1>1, <1>3
  <2>5. CASE j > k + 1
    <3>1. j - 1 \in 1..Len(q) /\ s[j] = q[j - 1] /\ j - 1 > k
      BY <2>5, <1>0, <1>1
    <3>2. CASE i <= k
      BY <3>1, <3>2, <1>0, <1>1, <1>3 DEF Sorted
    <3>3. CASE i = k + 1
      BY <3>1, <3>3, <2>2, <1>0, <1>1
    <3>4. CASE i > k + 1
      <4>1. i - 1 \in 1..Len(q) /\ s[i] = q[i - 1] /\ i - 1 < j - 1
        BY <3>4, <1>0, <1>1, <1>3
      <4> QED BY <3>1, <4>1, <1>3 DEF Sorted
    <3> QED BY <3>2, <3>3, <3>4, <1>0
  <2> QED BY <2>3, <2>4, <2>5, <1>0
<1>4. \A j \in 1..Len(q) : \E i \in 1..Len(s) : s[i] = q[j]
  <2> TAKE j \in 1..Len(q)
  <2>1. CASE j <= k
    BY <2>1, <1>0, <1>1
  <2>2. CASE j > k
    <3>1. j + 1 \in 1..Len(s) /\ s[j + 1] = q[j]
      BY <2>2, <1>0, <1>1
    <3> QED BY <3>1
  <2> QED BY <2>1, <2>2, <1>0
<1>5. k + 1 \in 1..Len(s) /\ s[k + 1] = e
  BY <1>0, <1>1
<1>6. \A i \in 1..Len(s) : s[i] = e \/ \E j \in 1..Len(q) : s[i] = q[j]
  BY <1>a, InsertedEntries
<1>7. NodesOf(s) = NodesOf(q) \cup {e.node}
  <2>1. NodesOf(s) \subseteq NodesOf(q) \cup {e.node}
    BY <1>6 DEF NodesOf
  <2>2. NodesOf(q) \cup {e.node} \subseteq NodesOf(s)
    BY <1>4, <1>5 DEF NodesOf
  <2> QED BY <2>1, <2>2
<1>8. ASSUME Distinct(q), e.node \notin NodesOf(q),
             NEW i \in 1..Len(s), NEW j \in 1..Len(s), s[i].node = s[j].node
      PROVE  i = j
  <2>0. \A m \in 1..Len(q) : q[m].node # e.node
    BY <1>8 DEF NodesOf
  <2> DEFINE g(m) == IF m <= k THEN m ELSE m - 1
  <2>1. \A m \in 1..Len(s) : m # k + 1 => g(m) \in 1..Len(q) /\ s[m] = q[g(m)]
    BY <1>0, <1>1
  <2>2. CASE i = k + 1
    BY <2>2, <2>0, <2>1, <1>5, <1>8
  <2>3. CASE j = k + 1
    BY <2>3, <2>0, <2>1, <1>5, <1>8
  <2>4. CASE i # k + 1 /\ j # k + 1
    <3>1. g(i) = g(j)
      <4> HIDE DEF g
      <4> QED BY <2>1, <2>4, <1>8 DEF Distinct
    <3> QED BY <3>1, <2>4, <1>0
  <2> QED BY <2>2, <2>3, <2>4
<1> QED BY <1>1, <1>3, <1>7, <1>8 DEF Sorted, Distinct, s

\* Taking the head of event_queue.
LEMMA TailEvents ==
    ASSUME NEW q \in Seq(Event), q # << >>
    PROVE  /\ Ordered(q) => Ordered(Tail(q))
           /\ \A i \in 1..Len(Tail(q)) : i + 1 \in 1..Len(q) /\ Tail(q)[i] = q[i + 1]
           /\ Distinct(q) => /\ Distinct(Tail(q))
                             /\ Head(q).node \notin NodesOf(Tail(q))
           /\ NodesOf(q) = NodesOf(Tail(q)) \cup {Head(q).node}
<1> DEFINE s == Tail(q)
           f == [i \in 1..Len(s) |-> i + 1]
<1>1. /\ s \in Seq(Event) /\ Len(s) = Len(q) - 1 /\ Len(q) \in Nat \ {0}
      /\ \A i \in 1..Len(s) : s[i] = q[i + 1]
      /\ Head(q) = q[1]
  OBVIOUS
<1>a. Tail(q) = s
  OBVIOUS
<1> HIDE DEF s
<1>2. \A i \in 1..Len(s) : f[i] \in 1..Len(q) /\ s[i] = q[f[i]] /\ f[i] = i + 1
  BY <1>1
<1>3. \A i, j \in 1..Len(s) : i < j => f[i] < f[j]
  BY <1>1
<1>4. Embeds(s, q, f)
  BY <1>2, <1>3 DEF Embeds
<1>5. \A j \in 1..Len(q) : j = 1 \/ (j - 1 \in 1..Len(s) /\ s[j - 1] = q[j])
  BY <1>1
<1> HIDE DEF f
<1>6. NodesOf(q) \subseteq NodesOf(s) \cup {q[1].node}
  BY <1>5 DEF NodesOf
<1>7. NodesOf(s) \subseteq NodesOf(q) /\ q[1].node \in NodesOf(q)
  BY <1>1, <1>4, EmbedsKeeps DEF NodesOf
<1>8. ASSUME Distinct(q)
      PROVE  q[1].node \notin NodesOf(s)
  <2>1. \A i \in 1..Len(s) : i + 1 \in 1..Len(q) /\ i + 1 # 1 /\ 1 \in 1..Len(q)
    BY <1>1
  <2>2. \A i \in 1..Len(s) : s[i].node # q[1].node
    BY <1>1, <1>8, <2>1 DEF Distinct
  <2> QED BY <2>2 DEF NodesOf
<1>9. \A i \in 1..Len(s) : i + 1 \in 1..Len(q) /\ s[i] = q[i + 1]
  BY <1>1, <1>2
<1>10. (Ordered(q) => Ordered(s)) /\ (Distinct(q) => Distinct(s))
  BY <1>1, <1>4, EmbedsKeeps
<1>11. NodesOf(q) = NodesOf(s) \cup {q[1].node}
  BY <1>6, <1>7
<1> QED BY <1>a, <1>1, <1>8, <1>9, <1>10, <1>11

\* post_event(): a new untimed event behind all the others.
LEMMA AppendEvents ==
    ASSUME NEW q \in Seq(Event), NEW e \in Event, e.runtime = 0
    PROVE  /\ Ordered(q) => Ordered(Append(q, e))
           /\ \A i \in 1..Len(Append(q, e)) :
                 Append(q, e)[i] = e \/ (i \in 1..Len(q) /\ Append(q, e)[i] = q[i])
           /\ Distinct(q) /\ e.node \notin NodesOf(q) => Distinct(Append(q, e))
           /\ NodesOf(Append(q, e)) = NodesOf(q) \cup {e.node}
<1> DEFINE s == Append(q, e)
<1>1. /\ s \in Seq(Event) /\ Len(s) = Len(q) + 1 /\ Len(q) \in Nat
      /\ \A i \in 1..Len(q) : s[i] = q[i]
      /\ s[Len(q) + 1] = e
  OBVIOUS
<1>a. Append(q, e) = s
  OBVIOUS
<1> HIDE DEF s
<1>2. \A i \in 1..Len(s) : i = Len(q) + 1 \/ i \in 1..Len(q)
  BY <1>1
<1>3. ASSUME Ordered(q), NEW i \in 1..Len(s), NEW j \in 1..Len(s), i < j, s[j].runtime # 0
      PROVE  s[i].runtime # 0 /\ s[i].runtime <= s[j].runtime
  <2>1. j \in 1..Len(q)
    BY <1>1, <1>2, <1>3
  <2>2. i \in 1..Len(q)
    BY <1>1, <1>3, <2>1
  <2> QED BY <1>1, <1>3, <2>1, <2>2 DEF Ordered
<1>4. ASSUME Distinct(q), e.node \notin NodesOf(q),
             NEW i \in 1..Len(s), NEW j \in 1..Len(s), s[i].node = s[j].node
      PROVE  i = j
  <2>1. \A m \in 1..Len(q) : q[m].node # e.node
    BY <1>4 DEF NodesOf
  <2> QED BY <2>1, <1>1, <1>2, <1>4 DEF Distinct
<1>5. NodesOf(s) \subseteq NodesOf(q) \cup {e.node}
  BY <1>1, <1>2 DEF NodesOf
<1>6. NodesOf(q) \cup {e.node} \subseteq NodesOf(s)
  <2>1. \A m \in 1..Len(q) : m \in 1..Len(s) /\ s[m] = q[m]
    BY <1>1
  <2>2. Len(q) + 1 \in 1..Len(s) /\ s[Len(q) + 1] = e
    BY <1>1
  <2> QED BY <2>1, <2>2 DEF NodesOf
<1>7. /\ Ordered(q) => Ordered(s)
      /\ Distinct(q) /\ e.node \notin NodesOf(q) => Distinct(s)
  BY <1>3, <1>4 DEF Ordered, Distinct
<1>8. NodesOf(s) = NodesOf(q) \cup {e.node}
  BY <1>5, <1>6
<1>9. \A i \in 1..Len(s) : s[i] = e \/ (i \in 1..Len(q) /\ s[i] = q[i])
  BY <1>1, <1>2
<1> QED BY <1>a, <1>7, <1>8, <1>9

Timed(q)   == \A i \in 1..Len(q) : q[i].runtime # 0
Untimed(q) == \A i \in 1..Len(q) : q[i].runtime = 0
Due(q, t)  == \A i \in 1..Len(q) : q[i].runtime <= t

\* run_event_loop() moves the first k events of timer_queue, all of them
\* due, to the front of an event_queue of untimed ones.
LEMMA SpliceEvents ==
    ASSUME NEW s \in Seq(Event), NEW q \in Seq(Event), NEW k \in 1..Len(s),
           NEW a \in Seq(Event), NEW b \in Seq(Event), Splices(a, b, s, q, k)
    PROVE  /\ Sorted(s) => Sorted(b)
           /\ Timed(s) => Timed(b)
           /\ Sorted(s) /\ Timed(s) /\ Untimed(q) => Ordered(a)
           /\ Distinct(s) => Distinct(b)
           /\ Distinct(s) /\ Distinct(q) /\ NodesOf(s) \cap NodesOf(q) = {} =>
                 Distinct(a) /\ NodesOf(a) \cap NodesOf(b) = {}
           /\ NodesOf(a) \cup NodesOf(b) = NodesOf(s) \cup NodesOf(q)
<1>1. /\ Len(s) \in Nat /\ Len(q) \in Nat /\ k \in Nat /\ k <= Len(s)
      /\ Len(a) = k + Len(q) /\ Len(b) = Len(s) - k
  BY DEF Splices
<1>2. \A i \in 1..Len(b) : i + k \in 1..Len(s) /\ b[i] = s[i + k] /\ i + k > k
  <2> TAKE i \in 1..Len(b)
  <2>1. i + k \in 1..Len(s) /\ i + k > k
    BY <1>1
  <2> QED BY <2>1 DEF Splices
<1>3. \A i \in 1..Len(a) : \/ (i \in 1..k /\ i \in 1..Len(s) /\ a[i] = s[i])
                           \/ (i > k /\ i - k \in 1..Len(q) /\ a[i] = q[i - k])
  <2> SUFFICES ASSUME NEW i \in 1..Len(a), i > k
               PROVE  i - k \in 1..Len(q) /\ a[i] = q[i - k]
    BY <1>1 DEF Splices
  <2>1. i - k \in 1..Len(q) /\ (i - k) + k = i
    BY <1>1
  <2>2. a[(i - k) + k] = q[i - k]
    BY <2>1 DEF Splices
  <2> QED BY <2>1, <2>2
<1>4. /\ \A i \in 1..k : i \in 1..Len(s) /\ i \in 1..Len(a) /\ a[i] = s[i]
      /\ \A j \in 1..Len(q) : j + k \in 1..Len(a) /\ a[j + k] = q[j]
      /\ \A j \in 1..Len(s) : j \in 1..k \/ (j - k \in 1..Len(b) /\ b[j - k] = s[j])
  <2>1. ASSUME NEW i \in 1..k
        PROVE  i \in 1..Len(s) /\ i \in 1..Len(a) /\ a[i] = s[i]
    <3>1. i \in 1..Len(s) /\ i \in 1..Len(a)
      BY <1>1
    <3> QED BY <3>1 DEF Splices
  <2>2. ASSUME NEW j \in 1..Len(q)
        PROVE  j + k \in 1..Len(a) /\ a[j + k] = q[j]
    <3>1. j + k \in 1..Len(a)
      BY <1>1
    <3> QED BY <3>1 DEF Splices
  <2>3. ASSUME NEW j \in 1..Len(s), j \notin 1..k
        PROVE  j - k \in 1..Len(b) /\ b[j - k] = s[j]
    <3>1. j - k \in 1..Len(b) /\ (j - k) + k = j
      BY <1>1, <2>3
    <3> QED BY <3>1 DEF Splices
  <2> QED BY <2>1, <2>2, <2>3
<1> DEFINE f == [i \in 1..Len(b) |-> i + k]
<1>e. Embeds(b, s, f)
  <2>1. \A i \in 1..Len(b) : f[i] \in 1..Len(s) /\ b[i] = s[f[i]] /\ f[i] = i + k
    BY <1>2
  <2>2. \A i, j \in 1..Len(b) : i < j => f[i] < f[j]
    BY <1>1
  <2> QED BY <2>1, <2>2 DEF Embeds
<1> HIDE DEF f
<1>5. ASSUME Sorted(s), Timed(s), Untimed(q)
      PROVE  Ordered(a)
  <2> SUFFICES ASSUME NEW i \in 1..Len(a), NEW j \in 1..Len(a), i < j, a[j].runtime # 0
               PROVE  a[i].runtime # 0 /\ a[i].runtime <= a[j].runtime
    BY DEF Ordered
  <2>1. j \in 1..k /\ j \in 1..Len(s) /\ a[j] = s[j]
    BY <1>3, <1>5 DEF Untimed
  <2>a. i \in 1..k
    BY <1>1, <2>1
  <2>2. i \in 1..k /\ i \in 1..Len(s) /\ a[i] = s[i]
    BY <1>4, <2>a
  <2> QED BY <1>5, <2>1, <2>2 DEF Sorted, Timed
<1>6. ASSUME Distinct(s), Distinct(q), NodesOf(s) \cap NodesOf(q) = {}
      PROVE  Distinct(a) /\ NodesOf(a) \cap NodesOf(b) = {}
  <2>1. \A i \in 1..Len(s), j \in 1..Len(q) : s[i].node # q[j].node
    BY <1>6 DEF NodesOf
  <2>2. ASSUME NEW i \in 1..Len(a), NEW j \in 1..Len(a), a[i].node = a[j].node
        PROVE  i = j
    <3>1. CASE i \in 1..k /\ j \in 1..k
      BY <3>1, <2>2, <1>4, <1>6 DEF Distinct
    <3>2. CASE i > k /\ j > k
      <4>0. /\ i - k \in 1..Len(q) /\ a[i] = q[i - k]
            /\ j - k \in 1..Len(q) /\ a[j] = q[j - k]
        BY <3>2, <1>1, <1>3
      <4>1. i - k = j - k
        BY <4>0, <2>2, <1>6 DEF Distinct
      <4> QED BY <4>1, <1>1
    <3>3. CASE i \in 1..k /\ j > k
      <4>1. j - k \in 1..Len(q) /\ a[j] = q[j - k]
        BY <3>3, <1>1, <1>3
      <4> QED BY <3>3, <4>1, <2>1, <2>2, <1>4
    <3>4. CASE i > k /\ j \in 1..k
      <4>1. i - k \in 1..Len(q) /\ a[i] = q[i - k]
        BY <3>4, <1>1, <1>3
      <4> QED BY <3>4, <4>1, <2>1, <2>2, <1>4
    <3> QED BY <3>1, <3>2, <3>3, <3>4, <1>3
  <2>3. ASSUME NEW i \in 1..Len(a), NEW j \in 1..Len(b)
        PROVE  a[i].node # b[j].node
    <3>1. j + k \in 1..Len(s) /\ b[j] = s[j + k] /\ j + k > k
      BY <1>2
    <3>2. CASE i \in 1..k
      <4>1. i # j + k /\ i \in 1..Len(s) /\ a[i] = s[i]
        BY <3>1, <3>2, <1>4
      <4> QED BY <3>1, <4>1, <1>6 DEF Distinct
    <3>3. CASE i > k
      <4>1. i - k \in 1..Len(q) /\ a[i] = q[i - k]
        BY <3>3, <1>1, <1>3
      <4> QED BY <3>1, <4>1, <2>1
    <3> QED BY <3>2, <3>3, <1>3
  <2>4. NodesOf(a) \cap NodesOf(b) = {}
    <3> SUFFICES ASSUME NEW n, n \in NodesOf(a), n \in NodesOf(b)
                 PROVE  FALSE
      OBVIOUS
    <3>1. PICK i \in 1..Len(a) : a[i].node = n
      BY DEF NodesOf
    <3>2. PICK j \in 1..Len(b) : b[j].node = n
      BY DEF NodesOf
    <3> QED BY <2>3, <3>1, <3>2
  <2> QED BY <2>2, <2>4 DEF Distinct
<1>7. NodesOf(a) \cup NodesOf(b) \subseteq NodesOf(s) \cup NodesOf(q)
  <2>1. NodesOf(b) \subseteq NodesOf(s)
    BY <1>e, EmbedsKeeps
  <2>2. NodesOf(a) \subseteq NodesOf(s) \cup NodesOf(q)
    BY <1>3 DEF NodesOf
  <2> QED BY <2>1, <2>2
<1>8. NodesOf(s) \cup NodesOf(q) \subseteq NodesOf(a) \cup NodesOf(b)
  <2>1. NodesOf(q) \subseteq NodesOf(a)
    BY <1>4 DEF NodesOf
  <2>2. NodesOf(s) \subseteq NodesOf(a) \cup NodesOf(b)
    BY <1>4 DEF NodesOf
  <2> QED BY <2>1, <2>2
<1>9. Timed(s) => Timed(b)
  BY <1>2 DEF Timed
<1>10. (Sorted(s) => Sorted(b)) /\ (Distinct(s) => Distinct(b))
  BY <1>e, EmbedsKeeps
<1>12. NodesOf(a) \cup NodesOf(b) = NodesOf(s) \cup NodesOf(q)
  BY <1>7, <1>8
<1> QED BY <1>5, <1>6, <1>9, <1>10, <1>12

\* None of them early.
LEMMA SpliceDue ==
    ASSUME NEW s \in Seq(Event), NEW q \in Seq(Event), NEW k \in 1..Len(s), NEW t,
           NEW a, NEW b, Splices(a, b, s, q, k), DuePrefix(s, t, k), Due(q, t)
    PROVE  Due(a, t)
<1> SUFFICES ASSUME NEW i \in 1..Len(a)
             PROVE  a[i].runtime <= t
  BY DEF Due
<1>1. Len(q) \in Nat /\ k \in Nat /\ Len(a) = k + Len(q)
  BY DEF Splices
<1>2. CASE i <= k
  <2>1. i \in 1..k
    BY <1>1, <1>2
  <2> QED BY <2>1 DEF Splices, DuePrefix
<1>3. CASE i > k
  <2>1. i - k \in 1..Len(q) /\ (i - k) + k = i
    BY <1>1, <1>3
  <2>2. a[(i - k) + k] = q[i - k]
    BY <2>1 DEF Splices
  <2> QED BY <2>1, <2>2 DEF Due
<1> QED BY <1>1, <1>2, <1>3

\* Fetch either moves the first k > 0 events of timer_queue or nothing.
LEMMA FetchMoves ==
    ASSUME TypeOK, Fetch
    PROVE  \/ /\ UNCHANGED queues
              /\ pc' = "sleep" => event_queue = << >>
           \/ \E k \in 1..Len(timer_queue) :
                /\ DuePrefix(timer_queue, now, k)
                /\ Splices(event_queue', timer_queue', timer_queue, event_queue, k)
                /\ pc' = "dispatch"
<1>1. CASE \E k \in 1..Len(timer_queue) :
             /\ DuePrefix(timer_queue, now, k)
             /\ event_queue' = SubSeq(timer_queue, 1, k) \o event_queue
             /\ timer_queue' = SubSeq(timer_queue, k + 1, Len(timer_queue))
             /\ pc' = "dispatch"
  <2>1. PICK k \in 1..Len(timer_queue) :
             /\ DuePrefix(timer_queue, now, k)
             /\ event_queue' = SubSeq(timer_queue, 1, k) \o event_queue
             /\ timer_queue' = SubSeq(timer_queue, k + 1, Len(timer_queue))
             /\ pc' = "dispatch"
    BY <1>1
  <2>2. event_queue \in Seq(Event) /\ timer_queue \in Seq(Event)
    BY DEF TypeOK
  <2>3. Splices(event_queue', timer_queue', timer_queue, event_queue, k)
    BY <2>1, <2>2, SubSeqSplices
  <2> QED BY <2>1, <2>3
<1>2. CASE UNCHANGED queues /\ (pc' = "sleep" => event_queue = << >>)
  BY <1>2
<1> QED BY <1>1, <1>2 DEF Fetch

OrderInv == DispatchOrder /\ TimersTimed /\ SleepFresh

\* A post into timer_queue, from any thread.
LEMMA InsertKeepsOrder ==
    ASSUME TypeOK, OrderInv, NEW t \in Callers, call[t].pc = "post",
           NEW n \in Nodes, NEW k \in 0..Len(timer_queue),
           DuePrefix(timer_queue, call[t].runtime, k),
           timer_queue' = InsertAt(timer_queue, k + 1,
                [node |-> n, handler |-> call[t].handler, runtime |-> call[t].runtime])
    PROVE  /\ Sorted(timer_queue)'
           /\ \A i \in 1..Len(timer_queue') : timer_queue'[i].runtime # 0
<1> DEFINE e == [node |-> n, handler |-> call[t].handler, runtime |-> call[t].runtime]
<1>1. e \in Event /\ e.runtime = call[t].runtime
  BY CallFacts DEF Event
<1>2. e.runtime # 0
  BY <1>1 DEF OrderInv, TimersTimed
<1>3. timer_queue' = InsertAt(timer_queue, k + 1, e) /\ DuePrefix(timer_queue, e.runtime, k)
  BY <1>1
<1> HIDE DEF e
<1>4. Sorted(timer_queue')
  BY <1>1, <1>3, InsertAtEvents DEF TypeOK, OrderInv, DispatchOrder
<1>5. ASSUME NEW i \in 1..Len(timer_queue')
      PROVE  timer_queue'[i] = e \/ \E j \in 1..Len(timer_queue) : timer_queue'[i] = timer_queue[j]
  <2>1. timer_queue \in Seq(Event)
    BY DEF TypeOK
  <2>2. Inserted(timer_queue', timer_queue, k, e)
    BY <1>1, <1>3, <2>1, InsertAtInserts
  <2> QED BY <2>1, <2>2, InsertedEntries
<1>6. \A i \in 1..Len(timer_queue') : timer_queue'[i].runtime # 0
  BY <1>2, <1>5 DEF OrderInv, TimersTimed
<1> QED BY <1>4, <1>6 DEF Sorted

\* The three fetches: after LoopFetch, or awakened.
LEMMA FetchKeepsOrder ==
    ASSUME TypeOK, OrderInv, Fetch, event_cnt' = 0, now' = now, call' = call,
           \A i \in 1..Len(event_queue) : event_queue[i].runtime = 0
    PROVE  OrderInv'
<1>1. CASE UNCHANGED queues
  BY <1>1 DEF OrderInv, DispatchOrder, TimersTimed, SleepFresh, Sorted, queues
<1>2. CASE \E k \in 1..Len(timer_queue) :
             /\ DuePrefix(timer_queue, now, k)
             /\ Splices(event_queue', timer_queue', timer_queue, event_queue, k)
  <2>1. PICK k \in 1..Len(timer_queue) :
             /\ DuePrefix(timer_queue, now, k)
             /\ Splices(event_queue', timer_queue', timer_queue, event_queue, k)
    BY <1>2
  <2>2. /\ timer_queue \in Seq(Event) /\ event_queue \in Seq(Event)
        /\ timer_queue' \in Seq(Event) /\ event_queue' \in Seq(Event)
    BY FetchTypes DEF TypeOK
  <2>3. Sorted(timer_queue) /\ Timed(timer_queue) /\ Untimed(event_queue) /\ Due(event_queue, now)
    BY DEF OrderInv, DispatchOrder, TimersTimed, Timed, Untimed, Due
  <2>4. /\ Sorted(timer_queue') /\ Timed(timer_queue')
        /\ Ordered(event_queue') /\ Due(event_queue', now)
    BY <2>1, <2>2, <2>3, SpliceEvents, SpliceDue
  <2>7. DispatchOrder'
    BY <2>4 DEF DispatchOrder, Ordered, Sorted, Due
  <2>8. TimersTimed'
    BY <2>4 DEF OrderInv, TimersTimed, Timed
  <2> QED BY <2>7, <2>8 DEF OrderInv, SleepFresh
<1> QED BY <1>1, <1>2, FetchMoves

\* Every step keeps the order.  A fetch finds only untimed events in
\* event_queue: the thread is asleep, or one untimed event was counted.
LEMMA OrderStep == TypeInv /\ NoLostWakeup /\ OrderInv /\ [Next]_vars => OrderInv'
<1> SUFFICES ASSUME TypeInv, NoLostWakeup, OrderInv, [Next]_vars
             PROVE  OrderInv'
  OBVIOUS
<1>0. TypeOK /\ TypeOK'
  BY TypeStep DEF TypeInv
<1> USE DEF OrderInv
<1>1. CASE Tick
  <2>1. now' = now + 1 /\ UNCHANGED <<event_queue, timer_queue, event_cnt, pc, call>>
    BY <1>1 DEF Tick, queues, loop
  <2>2. \A i \in 1..Len(event_queue) : event_queue[i].runtime <= now + 1
    <3>1. \A i \in 1..Len(event_queue) : event_queue[i].runtime \in Nat /\ event_queue[i].runtime <= now
      BY <1>0, EntryFacts DEF DispatchOrder, TypeOK
    <3> QED BY <1>0, <3>1 DEF TypeOK
  <2> QED BY <2>1, <2>2 DEF DispatchOrder, Sorted, TimersTimed, SleepFresh
<1>2. ASSUME UNCHANGED <<now, event_queue, timer_queue, event_cnt>>,
             pc' = pc \/ pc' # "sleep",
             \A t \in Callers : call'[t].pc = "post" => call'[t].runtime # 0
      PROVE  OrderInv'
  BY <1>2 DEF DispatchOrder, Sorted, TimersTimed, SleepFresh
<1>3. ASSUME NEW t \in Callers, NEW c, call' = [call EXCEPT ![t] = c], c.pc = "post" => c.runtime # 0
      PROVE  \A u \in Callers : call'[u].pc = "post" => call'[u].runtime # 0
  <2>1. \A u \in Callers : call'[u] = IF u = t THEN c ELSE call[u]
    BY <1>0, <1>3 DEF TypeOK
  <2> QED BY <2>1, <1>3 DEF TimersTimed
<1>4. call' = call => \A u \in Callers : call'[u].pc = "post" => call'[u].runtime # 0
  BY DEF TimersTimed
<1>5. ASSUME NEW t \in Threads, NEW h \in Handlers, BgStart(t, h)
      PROVE  OrderInv'
  <2>1. /\ UNCHANGED <<now, event_queue, timer_queue, event_cnt, pc>>
        /\ call' = [call EXCEPT ![t] = [pc |-> "work", handler |-> h, runtime |-> 0]]
    BY <1>5 DEF BgStart, queues, loop
  <2> QED BY <2>1, <1>2, <1>3
<1>6. ASSUME NEW t \in Threads, NEW d \in Delays, BgReadClock(t, d)
      PROVE  OrderInv'
  <2>1. now + d \in Nat /\ now + d # 0
    BY <1>0, NumberAssumption DEF TypeOK
  <2>2. /\ UNCHANGED <<now, event_queue, timer_queue, event_cnt, pc>>
        /\ call' = [call EXCEPT ![t] = [call[t] EXCEPT !.pc = "post", !.runtime = now + d]]
    BY <1>6, <1>0 DEF BgReadClock, TypeOK, queues, loop
  <2>3. call[t] \in [pc : {"work", "post"}, handler : Handlers, runtime : Nat]
    BY <1>0, <1>6, CallFacts DEF BgReadClock
  <2>4. [call[t] EXCEPT !.pc = "post", !.runtime = now + d].runtime = now + d
    BY <2>3
  <2> QED BY <2>1, <2>2, <2>4, <1>2, <1>3
<1>7. ASSUME NEW t \in Threads, BgSwallow(t)
      PROVE  OrderInv'
  <2>1. /\ UNCHANGED <<now, event_queue, timer_queue, event_cnt, pc>>
        /\ call' = [call EXCEPT ![t] = NoCall] /\ NoCall.pc # "post"
    BY <1>7 DEF BgSwallow, NoCall, queues, loop
  <2> QED BY <2>1, <1>2, <1>3
<1>8. ASSUME NEW h \in Handlers, NEW d \in Delays, PostDelayed(h, d)
      PROVE  OrderInv'
  <2>1. now + d \in Nat /\ now + d # 0
    BY <1>0, NumberAssumption DEF TypeOK
  <2>2. /\ UNCHANGED <<now, event_queue, timer_queue, event_cnt>> /\ pc' # "sleep"
        /\ call' = [call EXCEPT ![Dispatcher] = [pc |-> "post", handler |-> h, runtime |-> now + d]]
    BY <1>8 DEF PostDelayed, queues, loop
  <2> QED BY <2>1, <2>2, <1>2, <1>3
<1>9. ASSUME NEW t \in Callers, call[t].pc = "post", call' = [call EXCEPT ![t] = NoCall],
             NEW n \in Nodes, NEW k \in 0..Len(timer_queue),
             DuePrefix(timer_queue, call[t].runtime, k),
             timer_queue' = InsertAt(timer_queue, k + 1,
                [node |-> n, handler |-> call[t].handler, runtime |-> call[t].runtime]),
             UNCHANGED <<now, event_queue, event_cnt>>, pc' = pc \/ pc' # "sleep"
      PROVE  OrderInv'
  <2>1. Sorted(timer_queue)' /\ \A i \in 1..Len(timer_queue') : timer_queue'[i].runtime # 0
    BY <1>0, <1>9, InsertKeepsOrder
  <2>2. \A u \in Callers : call'[u].pc = "post" => call'[u].runtime # 0
    <3>1. NoCall.pc # "post"
      BY DEF NoCall
    <3> QED BY <3>1, <1>3, <1>9
  <2> QED BY <1>9, <2>1, <2>2 DEF DispatchOrder, TimersTimed, SleepFresh
<1>10. ASSUME NEW t \in Threads, BgInsert(t)
       PROVE  OrderInv'
  <2>1. PICK n \in AllocFrom(free_bg_queue), k \in 0..Len(timer_queue) :
          /\ DuePrefix(timer_queue, call[t].runtime, k)
          /\ timer_queue' = InsertAt(timer_queue, k + 1,
                [node |-> n, handler |-> call[t].handler, runtime |-> call[t].runtime])
    BY <1>10 DEF BgInsert
  <2>2. n \in Nodes
    BY <1>0 DEF AllocFrom, TypeOK
  <2>3. /\ call[t].pc = "post" /\ call' = [call EXCEPT ![t] = NoCall]
        /\ UNCHANGED <<now, event_queue, event_cnt, pc>>
    BY <1>10 DEF BgInsert, loop
  <2> QED BY <2>1, <2>2, <2>3, <1>9
<1>11. CASE InsertDelayed
  <2>1. PICK n \in AllocFrom(free_queue), k \in 0..Len(timer_queue) :
          /\ DuePrefix(timer_queue, call[Dispatcher].runtime, k)
          /\ timer_queue' = InsertAt(timer_queue, k + 1,
                [node |-> n, handler |-> call[Dispatcher].handler,
                 runtime |-> call[Dispatcher].runtime])
    BY <1>11 DEF InsertDelayed
  <2>2. n \in Nodes
    BY <1>0 DEF AllocFrom, TypeOK
  <2>3. /\ call[Dispatcher].pc = "post" /\ call' = [call EXCEPT ![Dispatcher] = NoCall]
        /\ UNCHANGED <<now, event_queue, event_cnt>> /\ pc' # "sleep"
    BY <1>11 DEF InsertDelayed, loop, TypeInv, PostingHoldsEvent
  <2> QED BY <2>1, <2>2, <2>3, <1>9
<1>12. ASSUME NEW h \in Handlers, PostEvent(h)
       PROVE  OrderInv'
  <2>1. PICK n \in AllocFrom(free_queue) :
          event_queue' = Append(event_queue, [node |-> n, handler |-> h, runtime |-> 0])
    BY <1>12 DEF PostEvent, Enqueue
  <2>2. UNCHANGED <<now, timer_queue, event_cnt, call>> /\ pc' # "sleep"
    BY <1>12 DEF PostEvent, loop
  <2> DEFINE e == [node |-> n, handler |-> h, runtime |-> 0]
  <2>3. e \in Event /\ e.runtime = 0
    BY <1>0 DEF AllocFrom, TypeOK, Event
  <2>4. event_queue' = Append(event_queue, e)
    BY <2>1
  <2> HIDE DEF e
  <2>5. /\ Ordered(event_queue) => Ordered(event_queue')
        /\ \A i \in 1..Len(event_queue') :
             event_queue'[i] = e \/ (i \in 1..Len(event_queue) /\ event_queue'[i] = event_queue[i])
    BY <1>0, <2>3, <2>4, AppendEvents DEF TypeOK
  <2>6. Ordered(event_queue')
    BY <2>5 DEF DispatchOrder, Ordered
  <2>7. \A i \in 1..Len(event_queue') : event_queue'[i].runtime <= now
    BY <1>0, <2>3, <2>5 DEF DispatchOrder, TypeOK
  <2>8. event_cnt # 0 => \A i \in 1..Len(event_queue') : event_queue'[i].runtime = 0
    BY <2>3, <2>5 DEF DispatchOrder
  <2> QED BY <2>2, <2>6, <2>7, <2>8 DEF DispatchOrder, Ordered, Sorted, TimersTimed, SleepFresh
<1>13. ASSUME NEW h \in Handlers, CancelQueued(h)
       PROVE  OrderInv'
  <2>1. PICK i \in 1..Len(event_queue) : event_queue' = RemoveAt(event_queue, i)
    BY <1>13 DEF CancelQueued
  <2>2. UNCHANGED <<now, timer_queue, event_cnt, call>> /\ pc' # "sleep"
    BY <1>13 DEF CancelQueued, loop
  <2>3. /\ Ordered(event_queue) => Ordered(event_queue')
        /\ \A m \in 1..Len(event_queue') : \E j \in 1..Len(event_queue) : event_queue'[m] = event_queue[j]
    BY <1>0, <2>1, RemoveAtEvents DEF TypeOK
  <2>4. Ordered(event_queue')
    BY <2>3 DEF DispatchOrder, Ordered
  <2>5. \A m \in 1..Len(event_queue') : event_queue'[m].runtime <= now
    BY <2>3 DEF DispatchOrder
  <2>6. event_cnt # 0 => \A m \in 1..Len(event_queue') : event_queue'[m].runtime = 0
    BY <2>3 DEF DispatchOrder
  <2> QED BY <2>2, <2>4, <2>5, <2>6 DEF DispatchOrder, Ordered, Sorted, TimersTimed, SleepFresh
<1>14. ASSUME NEW h \in Handlers, CancelTimed(h)
       PROVE  OrderInv'
  <2>1. PICK i \in 1..Len(timer_queue) : timer_queue' = RemoveAt(timer_queue, i)
    BY <1>14 DEF CancelTimed
  <2>2. UNCHANGED <<now, event_queue, event_cnt, call>> /\ pc' # "sleep"
    BY <1>14 DEF CancelTimed, loop
  <2>3. /\ Sorted(timer_queue) => Sorted(timer_queue')
        /\ \A m \in 1..Len(timer_queue') : \E j \in 1..Len(timer_queue) : timer_queue'[m] = timer_queue[j]
    BY SMTT(30), <1>0, <2>1, RemoveAtEvents DEF TypeOK
  <2>4. Sorted(timer_queue)'
    BY <2>3 DEF DispatchOrder, Sorted
  <2>5. \A m \in 1..Len(timer_queue') : timer_queue'[m].runtime # 0
    BY <2>3 DEF TimersTimed
  <2> QED BY <2>2, <2>4, <2>5 DEF DispatchOrder, TimersTimed, SleepFresh
<1>15. CASE (\E h \in Handlers : CancelWait(h)) \/ CancelReturn \/ CancelEventLoop
              \/ LoopNoFetch \/ HandlerReturn \/ LoopExit
  <2>1. UNCHANGED <<now, event_queue, timer_queue, event_cnt, call>> /\ pc' # "sleep"
    BY <1>15 DEF CancelWait, CancelReturn, CancelEventLoop, LoopNoFetch, HandlerReturn, LoopExit,
       queues, loop
  <2> QED BY <2>1, <1>2, <1>4
<1>16. CASE RunEventLoop
  <2>1. UNCHANGED <<now, event_queue, timer_queue, call>> /\ event_cnt' = 0 /\ pc' # "sleep"
    BY <1>16 DEF RunEventLoop, queues
  <2> QED BY <2>1 DEF DispatchOrder, Sorted, TimersTimed, SleepFresh
<1>17. CASE LoopFetch
  <2>1. Fetch /\ event_cnt' = 0 /\ now' = now /\ call' = call /\ \E tick \in BOOLEAN : NeedFetch(tick)
    BY <1>17 DEF LoopFetch
  <2>2. event_queue = << >> \/ event_cnt # 0
    BY <2>1, <1>0, NumberAssumption DEF NeedFetch, TypeOK
  <2>3. \A i \in 1..Len(event_queue) : event_queue[i].runtime = 0
    BY <2>2, <1>0 DEF DispatchOrder, TypeOK
  <2> QED BY <2>1, <2>3, <1>0, FetchKeepsOrder
<1>18. CASE Wake \/ SpuriousWake
  <2>1. Fetch /\ pc = "sleep" /\ UNCHANGED <<event_cnt, now, call>>
    BY <1>18 DEF Wake, SpuriousWake, loop
  <2>2. event_queue = << >> /\ event_cnt' = 0
    BY <2>1 DEF NoLostWakeup, SleepFresh
  <2>3. \A i \in 1..Len(event_queue) : event_queue[i].runtime = 0
    BY <2>2
  <2> QED BY <2>1, <2>2, <2>3, <1>0, FetchKeepsOrder
<1>19. CASE Dispatch
  <2>1. /\ event_queue # << >> /\ event_queue' = Tail(event_queue)
        /\ event_cnt' = IF event_queue[1].runtime = 0 THEN event_cnt + 1 ELSE event_cnt
        /\ UNCHANGED <<now, timer_queue, call>> /\ pc' # "sleep"
    BY <1>19, <1>0 DEF Dispatch, Counted, TypeInv, DispatchHasWork, TypeOK
  <2>2. /\ Ordered(event_queue) => Ordered(event_queue')
        /\ \A i \in 1..Len(event_queue') : i + 1 \in 1..Len(event_queue) /\ event_queue'[i] = event_queue[i + 1]
    BY <1>0, <2>1, TailEvents DEF TypeOK
  <2>3. Ordered(event_queue')
    BY <2>2 DEF DispatchOrder, Ordered
  <2>4. \A i \in 1..Len(event_queue') : event_queue'[i].runtime <= now
    BY <2>2 DEF DispatchOrder
  <2>5. ASSUME event_cnt' # 0, NEW i \in 1..Len(event_queue')
        PROVE  event_queue'[i].runtime = 0
    <3>1. CASE event_cnt # 0
      BY <3>1, <2>2 DEF DispatchOrder
    <3>2. CASE event_queue[1].runtime = 0
      <4>1. 1 \in 1..Len(event_queue) /\ i + 1 \in 1..Len(event_queue) /\ 1 < i + 1
        BY <1>0, <2>1, <2>2 DEF TypeOK
      <4> QED BY <3>2, <4>1, <2>2 DEF DispatchOrder
    <3> QED BY <2>1, <2>5, <3>1, <3>2
  <2> QED BY <2>1, <2>3, <2>4, <2>5 DEF DispatchOrder, Ordered, Sorted, TimersTimed, SleepFresh
<1>20. CASE UNCHANGED vars
  BY <1>20, <1>2, <1>4 DEF vars
<1> QED BY <1>1, <1>5, <1>6, <1>7, <1>8, <1>10, <1>11, <1>12, <1>13, <1>14, <1>15, <1>16, <1>17,
           <1>18, <1>19, <1>20 DEF Next, BgNext

\* NodeOwnership, one clause per way in which a node could be shared; the
\* types keep the nodes of event_buf[] and of the heap apart.
Held == NodesOf(event_queue) \cup NodesOf(timer_queue)
Free == free_queue \cup free_bg_queue \cup heap
Spread ==
    /\ Distinct(event_queue)
    /\ Distinct(timer_queue)
    /\ free_queue \cap free_bg_queue = {}
    /\ Free \cap Held = {}
    /\ NodesOf(event_queue) \cap NodesOf(timer_queue) = {}
    /\ cur.node \notin Free \cup Held
    /\ Nodes \subseteq Free \cup Held \cup {cur.node}

\* No node is lost when run_event_loop() takes the next event, because the
\* last one was freed.
LoopIdle == pc \in {"loop", "sleep", "dispatch"} => cur = NoEvent

\* Queued events are made of nodes.
LEMMA NodesOfEvents ==
    ASSUME NEW q \in Seq(Event)
    PROVE  NodesOf(q) \subseteq Nodes
  BY EntryFacts DEF NodesOf

\* Spread is what NodeOwnership says.
LEMMA SpreadOwns ==
    ASSUME TypeOK, Spread
    PROVE  NodeOwnership
<1> DEFINE places == <<free_queue, free_bg_queue, heap, NodesOf(event_queue),
                       NodesOf(timer_queue), {cur.node} \ {NoNode}>>
<1>1. NodesOf(event_queue) \subseteq Nodes /\ NodesOf(timer_queue) \subseteq Nodes
  BY NodesOfEvents DEF TypeOK
<1>2. {cur.node} \ {NoNode} \subseteq Nodes
  BY DEF TypeOK, Event, NoEvent
<1>3. /\ places[1] = free_queue /\ places[2] = free_bg_queue /\ places[3] = heap
      /\ places[4] = NodesOf(event_queue) /\ places[5] = NodesOf(timer_queue)
      /\ places[6] = {cur.node} \ {NoNode}
  OBVIOUS
<1> HIDE DEF places
<1>4. /\ places[1] \cap places[2] = {} /\ places[1] \cap places[3] = {}
      /\ places[1] \cap places[4] = {} /\ places[1] \cap places[5] = {}
      /\ places[1] \cap places[6] = {} /\ places[2] \cap places[3] = {}
      /\ places[2] \cap places[4] = {} /\ places[2] \cap places[5] = {}
      /\ places[2] \cap places[6] = {} /\ places[3] \cap places[4] = {}
      /\ places[3] \cap places[5] = {} /\ places[3] \cap places[6] = {}
      /\ places[4] \cap places[5] = {} /\ places[4] \cap places[6] = {}
      /\ places[5] \cap places[6] = {}
  BY <1>3, NodeAssumption DEF Spread, Free, Held, TypeOK
<1>5. \A i, j \in 1..6 : i < j => places[i] \cap places[j] = {}
  <2> SUFFICES ASSUME NEW i \in 1..6, NEW j \in 1..6, i < j
               PROVE  places[i] \cap places[j] = {}
    OBVIOUS
  <2>1. i \in {1, 2, 3, 4, 5} /\ j \in {2, 3, 4, 5, 6}
    OBVIOUS
  <2>2. CASE i = 1
    BY <2>1, <2>2, <1>4
  <2>3. CASE i = 2
    BY <2>1, <2>3, <1>4
  <2>4. CASE i = 3
    BY <2>1, <2>4, <1>4
  <2>5. CASE i = 4
    BY <2>1, <2>5, <1>4
  <2>6. CASE i = 5
    BY <2>1, <2>6, <1>4
  <2> QED BY <2>1, <2>2, <2>3, <2>4, <2>5, <2>6
<1>6. \A i, j \in 1..6 : i # j => places[i] \cap places[j] = {}
  <2> SUFFICES ASSUME NEW i \in 1..6, NEW j \in 1..6, i # j
               PROVE  places[i] \cap places[j] = {}
    OBVIOUS
  <2>1. places[i] \cap places[j] = places[j] \cap places[i]
    OBVIOUS
  <2>2. i < j \/ j < i
    OBVIOUS
  <2> QED BY <2>1, <2>2, <1>5
<1>7. UNION {places[i] : i \in 1..6} = Nodes
  <2>1. \A i \in 1..6 : places[i] \subseteq Nodes
    <3> TAKE i \in 1..6
    <3>1. i \in {1, 2, 3, 4, 5, 6}
      OBVIOUS
    <3> QED BY <3>1, <1>1, <1>2, <1>3 DEF TypeOK
  <2>2. ASSUME NEW n \in Nodes
        PROVE  \E i \in 1..6 : n \in places[i]
    <3>1. \/ n \in places[1] \/ n \in places[2] \/ n \in places[3] \/ n \in places[4]
          \/ n \in places[5] \/ n \in places[6]
      BY <1>3, NodeAssumption DEF Spread, Free, Held
    <3>2. 1 \in 1..6 /\ 2 \in 1..6 /\ 3 \in 1..6 /\ 4 \in 1..6 /\ 5 \in 1..6 /\ 6 \in 1..6
      OBVIOUS
    <3> QED BY <3>1, <3>2
  <2> QED BY <2>1, <2>2
<1> QED BY <1>6, <1>7 DEF NodeOwnership, Spread, places

\* free_event_node puts back a node that was in one of the queues, or whose
\* handler just returned.
LEMMA FreeNodeAdds ==
    ASSUME TypeOK, Spread, NEW n \in Nodes, FreeNode(n), n \notin Free
    PROVE  Free' = Free \cup {n} /\ free_queue' \cap free_bg_queue' = {}
  BY DEF FreeNode, Free, Spread

\* Every step keeps each node in one place.
LEMMA SpreadStep == TypeInv /\ LoopIdle /\ Spread /\ [Next]_vars => Spread'
<1> SUFFICES ASSUME TypeInv, LoopIdle, Spread, [Next]_vars
             PROVE  Spread'
  OBVIOUS
<1>0. /\ TypeOK
      /\ event_queue \in Seq(Event) /\ timer_queue \in Seq(Event)
      /\ NodesOf(event_queue) \subseteq Nodes /\ NodesOf(timer_queue) \subseteq Nodes
  BY NodesOfEvents DEF TypeInv, TypeOK
<1>1. CASE UNCHANGED <<queues, pools, cur>>
  <2>1. UNCHANGED <<event_queue, timer_queue, free_queue, free_bg_queue, heap, cur>>
    BY <1>1 DEF queues, pools
  <2>2. UNCHANGED <<NodesOf(event_queue), NodesOf(timer_queue), Free>>
    BY <2>1 DEF NodesOf, Free
  <2>3. Distinct(event_queue)' = Distinct(event_queue) /\ Distinct(timer_queue)' = Distinct(timer_queue)
    BY <2>1 DEF Distinct
  <2> QED BY <2>1, <2>2, <2>3 DEF Spread, Held
<1>2. ASSUME NEW t \in Callers, call[t].pc = "post",
             NEW n \in Free, Free' = Free \ {n}, free_queue' \cap free_bg_queue' = {},
             NEW k \in 0..Len(timer_queue),
             timer_queue' = InsertAt(timer_queue, k + 1,
                [node |-> n, handler |-> call[t].handler, runtime |-> call[t].runtime]),
             UNCHANGED <<event_queue, cur>>
      PROVE  Spread'
  <2> DEFINE e == [node |-> n, handler |-> call[t].handler, runtime |-> call[t].runtime]
  <2>1. e \in Event /\ e.node = n
    BY <1>0, <1>2, CallFacts DEF Event, Free, TypeOK
  <2>2. timer_queue' = InsertAt(timer_queue, k + 1, e)
    BY <1>2
  <2> HIDE DEF e
  <2>3. n \notin Held
    BY <1>2 DEF Spread
  <2>4. NodesOf(timer_queue') = NodesOf(timer_queue) \cup {n} /\ Distinct(timer_queue')
    BY <1>0, <2>1, <2>2, <2>3, InsertAtEvents DEF Spread, Held
  <2> DEFINE E == NodesOf(event_queue)
             T == NodesOf(timer_queue)
             T2 == NodesOf(timer_queue')
  <2>5. Held' = E \cup T2 /\ Held = E \cup T /\ NodesOf(event_queue)' = E /\ NodesOf(timer_queue)' = T2
    BY <1>2 DEF Held, NodesOf
  <2>6. Distinct(event_queue)' /\ Distinct(timer_queue)'
    BY <1>2, <2>4 DEF Spread, Distinct
  <2> HIDE DEF E, T, T2
  <2>7. T2 = T \cup {n} /\ E \cap T = {}
    BY <2>4 DEF E, T, T2, Spread
  <2>8. /\ Free \cap Held = {} /\ cur.node \notin Free \cup Held
        /\ Nodes \subseteq Free \cup Held \cup {cur.node}
    BY DEF Spread
  <2> QED BY <1>2, <2>3, <2>5, <2>6, <2>7, <2>8 DEF Spread
<1>3. ASSUME NEW t \in Threads, BgInsert(t)
      PROVE  Spread'
  <2>1. PICK n \in AllocFrom(free_bg_queue), k \in 0..Len(timer_queue) :
          /\ timer_queue' = InsertAt(timer_queue, k + 1,
                [node |-> n, handler |-> call[t].handler, runtime |-> call[t].runtime])
          /\ free_bg_queue' = free_bg_queue \ {n}
          /\ heap' = heap \ {n}
    BY <1>3 DEF BgInsert
  <2>2. call[t].pc = "post" /\ UNCHANGED <<event_queue, free_queue, cur>>
    BY <1>3 DEF BgInsert
  <2>3. n \in free_bg_queue \cup heap /\ n \notin free_queue
    BY <1>0, NodeAssumption DEF AllocFrom, Spread, TypeOK
  <2>4. n \in Free /\ Free' = Free \ {n} /\ free_queue' \cap free_bg_queue' = {}
    BY <2>1, <2>2, <2>3 DEF Free, Spread
  <2> QED BY <2>1, <2>2, <2>4, <1>2
<1>4. CASE InsertDelayed
  <2>1. PICK n \in AllocFrom(free_queue), k \in 0..Len(timer_queue) :
          /\ timer_queue' = InsertAt(timer_queue, k + 1,
                [node |-> n, handler |-> call[Dispatcher].handler,
                 runtime |-> call[Dispatcher].runtime])
          /\ free_queue' = free_queue \ {n}
          /\ heap' = heap \ {n}
    BY <1>4 DEF InsertDelayed
  <2>2. call[Dispatcher].pc = "post" /\ UNCHANGED <<event_queue, free_bg_queue, cur>>
    BY <1>4 DEF InsertDelayed, TypeInv, PostingHoldsEvent
  <2>3. n \in free_queue \cup heap /\ n \notin free_bg_queue
    BY <1>0, NodeAssumption DEF AllocFrom, Spread, TypeOK
  <2>4. n \in Free /\ Free' = Free \ {n} /\ free_queue' \cap free_bg_queue' = {}
    BY <2>1, <2>2, <2>3 DEF Free, Spread
  <2> QED BY <2>1, <2>2, <2>4, <1>2
<1>5. ASSUME NEW h \in Handlers, PostEvent(h)
      PROVE  Spread'
  <2>1. PICK n \in AllocFrom(free_queue) :
          /\ event_queue' = Append(event_queue, [node |-> n, handler |-> h, runtime |-> 0])
          /\ free_queue' = free_queue \ {n}
          /\ heap' = heap \ {n}
    BY <1>5 DEF PostEvent, Enqueue
  <2>2. UNCHANGED <<timer_queue, free_bg_queue, cur>>
    BY <1>5 DEF PostEvent
  <2>3. n \in free_queue \cup heap /\ n \notin free_bg_queue /\ n \in Nodes
    BY <1>0, NodeAssumption DEF AllocFrom, Spread, TypeOK
  <2>4. n \in Free /\ Free' = Free \ {n} /\ free_queue' \cap free_bg_queue' = {}
    BY <2>1, <2>2, <2>3 DEF Free, Spread
  <2> DEFINE e == [node |-> n, handler |-> h, runtime |-> 0]
  <2>5. e \in Event /\ e.node = n /\ e.runtime = 0
    BY <2>3 DEF Event
  <2>6. event_queue' = Append(event_queue, e)
    BY <2>1
  <2> HIDE DEF e
  <2>7. n \notin Held
    BY <2>4 DEF Spread
  <2>8. NodesOf(event_queue') = NodesOf(event_queue) \cup {n} /\ Distinct(event_queue')
    BY <1>0, <2>5, <2>6, <2>7, AppendEvents DEF Spread, Held
  <2>9. Distinct(event_queue)' /\ Distinct(timer_queue)'
    BY <2>2, <2>8 DEF Spread, Distinct
  <2>10. NodesOf(event_queue)' = NodesOf(event_queue) \cup {n} /\ NodesOf(timer_queue)' = NodesOf(timer_queue)
    BY <2>2, <2>8 DEF NodesOf
  <2> QED BY <2>2, <2>4, <2>7, <2>9, <2>10 DEF Spread, Held
<1>6. ASSUME NEW h \in Handlers, CancelQueued(h)
      PROVE  Spread'
  <2>1. PICK i \in 1..Len(event_queue) : /\ event_queue' = RemoveAt(event_queue, i)
                                         /\ FreeNode(event_queue[i].node)
    BY <1>6 DEF CancelQueued
  <2>2. UNCHANGED <<timer_queue, cur>>
    BY <1>6 DEF CancelQueued
  <2> DEFINE n == event_queue[i].node
  <2>3. n \in Nodes /\ n \in NodesOf(event_queue) /\ n \notin NodesOf(timer_queue)
    BY <1>0, EntryFacts DEF NodesOf, Spread
  <2>4. NodesOf(event_queue') = NodesOf(event_queue) \ {n} /\ Distinct(event_queue')
    BY <1>0, <2>1, RemoveAtEvents DEF Spread
  <2> HIDE DEF n
  <2>5. n \notin Free /\ n \in Held
    BY <2>3 DEF Spread, Held
  <2>6. Free' = Free \cup {n} /\ free_queue' \cap free_bg_queue' = {}
    BY <1>0, <2>1, <2>3, <2>5, FreeNodeAdds DEF n
  <2>7. Distinct(event_queue)' /\ Distinct(timer_queue)'
    BY <2>2, <2>4 DEF Spread, Distinct
  <2>8. NodesOf(event_queue)' = NodesOf(event_queue) \ {n} /\ NodesOf(timer_queue)' = NodesOf(timer_queue)
    BY <2>2, <2>4 DEF NodesOf
  <2> QED BY <2>2, <2>3, <2>5, <2>6, <2>7, <2>8 DEF Spread, Held
<1>7. ASSUME NEW h \in Handlers, CancelTimed(h)
      PROVE  Spread'
  <2>1. PICK i \in 1..Len(timer_queue) : /\ timer_queue' = RemoveAt(timer_queue, i)
                                         /\ FreeNode(timer_queue[i].node)
    BY <1>7 DEF CancelTimed
  <2>2. UNCHANGED <<event_queue, cur>>
    BY <1>7 DEF CancelTimed
  <2> DEFINE n == timer_queue[i].node
  <2>3. n \in Nodes /\ n \in NodesOf(timer_queue) /\ n \notin NodesOf(event_queue)
    BY <1>0, EntryFacts DEF NodesOf, Spread
  <2>4. NodesOf(timer_queue') = NodesOf(timer_queue) \ {n} /\ Distinct(timer_queue')
    BY <1>0, <2>1, RemoveAtEvents DEF Spread
  <2> HIDE DEF n
  <2>5. n \notin Free /\ n \in Held
    BY <2>3 DEF Spread, Held
  <2>6. Free' = Free \cup {n} /\ free_queue' \cap free_bg_queue' = {}
    BY <1>0, <2>1, <2>3, <2>5, FreeNodeAdds DEF n
  <2>7. Distinct(event_queue)' /\ Distinct(timer_queue)'
    BY <2>2, <2>4 DEF Spread, Distinct
  <2>8. NodesOf(timer_queue)' = NodesOf(timer_queue) \ {n} /\ NodesOf(event_queue)' = NodesOf(event_queue)
    BY <2>2, <2>4 DEF NodesOf
  <2> QED BY <2>2, <2>3, <2>5, <2>6, <2>7, <2>8 DEF Spread, Held
<1>8. ASSUME Fetch, Free' = Free, free_queue' \cap free_bg_queue' = {}, cur' = cur
      PROVE  Spread'
  <2>1. /\ Distinct(event_queue)' /\ Distinct(timer_queue)'
        /\ NodesOf(event_queue)' \cup NodesOf(timer_queue)' = Held
        /\ NodesOf(event_queue)' \cap NodesOf(timer_queue)' = {}
    <3>1. CASE UNCHANGED queues
      <4>1. UNCHANGED <<NodesOf(event_queue), NodesOf(timer_queue)>>
        BY <3>1 DEF NodesOf, queues
      <4> QED BY <3>1, <4>1 DEF Spread, Distinct, Held, queues
    <3>2. CASE \E k \in 1..Len(timer_queue) :
                 Splices(event_queue', timer_queue', timer_queue, event_queue, k)
      <4>1. event_queue' \in Seq(Event) /\ timer_queue' \in Seq(Event)
        BY <1>0, <1>8, FetchTypes
      <4>2. /\ Distinct(event_queue) /\ Distinct(timer_queue)
            /\ NodesOf(timer_queue) \cap NodesOf(event_queue) = {}
        BY DEF Spread
      <4>3. /\ Distinct(event_queue') /\ Distinct(timer_queue')
            /\ NodesOf(event_queue') \cap NodesOf(timer_queue') = {}
            /\ NodesOf(event_queue') \cup NodesOf(timer_queue') = NodesOf(timer_queue) \cup NodesOf(event_queue)
        BY <1>0, <3>2, <4>1, <4>2, SpliceEvents
      <4>4. NodesOf(event_queue)' = NodesOf(event_queue') /\ NodesOf(timer_queue)' = NodesOf(timer_queue')
        BY DEF NodesOf
      <4>5. Distinct(event_queue)' /\ Distinct(timer_queue)'
        BY <4>3 DEF Distinct
      <4> QED BY <4>3, <4>4, <4>5 DEF Held
    <3> QED BY <1>0, <1>8, <3>1, <3>2, FetchMoves
  <2> QED BY <1>8, <2>1 DEF Spread, Held
<1>9. CASE LoopFetch
  <2>1. Fetch /\ cur' = cur /\ heap' = heap
    BY <1>9 DEF LoopFetch
  <2>2. PICK S \in SUBSET free_queue :
          /\ free_queue' = free_queue \ S
          /\ free_bg_queue' = free_bg_queue \cup S
    BY <1>9 DEF LoopFetch, Refill
  <2>3. Free' = Free /\ free_queue' \cap free_bg_queue' = {}
    BY <2>1, <2>2 DEF Free, Spread
  <2> QED BY <2>1, <2>3, <1>8
<1>10. CASE Wake \/ SpuriousWake
  <2>1. Fetch /\ cur' = cur /\ UNCHANGED <<free_queue, free_bg_queue, heap>>
    BY <1>10 DEF Wake, SpuriousWake, pools
  <2>2. Free' = Free /\ free_queue' \cap free_bg_queue' = {}
    BY <2>1 DEF Free, Spread
  <2> QED BY <2>1, <2>2, <1>8
<1>11. CASE Dispatch
  <2>1. /\ event_queue # << >> /\ event_queue' = Tail(event_queue)
        /\ cur' = Head(event_queue)
        /\ UNCHANGED <<timer_queue, free_queue, free_bg_queue, heap>>
    BY <1>11 DEF Dispatch, TypeInv, DispatchHasWork, pools
  <2>2. cur.node \notin Nodes
    BY <1>11, NodeAssumption DEF Dispatch, NoEvent, LoopIdle
  <2> DEFINE n == Head(event_queue).node
  <2>3. /\ Distinct(event_queue') /\ n \notin NodesOf(event_queue')
        /\ NodesOf(event_queue) = NodesOf(event_queue') \cup {n}
    BY <1>0, <2>1, TailEvents DEF Spread
  <2>4. cur'.node = n
    BY <2>1
  <2> HIDE DEF n
  <2>5. NodesOf(event_queue)' = NodesOf(event_queue') /\ NodesOf(timer_queue)' = NodesOf(timer_queue) /\ Free' = Free
    BY <2>1 DEF NodesOf, Free
  <2>6. Distinct(event_queue)' /\ Distinct(timer_queue)'
    BY <2>1, <2>3 DEF Spread, Distinct
  <2> QED BY <2>1, <2>2, <2>3, <2>4, <2>5, <2>6 DEF Spread, Held
<1>12. CASE HandlerReturn
  <2>1. cur # NoEvent /\ FreeNode(cur.node) /\ cur' = NoEvent /\ UNCHANGED <<event_queue, timer_queue>>
    BY <1>12 DEF HandlerReturn, queues
  <2> DEFINE n == cur.node
  <2>2. n \in Nodes
    BY <1>0, <2>1 DEF TypeOK, Event
  <2>3. n \notin Free /\ n \notin Held /\ cur'.node \notin Nodes
    BY <2>1, NodeAssumption DEF Spread, NoEvent
  <2> HIDE DEF n
  <2>4. Free' = Free \cup {n} /\ free_queue' \cap free_bg_queue' = {}
    BY <1>0, <2>1, <2>2, <2>3, FreeNodeAdds DEF n
  <2>5. NodesOf(event_queue)' = NodesOf(event_queue) /\ NodesOf(timer_queue)' = NodesOf(timer_queue)
    BY <2>1 DEF NodesOf
  <2>6. Distinct(event_queue)' /\ Distinct(timer_queue)'
    BY <2>1 DEF Spread, Distinct
  <2>7. Free \subseteq Nodes /\ Held \subseteq Nodes
    BY <1>0 DEF Free, Held, TypeOK
  <2>8. Nodes \subseteq Free \cup Held \cup {n}
    BY DEF Spread, n
  <2> QED BY <2>2, <2>3, <2>4, <2>5, <2>6, <2>7, <2>8 DEF Spread, Held
<1>13. CASE \/ Tick \/ CancelReturn \/ CancelEventLoop \/ RunEventLoop \/ LoopNoFetch \/ LoopExit
            \/ UNCHANGED vars
  BY <1>1, <1>13 DEF Tick, CancelReturn, CancelEventLoop, RunEventLoop, LoopNoFetch, LoopExit, vars,
     queues, pools
<1>14. ASSUME NEW h \in Handlers, CancelWait(h) \/ \E d \in Delays : PostDelayed(h, d)
       PROVE  Spread'
  BY <1>1, <1>14 DEF CancelWait, PostDelayed, queues, pools
<1>15. ASSUME NEW t \in Threads, \/ \E h \in Handlers : BgStart(t, h)
                                 \/ \E d \in Delays : BgReadClock(t, d)
                                 \/ BgSwallow(t)
       PROVE  Spread'
  BY <1>1, <1>15 DEF BgStart, BgReadClock, BgSwallow, queues, pools
<1> QED BY <1>3, <1>4, <1>5, <1>6, <1>7, <1>9, <1>10, <1>11, <1>12, <1>13, <1>14, <1>15 DEF Next, BgNext

\* A handler runs only while the loop waits for it.
LEMMA LoopIdleStep == TypeInv /\ LoopIdle /\ [Next]_vars => LoopIdle'
<1> SUFFICES ASSUME TypeInv, LoopIdle, [Next]_vars
             PROVE  LoopIdle'
  OBVIOUS
<1>1. CASE LoopFetch \/ Wake \/ SpuriousWake
  BY <1>1 DEF LoopFetch, Wake, SpuriousWake, LoopIdle
<1>2. CASE ~(LoopFetch \/ Wake \/ SpuriousWake)
  BY <1>2 DEF LoopIdle, Next, BgNext, vars, Tick, BgStart, BgReadClock, BgSwallow, BgInsert,
     PostEvent, PostDelayed, InsertDelayed, CancelQueued, CancelTimed, CancelWait, CancelReturn,
     CancelEventLoop, RunEventLoop, LoopNoFetch, Dispatch, HandlerReturn, LoopExit
<1> QED BY <1>1, <1>2

\* In every reachable state each node of event_buf[] and of the heap is in
\* exactly one place, and events will run in the order of their times, the
\* ready timed ones first and none early, however posts from the threads,
\* cancellations and wake-ups interleave.
THEOREM QueuesCorrect == Spec => []QueuesSound
<1>1. Init => OrderInv
  BY DEF Init, OrderInv, DispatchOrder, Sorted, TimersTimed, SleepFresh, NoCall
<1>2. Init => Spread /\ LoopIdle
  BY NodeAssumption DEF Init, Spread, LoopIdle, Free, Held, NodesOf, Distinct, NoEvent
<1>3. TypeInv /\ OrderInv /\ Spread => QueuesSound
  BY SpreadOwns DEF QueuesSound, OrderInv, TypeInv
<1> QED BY <1>1, <1>2, <1>3, TypeInit, TypeStep, WakeupCorrect, OrderStep, SpreadStep, LoopIdleStep,
           PTL DEF Spec
=============================================================================

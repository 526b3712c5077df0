------------------------------ MODULE AsyncReq ------------------------------
(***************************************************************************)
(* Worker threads that run blocking requests (framework/asyncreq.c), their *)
(* orderly shutdown (framework/shutdown.c) and the channels that use both. *)
(*                                                                         *)
(* Everything under wtlock is one action.  Events posted to the dispatch   *)
(* thread are a set from which any one may be dispatched next, except that *)
(* two events of one thread stay in order (EventQueue sorts by time).  The *)
(* dispatch thread does nothing else while notify_all() runs, the workers  *)
(* do.                                                                     *)
(*                                                                         *)
(* Channels are reduced to their requests (channel_tcp.c): a connect       *)
(* request, then a read request at all times until the channel is deleted, *)
(* and the write of the closing message.  BgReqs are requests posted from  *)
(* threads other than the dispatch thread.                                 *)
(***************************************************************************)
EXTENDS Shutdown, FiniteSets

CONSTANTS
    Workers,    \* bound on the threads that exist at once
    Chans,      \* channels
    BgReqs,     \* requests posted by other threads
    MaxIdle,    \* MAX_WORKER_THREADS
    None,       \* NULL
    TimerReq,   \* timer_req
    ShutdownReq \* shutdown_req

ASSUME ConstantAssumption ==
    /\ Objs = {"async", "channel"}
    /\ MaxIdle \in Nat
    /\ IsFiniteSet(Workers)

ReadReq(c)  == [chan |-> c, kind |-> "read"]
WriteReq(c) == [chan |-> c, kind |-> "write"]
Reqs == {ReadReq(c) : c \in Chans} \cup {WriteReq(c) : c \in Chans}
        \cup {[chan |-> b, kind |-> "bg"] : b \in BgReqs}

\* NULL, timer_req and shutdown_req are no one's requests.
ASSUME NullAssumption ==
    /\ None \notin Workers /\ None \notin Objs
    /\ None \notin Reqs /\ TimerReq \notin Reqs /\ ShutdownReq \notin Reqs
    /\ None \notin {TimerReq, ShutdownReq}

VARIABLES
    wpc,             \* where each worker thread is
    wreq,            \* wt->req
    wtlist,          \* idle workers; wtlist_size is its length
    wtrunning_count, \* workers that were created and not joined
    posted,          \* events posted to the dispatch thread
    sd,              \* shutdown.c
    chan,            \* state of each channel
    dpc,             \* what the dispatch thread is in the middle of
    iter,            \* notify_all(): the object to visit next
    timer_started    \* start_timer() ran

vars == <<wpc, wreq, wtlist, wtrunning_count, posted, sd, chan, dpc, iter, timer_started>>

DoneEv(r, w) == [ev |-> "done", of |-> r, by |-> w]
ExitEv(w)    == [ev |-> "exit", of |-> w, by |-> w]
AddEv(r)     == [ev |-> "add", of |-> r, by |-> None]
DoneEvs(r)   == {DoneEv(r, w) : w \in Workers}

-----------------------------------------------------------------------------
(* asyncreq.c                                                              *)

Outstanding(r) == \/ DoneEvs(r) \cap posted # {}
                  \/ AddEv(r) \in posted
                  \/ \E w \in Workers : wreq[w] = r

\* An idle worker is taken from the front of wtlist.
IdleWorker == wtlist # << >>
MutWithoutFirst(l) == l
WithoutFirst(l) == Tail(l)

\* worker_thread_exit(): one thread less, and whether it was the last one.
ThreadsAfterJoin(n) == n - 1
MutLastThread(n) == n <= 2
LastThread(n) == n = 1

\* worker_thread_add(): the first thread registers the pool with shutdown.c.
WorkerThreadAdd(r, s) ==
    \E w \in Workers :
        /\ wpc[w] = "none"
        /\ wpc' = [wpc EXCEPT ![w] = "run"]
        /\ wreq' = [wreq EXCEPT ![w] = r]
        /\ wtrunning_count' = wtrunning_count + 1
        /\ sd' = IF wtrunning_count = 0 THEN SetNormal(s, "async") ELSE s
        /\ UNCHANGED wtlist

\* async_req_post() hands r to a worker; s is the state of shutdown.c.
GiveToIdle(r, s) ==
    /\ IdleWorker
    /\ wpc' = [wpc EXCEPT ![Head(wtlist)] = "run"]
    /\ wreq' = [wreq EXCEPT ![Head(wtlist)] = r]
    /\ wtlist' = WithoutFirst(wtlist)
    /\ sd' = s
    /\ UNCHANGED wtrunning_count

\* async_req_post() on the dispatch thread.
AsyncReqPost(r, s) == GiveToIdle(r, s) \/ (~IdleWorker /\ WorkerThreadAdd(r, s))

\* async_req_post() on another thread: without an idle worker the new
\* thread is created later, on the dispatch thread.
BgPost(b) ==
    LET r == [chan |-> b, kind |-> "bg"]
    IN  /\ ~Outstanding(r)
        /\ \/ GiveToIdle(r, sd) /\ UNCHANGED posted
           \/ /\ ~IdleWorker
              /\ posted' = posted \cup {AddEv(r)}
              /\ UNCHANGED <<wpc, wreq, wtlist, wtrunning_count, sd>>
        /\ UNCHANGED <<chan, dpc, iter, timer_started>>

\* What depends on the peer may block for ever: a read until it sends or ends
\* the connection, a write until it reads.  A connect succeeds or fails.
MayBlock(r) == \/ r.kind = "read" /\ chan[r.chan] # "connecting"
               \/ r.kind = "write"

\* MAX_WORKER_THREADS idle workers exist, or the pool is shutting down.
MutMustLeave == Len(wtlist) >= MaxIdle
MustLeave == Len(wtlist) >= MaxIdle \/ sd.state["async"] = "PENDING"

\* worker_thread_handler(): the request is done; the event is posted, and
\* the worker joins wtlist or leaves, in one critical section.
WorkerComplete(w) ==
    /\ wpc[w] = "run"
    /\ wreq[w] \in Reqs
    /\ posted' = posted \cup {DoneEv(wreq[w], w)}
    /\ wreq' = [wreq EXCEPT ![w] = None]
    /\ IF MustLeave
       THEN wpc' = [wpc EXCEPT ![w] = "leaving"] /\ UNCHANGED wtlist
       ELSE wpc' = [wpc EXCEPT ![w] = "idle"] /\ wtlist' = Append(wtlist, w)
    /\ UNCHANGED <<wtrunning_count, sd, chan, dpc, iter, timer_started>>

\* The timer worker looks at the shutdown state after each period, and a
\* worker that was woken with shutdown_req leaves.
WorkerStop(w) ==
    /\ wpc[w] = "run"
    /\ \/ wreq[w] = ShutdownReq
       \/ wreq[w] = TimerReq /\ sd.state["async"] = "PENDING"
    /\ wpc' = [wpc EXCEPT ![w] = "leaving"]
    /\ wreq' = [wreq EXCEPT ![w] = None]
    /\ UNCHANGED <<wtlist, wtrunning_count, posted, sd, chan, dpc, iter, timer_started>>

WorkerLeave(w) ==
    /\ wpc[w] = "leaving"
    /\ wpc' = [wpc EXCEPT ![w] = "exited"]
    /\ posted' = posted \cup {ExitEv(w)}
    /\ UNCHANGED <<wreq, wtlist, wtrunning_count, sd, chan, dpc, iter, timer_started>>

-----------------------------------------------------------------------------
(* Events on the dispatch thread.                                          *)

Ready == dpc = "idle" /\ ~sd.complete

\* worker_thread_exit(): the thread is joined; the last one stops the pool.
WorkerThreadExit(w) ==
    /\ Ready
    /\ ExitEv(w) \in posted
    /\ \A e \in posted : e.by = w => e = ExitEv(w)
    /\ posted' = posted \ {ExitEv(w)}
    /\ wpc' = [wpc EXCEPT ![w] = "none"]
    /\ wtrunning_count' = ThreadsAfterJoin(wtrunning_count)
    /\ sd' = IF LastThread(wtrunning_count) THEN SetStopped(sd, "async") ELSE sd
    /\ UNCHANGED <<wreq, wtlist, chan, dpc, iter, timer_started>>

\* worker_thread_add_deferred(): always a new thread.
WorkerThreadAddDeferred(r) ==
    /\ Ready
    /\ AddEv(r) \in posted
    /\ posted' = posted \ {AddEv(r)}
    /\ WorkerThreadAdd(r, sd)
    /\ UNCHANGED <<chan, dpc, iter, timer_started>>

StartTimer ==
    /\ Ready
    /\ ~timer_started
    /\ timer_started' = TRUE
    /\ AsyncReqPost(TimerReq, sd)
    /\ UNCHANGED <<posted, chan, dpc, iter>>

BgDone(b) ==
    LET r == [chan |-> b, kind |-> "bg"]
    IN  /\ Ready
        /\ DoneEvs(r) \cap posted # {}
        /\ posted' = posted \ DoneEvs(r)
        /\ UNCHANGED <<wpc, wreq, wtlist, wtrunning_count, sd, chan, dpc, iter, timer_started>>

-----------------------------------------------------------------------------
(* Channels.                                                               *)

\* channel_connect(): nothing is registered until the connect succeeds.
ChannelConnect(c) ==
    /\ Ready
    /\ chan[c] = "none"
    /\ ~Outstanding(WriteReq(c))
    /\ AsyncReqPost(ReadReq(c), sd)
    /\ chan' = [chan EXCEPT ![c] = "connecting"]
    /\ UNCHANGED <<posted, dpc, iter, timer_started>>

\* create_channel(): the channel registers and starts to read.
ConnectDone(c) ==
    /\ Ready
    /\ chan[c] = "connecting"
    /\ DoneEvs(ReadReq(c)) \cap posted # {}
    /\ posted' = posted \ DoneEvs(ReadReq(c))
    /\ \/ /\ chan' = [chan EXCEPT ![c] = "open"]
          /\ AsyncReqPost(ReadReq(c), SetNormal(sd, "channel"))
       \/ /\ chan' = [chan EXCEPT ![c] = "none"]
          /\ UNCHANGED <<wpc, wreq, wtlist, wtrunning_count, sd>>
    /\ UNCHANGED <<dpc, iter, timer_started>>

\* The last channel that goes unregisters (delete_channel(); there are no
\* listening sockets here, so channel_server_root is empty).
LastChannel(c) == \A d \in Chans \ {c} : chan[d] \in {"none", "connecting"}

DeleteChannel(c) ==
    /\ chan' = [chan EXCEPT ![c] = "none"]
    /\ sd' = IF LastChannel(c)
             THEN SetStopped(sd, "channel") ELSE sd

\* tcp_channel_read_done(): read on while there is data, which a closed channel
\* throws away; at the end of the peer's stream give the closed channel up.
ReadDone(c) ==
    /\ Ready
    /\ DoneEvs(ReadReq(c)) \cap posted # {}
    /\ posted' = posted \ DoneEvs(ReadReq(c))
    /\ \/ /\ chan[c] \in {"open", "closing"}
          /\ AsyncReqPost(ReadReq(c), sd)
          /\ UNCHANGED chan
       \/ /\ chan[c] = "closing"
          /\ ~Outstanding(WriteReq(c))
          /\ DeleteChannel(c)
          /\ UNCHANGED <<wpc, wreq, wtlist, wtrunning_count>>
       \/ /\ chan[c] = "closing"
          /\ Outstanding(WriteReq(c))
          /\ chan' = [chan EXCEPT ![c] = "draining"]
          /\ UNCHANGED <<wpc, wreq, wtlist, wtrunning_count, sd>>
    /\ UNCHANGED <<dpc, iter, timer_started>>

\* done_write_request(): the closing message is out, or the write failed.
WriteDone(c) ==
    /\ Ready
    /\ DoneEvs(WriteReq(c)) \cap posted # {}
    /\ posted' = posted \ DoneEvs(WriteReq(c))
    /\ IF chan[c] = "draining" THEN DeleteChannel(c) ELSE UNCHANGED <<chan, sd>>
    /\ UNCHANGED <<wpc, wreq, wtlist, wtrunning_count, dpc, iter, timer_started>>

\* channel_close() -> send_eof_and_close(): the closing message is written.
ChannelClose(c) ==
    /\ chan[c] = "open"
    /\ AsyncReqPost(WriteReq(c), sd)
    /\ chan' = [chan EXCEPT ![c] = "closing"]

UserClose(c) ==
    /\ Ready
    /\ ChannelClose(c)
    /\ UNCHANGED <<posted, dpc, iter, timer_started>>

-----------------------------------------------------------------------------
(* notify_all() and the callbacks it calls.                                *)

ShutdownStart ==
    /\ Ready
    /\ ~sd.started
    /\ sd' = Start(sd)
    /\ UNCHANGED <<wpc, wreq, wtlist, wtrunning_count, posted, chan, dpc, iter, timer_started>>

\* Bound: enough thread identities for the closing messages.
ThreadBound == Cardinality({w \in Workers : wpc[w] = "none"})
                 >= Cardinality({c \in Chans : chan[c] = "open"})

NotifyAll ==
    /\ Ready
    /\ ThreadBound
    /\ sd.notify_pending
    /\ sd' = NotifyBegin(sd)
    /\ IF sd.active = << >>
       THEN UNCHANGED <<dpc, iter>>
       ELSE dpc' = "notify" /\ iter' = Head(sd.active)
    /\ UNCHANGED <<wpc, wreq, wtlist, wtrunning_count, posted, chan, timer_started>>

\* One turn of the loop: the state is set before the callback takes wtlock.
NotifyObject ==
    /\ dpc = "notify"
    /\ iter # None
    /\ iter' = NextActive(sd, iter, None)
    /\ IF sd.state[iter] = "NORMAL"
       THEN /\ sd' = NotifyVisit(sd, iter)
            /\ dpc' = IF iter = "async" THEN "trigger async" ELSE "trigger channel"
       ELSE UNCHANGED <<sd, dpc>>
    /\ UNCHANGED <<wpc, wreq, wtlist, wtrunning_count, posted, chan, timer_started>>

NotifyReturn ==
    /\ dpc = "notify"
    /\ iter = None
    /\ dpc' = "idle"
    /\ UNCHANGED <<wpc, wreq, wtlist, wtrunning_count, posted, sd, chan, iter, timer_started>>

\* trigger_async_shutdown(): every idle worker is woken with shutdown_req.
TriggerAsyncShutdown ==
    /\ dpc = "trigger async"
    /\ wpc' = [w \in Workers |-> IF w \in ToSet(wtlist) THEN "run" ELSE wpc[w]]
    /\ wreq' = [w \in Workers |-> IF w \in ToSet(wtlist) THEN ShutdownReq ELSE wreq[w]]
    /\ wtlist' = << >>
    /\ dpc' = "notify"
    /\ UNCHANGED <<wtrunning_count, posted, sd, chan, iter, timer_started>>

\* trigger_channel_shutdown(): channels are closed one by one.
TriggerChannelShutdown ==
    /\ dpc = "trigger channel"
    /\ \/ (\E c \in Chans : ChannelClose(c)) /\ UNCHANGED dpc
       \/ /\ \A c \in Chans : chan[c] # "open"
          /\ dpc' = "notify"
          /\ UNCHANGED <<wpc, wreq, wtlist, wtrunning_count, sd, chan>>
    /\ UNCHANGED <<posted, iter, timer_started>>

-----------------------------------------------------------------------------
Init ==
    /\ wpc = [w \in Workers |-> "none"]
    /\ wreq = [w \in Workers |-> None]
    /\ wtlist = << >>
    /\ wtrunning_count = 0
    /\ posted = {}
    /\ sd = ShutdownInit
    /\ chan = [c \in Chans |-> "none"]
    /\ dpc = "idle"
    /\ iter = None
    /\ timer_started = FALSE

Dispatch ==
    \/ \E w \in Workers : WorkerThreadExit(w)
    \/ \E r \in Reqs : WorkerThreadAddDeferred(r)
    \/ \E b \in BgReqs : BgDone(b)
    \/ StartTimer
    \/ \E c \in Chans : ConnectDone(c) \/ ReadDone(c) \/ WriteDone(c)
    \/ NotifyAll

Next ==
    \/ \E w \in Workers : WorkerComplete(w) \/ WorkerStop(w) \/ WorkerLeave(w)
    \/ \E b \in BgReqs : BgPost(b)
    \/ \E c \in Chans : ChannelConnect(c) \/ UserClose(c)
    \/ ShutdownStart
    \/ Dispatch
    \/ NotifyObject
    \/ NotifyReturn
    \/ TriggerAsyncShutdown
    \/ TriggerChannelShutdown

\* Threads run and every posted event is dispatched (EventQueue shows it);
\* a request that cannot block for ever completes.
Fairness ==
    /\ \A w \in Workers :
         /\ WF_vars(wreq[w] \in Reqs /\ ~MayBlock(wreq[w]) /\ WorkerComplete(w))
         /\ WF_vars(WorkerStop(w))
         /\ WF_vars(WorkerLeave(w))
         /\ WF_vars(WorkerThreadExit(w))
    /\ \A r \in Reqs : WF_vars(WorkerThreadAddDeferred(r))
    /\ \A b \in BgReqs : WF_vars(BgDone(b))
    /\ \A c \in Chans : WF_vars(ConnectDone(c)) /\ WF_vars(ReadDone(c)) /\ WF_vars(WriteDone(c))
    /\ SF_vars(NotifyAll)
    /\ WF_vars(NotifyObject \/ NotifyReturn \/ TriggerAsyncShutdown \/ TriggerChannelShutdown)

Spec == Init /\ [][Next]_vars
FairSpec == Spec /\ Fairness

-----------------------------------------------------------------------------
(* Correctness.                                                            *)

TypeOK ==
    /\ wpc \in [Workers -> {"none", "run", "idle", "leaving", "exited"}]
    /\ wreq \in [Workers -> Reqs \cup {None, TimerReq, ShutdownReq}]
    /\ wtlist \in Seq(Workers)
    /\ wtrunning_count \in 0..Cardinality(Workers)
    /\ posted \subseteq (UNION {DoneEvs(r) : r \in Reqs}) \cup {AddEv(r) : r \in Reqs}
                        \cup {ExitEv(w) : w \in Workers}
    /\ sd \in ShutdownRec
    /\ chan \in [Chans -> {"none", "connecting", "open", "closing", "draining"}]
    /\ dpc \in {"idle", "notify", "trigger async", "trigger channel"}
    /\ iter \in Objs \cup {None}
    /\ timer_started \in BOOLEAN

\* The pool's books: wtlist holds exactly the idle workers, once, with no
\* request and never more than MAX_WORKER_THREADS, and wtrunning_count is the
\* number of threads that were created and not joined.
PoolBooks ==
    /\ TypeOK
    /\ Len(wtlist) <= MaxIdle
    /\ ToSet(wtlist) = {w \in Workers : wpc[w] = "idle"}
    /\ \A i, j \in 1..Len(wtlist) : wtlist[i] = wtlist[j] => i = j
    /\ \A w \in Workers : wpc[w] = "run" <=> wreq[w] # None
    /\ wtrunning_count = Cardinality({w \in Workers : wpc[w] # "none"})

\* A request is in one place: waiting for a thread, run by one worker, or
\* completed and on its way back.  It is never run twice or dropped.
RequestOnce ==
    \A r \in Reqs :
        Cardinality({w \in Workers : wreq[w] = r})
          + Cardinality(posted \cap (DoneEvs(r) \cup {AddEv(r)})) =
        CASE r.kind = "read" -> IF chan[r.chan] \in {"connecting", "open", "closing"} THEN 1 ELSE 0
          [] r.kind = "write" /\ chan[r.chan] = "draining" -> 1
          [] r.kind = "write" /\ chan[r.chan] \in {"none", "connecting", "open"} -> 0
          [] OTHER -> IF Outstanding(r) THEN 1 ELSE 0

\* shutdown_active lists exactly the objects that are not stopped, and
\* notify_all() is never left with a saved pointer to one that was removed.
ActiveListSafe ==
    /\ ActiveExact(sd)
    /\ iter # None => sd.state[iter] # "STOPPED"

\* No worker is left asleep: once trigger_async_shutdown() ran no worker is
\* or becomes idle, although workers test the state while notify_all() sets it.
NoSleeperLeft ==
    sd.state["async"] = "PENDING" /\ dpc # "trigger async" => wtlist = << >>

\* The complete handler runs only when every worker thread was joined and no
\* channel or request of the dispatch thread is left.
ShutdownSound ==
    sd.complete => /\ wtrunning_count = 0
                   /\ \A c \in Chans : chan[c] = "none"
                   /\ \A r \in Reqs : r.kind # "bg" => ~Outstanding(r)

\* A shutdown overlooks nobody and is never forgotten: the pool is registered
\* exactly while threads exist, and channels while channels exist; and as long
\* as the shutdown is not complete there is someone left to call
\* shutdown_set_stopped(), or notify_all() is on its way.
ShutdownNotForgotten ==
    /\ sd.state["async"] # "STOPPED" <=> wtrunning_count > 0
    /\ sd.state["channel"] # "STOPPED" <=> \E c \in Chans : chan[c] \notin {"none", "connecting"}
    /\ sd.started /\ ~sd.complete /\ sd.active = << >> => sd.notify_pending

\* The pool as its users see it: no request is lost or run twice, the books
\* are right, and no worker sleeps through a shutdown.
PoolSound == PoolBooks /\ RequestOnce /\ NoSleeperLeft

\* The shutdown as its users see it: the list of active objects is safe to
\* walk, a shutdown is complete only when all work has ended, and as long as
\* it is not, somebody is left to go on with it.
ShutdownSafe == ActiveListSafe /\ ShutdownSound /\ ShutdownNotForgotten

\* A connection that was established behind the back of the shutdown:
\* create_channel() registered a channel after notify_all() had closed all of
\* them, and nothing notifies the channels again.
LateChannel ==
    /\ sd.started /\ ~sd.notify_pending /\ dpc = "idle"
    /\ \E c \in Chans : chan[c] = "open"

\* A closed channel waits for its peer: send_eof_and_close() ends only its own
\* direction, and then the channel is read to the end of the peer's, without
\* a timeout.  A write may wait for a peer that does not read.
WaitsForPeer == \E c \in Chans : chan[c] \in {"closing", "draining"}

\* Nobody goes on for ever to connect during the shutdown.
UsersStop == <>[][~(sd.started /\ \E c \in Chans : ChannelConnect(c))]_vars

\* A shutdown that was started completes: no worker, no event and no turn of
\* notify_all() is lost on the way.  Three things the code has no answer to are
\* excepted: a late channel, a peer that never ends its connection, so that a
\* closed channel waits for ever, and users that connect again and again.
ShutdownCompletes ==
    UsersStop => (sd.started ~> (sd.complete \/ LateChannel \/ []WaitsForPeer))
=============================================================================

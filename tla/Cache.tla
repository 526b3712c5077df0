-------------------------------- MODULE Cache --------------------------------
(***************************************************************************)
(* Asynchronous caches (framework/cache.c) with two of their providers:    *)
(* the line-number proxy (services/linenumbers_proxy.c), which fills an    *)
(* entry with the reply of a remote peer, and the safe-event queue of      *)
(* services/runctrl.c.                                                     *)
(*                                                                         *)
(* A client is code that reads caches.  A miss interrupts it, it waits in  *)
(* the list of the cache, and it is run again, from the start, once the    *)
(* cache was filled.  Everything happens on the dispatch thread; a run is  *)
(* a sequence of steps during which no other event is dispatched.          *)
(***************************************************************************)
EXTENDS Integers, FiniteSets, Sequences

CONSTANTS
    Clients,   \* invocations of cache_enter()
    Chans,     \* channels
    Keys,      \* what line_to_address() and address_to_line() look up
    Entries,   \* memory for cache entries
    Gate,      \* safe_events_cache
    NULL,
    ChanOf,    \* the channel argument of cache_enter(), per client
    IdMod,     \* id_cnt wraps at this value
    MaxAccess, \* bound: cache accesses in one run
    MaxSafe,   \* bound: safe events posted
    MaxFlush   \* bound: context changes that flush the cache

ASSUME ConstantAssumption ==
    /\ IsFiniteSet(Clients)
    /\ ChanOf \in [Clients -> Chans \cup {NULL}]
    /\ NULL \notin Chans \cup Clients
    /\ Gate \notin Entries
    /\ IdMod \in Nat \ {0, 1}
    /\ {MaxAccess, MaxSafe, MaxFlush} \subseteq Nat

Caches == Entries \cup {Gate}

VARIABLES
    current_client, \* the client that runs: [client, id]
    client_exited,
    cache_miss_cnt,
    access_cnt,     \* accesses made in this run (bounded)
    id_cnt,
    wait_list,      \* wait_list_buf of each cache
    cache_list,     \* caches that have waiting clients
    batch,          \* the clients cache_notify() or cache_notify_event() has still to run
    posted,         \* buffers posted to cache_notify_event()
    args,           \* where the arguments of each client are
    last_event,     \* what transaction listeners were told last
    entry,          \* LineNumbersCacheEntry
    root,           \* channels that have a LineNumbersCache
    chan,           \* state of each channel
    lock_cnt,       \* lock count of each channel
    safe_cnt,       \* length of safe_event_list
    safe_posted,    \* safe events posted so far (bounded)
    flush_cnt       \* context changes so far (bounded)

client_vars == <<current_client, client_exited, cache_miss_cnt, access_cnt, args, last_event>>
entry_vars  == <<entry, root>>
safe_vars   == <<safe_cnt, safe_posted>>
vars == <<client_vars, id_cnt, wait_list, cache_list, batch, posted, entry_vars,
          chan, lock_cnt, safe_vars, flush_cnt>>

Waiter   == [client : Clients, id : 1..IdMod - 1]
NoClient == [client |-> NULL, id |-> 0]
NoEntry  == [st |-> "free", chan |-> NULL, key |-> NULL, pending |-> FALSE]

Running == current_client.client # NULL
Idle    == ~Running /\ batch = << >>

-----------------------------------------------------------------------------
(* Channels.                                                               *)

Lock(l, c) == IF c = NULL THEN l ELSE [l EXCEPT ![c] = @ + 1]

Unlock(c) ==
    IF c = NULL
    THEN UNCHANGED <<lock_cnt, chan>>
    ELSE /\ lock_cnt' = [lock_cnt EXCEPT ![c] = @ - 1]
         /\ chan' = [chan EXCEPT ![c] = IF lock_cnt[c] = 1 THEN "deleted" ELSE @]

-----------------------------------------------------------------------------
(* cache.c                                                                 *)

\* The identifier after n; 0 means that no client runs.
NextId(n) == IF n = 0 THEN 1 ELSE n

IdAfter(n) == (n + 1) % IdMod

\* cache_enter(): the arguments are on the stack of the caller.
CacheEnter(c) ==
    /\ Idle
    /\ last_event[c] = "none"
    /\ ChanOf[c] # NULL => chan[ChanOf[c]] = "open"
    /\ current_client' = [client |-> c, id |-> NextId(id_cnt)]
    /\ id_cnt' = IdAfter(NextId(id_cnt))
    /\ args' = [args EXCEPT ![c] = "stack"]
    /\ last_event' = [last_event EXCEPT ![c] = "START"]
    /\ UNCHANGED <<client_exited, cache_miss_cnt, access_cnt, wait_list, cache_list, batch,
                   posted, entry_vars, chan, lock_cnt, safe_vars, flush_cnt>>

\* Only the first miss of a run registers the client.
MutRegisters(n) == TRUE
Registers(n) == n = 0

\* cache_wait(): the client waits in the list of cache a, with a copy of its
\* arguments and its channel locked.  locks: lock counts before the call.
CacheWait(a, locks) ==
    LET c == current_client.client
    IN  /\ IF Registers(cache_miss_cnt)
           THEN /\ wait_list' = [wait_list EXCEPT ![a] = Append(@, current_client)]
                /\ cache_list' = IF wait_list[a] = << >> THEN cache_list \cup {a} ELSE cache_list
                /\ args' = [args EXCEPT ![c] = "heap"]
                /\ lock_cnt' = Lock(locks, ChanOf[c])
           ELSE /\ lock_cnt' = locks
                /\ UNCHANGED <<wait_list, cache_list, args>>
        /\ cache_miss_cnt' = cache_miss_cnt + 1

\* The memory that run_cache_client() leaves to the client it ran: a copy is
\* freed unless the client waits, the caller's stack frame is gone.
MutArgsAfterRun(a, n) == IF a = "heap" THEN "freed" ELSE "gone"
ArgsAfterRun(a, n) == IF n > 0 THEN a ELSE IF a = "heap" THEN "freed" ELSE "gone"

\* run_cache_client() ends, by return or by exception.  A client that was run
\* again gives back the lock that it held while it waited.
RunEnd ==
    LET c == current_client.client
    IN  /\ last_event' = [last_event EXCEPT ![c] = IF client_exited THEN "COMMIT" ELSE "ABORT"]
        /\ args' = [args EXCEPT ![c] = ArgsAfterRun(@, cache_miss_cnt)]
        /\ current_client' = NoClient
        /\ cache_miss_cnt' = 0
        /\ client_exited' = FALSE
        /\ access_cnt' = 0
        /\ IF batch = << >>
           THEN UNCHANGED <<batch, lock_cnt, chan>>
           ELSE batch' = Tail(batch) /\ Unlock(ChanOf[c])
        /\ UNCHANGED <<id_cnt, wait_list, cache_list, posted, entry_vars, safe_vars, flush_cnt>>

\* cache_exit(): with a miss behind it the client is interrupted here.
ExitThrows(n) == n > 0

CacheExit ==
    /\ Running
    /\ ~client_exited
    /\ IF ExitThrows(cache_miss_cnt)
       THEN RunEnd
       ELSE /\ client_exited' = TRUE
            /\ UNCHANGED <<current_client, cache_miss_cnt, access_cnt, args, last_event, id_cnt,
                           wait_list, cache_list, batch, posted, entry_vars, chan, lock_cnt,
                           safe_vars, flush_cnt>>

\* The client returns, or an exception ends it after cache_exit().
ClientReturn == Running /\ client_exited /\ RunEnd

\* An exception ends the client before cache_exit(): a cache miss that it did
\* not catch, or any other error.
ClientThrow == Running /\ ~client_exited /\ RunEnd

\* The loop of cache_notify() and cache_notify_event().
RetryNext ==
    /\ ~Running
    /\ batch # << >>
    /\ current_client' = Head(batch)
    /\ last_event' = [last_event EXCEPT ![Head(batch).client] = "RETRY"]
    /\ UNCHANGED <<client_exited, cache_miss_cnt, access_cnt, args, id_cnt, wait_list, cache_list,
                   batch, posted, entry_vars, chan, lock_cnt, safe_vars, flush_cnt>>

\* cache_list without a cache whose waiting list was taken.
Delisted(l, a) == l \ {a}

\* cache_notify_later(): the waiting list is posted as a whole.
MutPost(p, buf) == IF p = {} THEN {buf} ELSE p
Post(p, buf) == p \cup {buf}

CacheNotifyLater(a) ==
    IF wait_list[a] = << >>
    THEN UNCHANGED <<wait_list, cache_list, posted>>
    ELSE /\ wait_list' = [wait_list EXCEPT ![a] = << >>]
         /\ cache_list' = Delisted(cache_list, a)
         /\ posted' = Post(posted, wait_list[a])

CacheNotifyEvent(buf) ==
    /\ Idle
    /\ buf \in posted
    /\ posted' = posted \ {buf}
    /\ batch' = buf
    /\ UNCHANGED <<client_vars, id_cnt, wait_list, cache_list, entry_vars, chan, lock_cnt,
                   safe_vars, flush_cnt>>

\* cache_notify(): the waiting list is copied and run at once.
CacheNotify(a) ==
    /\ batch' = wait_list[a]
    /\ wait_list' = [wait_list EXCEPT ![a] = << >>]
    /\ cache_list' = IF wait_list[a] = << >> THEN cache_list ELSE Delisted(cache_list, a)

-----------------------------------------------------------------------------
(* linenumbers_proxy.c                                                     *)

\* free_cache_entry(): an entry whose reply is outstanding is only unlinked.
MutFreed(e) == NoEntry
Freed(e) == IF e.pending THEN [e EXCEPT !.st = "orphan"] ELSE NoEntry

Linked(c, k) == {e \in Entries : entry[e].st = "linked" /\ entry[e].chan = c /\ entry[e].key = k}

Usable(c) == c # NULL /\ chan[c] = "open"
CanAccess == Running /\ ~client_exited /\ access_cnt < MaxAccess

\* line_to_address(), address_to_line(): without a usable channel they fail;
\* an entry is created and requested on the first look-up.  A failure and a
\* miss are reported to the client, which may go on.
LookUp(k) ==
    LET c == ChanOf[current_client.client]
        locks == IF c \in root THEN lock_cnt ELSE Lock(lock_cnt, c)
    IN  /\ CanAccess
        /\ access_cnt' = access_cnt + 1
        /\ \/ /\ ~Usable(c)
              /\ UNCHANGED <<cache_miss_cnt, wait_list, cache_list, args, lock_cnt, entry_vars>>
           \/ /\ Usable(c)
              /\ root' = root \cup {c}
              /\ \/ /\ Linked(c, k) = {}
                    /\ \E e \in Entries :
                         /\ entry[e].st = "free"
                         /\ entry' = [entry EXCEPT ![e] =
                                        [st |-> "linked", chan |-> c, key |-> k, pending |-> TRUE]]
                         /\ CacheWait(e, locks)
                 \/ \E e \in Linked(c, k) :
                         /\ UNCHANGED entry
                         /\ IF entry[e].pending
                            THEN CacheWait(e, locks)
                            ELSE lock_cnt' = locks
                                 /\ UNCHANGED <<cache_miss_cnt, wait_list, cache_list, args>>
        /\ UNCHANGED <<current_client, client_exited, last_event, id_cnt, batch, posted, chan,
                       safe_vars, flush_cnt>>

\* validate_cache_entry(): the reply, or the error that stands for it; an
\* entry that was unlinked meanwhile is freed.
Answered(e) == IF e.st = "orphan" THEN NoEntry ELSE [e EXCEPT !.pending = FALSE]

ValidateEntry(e) ==
    /\ Idle
    /\ entry[e].pending
    /\ entry' = [entry EXCEPT ![e] = Answered(@)]
    /\ CacheNotifyLater(e)
    /\ UNCHANGED <<client_vars, id_cnt, batch, root, chan, lock_cnt, safe_vars, flush_cnt>>

\* flush_cache(): a context or its memory map changed.
FlushCache ==
    /\ Idle
    /\ flush_cnt < MaxFlush
    /\ flush_cnt' = flush_cnt + 1
    /\ entry' = [e \in Entries |-> IF entry[e].st = "linked" THEN Freed(entry[e]) ELSE entry[e]]
    /\ UNCHANGED <<client_vars, id_cnt, wait_list, cache_list, batch, posted, root, chan, lock_cnt,
                   safe_vars>>

\* The channel closes.  protocol.c registered first and answers every
\* outstanding command with an error, then channel_close_listener() frees the
\* cache and gives back its lock.
ChannelClosed(c) ==
    LET mine    == {e \in Entries : entry[e].chan = c}
        waiting == {e \in mine : entry[e].pending /\ wait_list[e] # << >>}
    IN  /\ Idle
        /\ chan[c] = "open"
        /\ entry' = [e \in Entries |-> IF e \in mine THEN NoEntry ELSE entry[e]]
        /\ posted' = posted \cup {wait_list[e] : e \in waiting}
        /\ wait_list' = [a \in Caches |-> IF a \in waiting THEN << >> ELSE wait_list[a]]
        /\ cache_list' = cache_list \ waiting
        /\ root' = root \ {c}
        /\ lock_cnt' = [lock_cnt EXCEPT ![c] = IF c \in root THEN @ - 1 ELSE @]
        /\ chan' = [chan EXCEPT ![c] = "closing"]
        /\ UNCHANGED <<client_vars, id_cnt, batch, safe_vars, flush_cnt>>

\* The transport gives back its own lock when its last read is done.
TransportUnlock(c) ==
    /\ Idle
    /\ chan[c] = "closing"
    /\ lock_cnt' = [lock_cnt EXCEPT ![c] = @ - 1]
    /\ chan' = [chan EXCEPT ![c] = IF lock_cnt[c] = 1 THEN "deleted" ELSE "closed"]
    /\ UNCHANGED <<client_vars, id_cnt, wait_list, cache_list, batch, posted, entry_vars, safe_vars,
                   flush_cnt>>

-----------------------------------------------------------------------------
(* runctrl.c                                                               *)

\* check_all_stopped() for a context that runs.
CheckAllStopped ==
    /\ CanAccess
    /\ safe_posted < MaxSafe
    /\ access_cnt' = access_cnt + 1
    /\ safe_cnt' = safe_cnt + 1
    /\ safe_posted' = safe_posted + 1
    /\ CacheWait(Gate, lock_cnt)
    /\ UNCHANGED <<current_client, client_exited, last_event, id_cnt, batch, posted, entry_vars,
                   chan, flush_cnt>>

\* run_safe_events(): it runs safe events as far as contexts are stopped, and
\* notifies when none is left.
RunSafeEvents ==
    /\ Idle
    /\ safe_cnt > 0
    /\ safe_cnt' \in 0..safe_cnt - 1
    /\ IF safe_cnt' = 0 THEN CacheNotify(Gate) ELSE UNCHANGED <<batch, wait_list, cache_list>>
    /\ UNCHANGED <<client_vars, id_cnt, posted, entry_vars, chan, lock_cnt, safe_posted, flush_cnt>>

-----------------------------------------------------------------------------
Init ==
    /\ current_client = NoClient
    /\ client_exited = FALSE
    /\ cache_miss_cnt = 0
    /\ access_cnt = 0
    /\ id_cnt = 0
    /\ wait_list = [a \in Caches |-> << >>]
    /\ cache_list = {}
    /\ batch = << >>
    /\ posted = {}
    /\ args = [c \in Clients |-> "none"]
    /\ last_event = [c \in Clients |-> "none"]
    /\ entry = [e \in Entries |-> NoEntry]
    /\ root = {}
    /\ chan = [c \in Chans |-> "open"]
    /\ lock_cnt = [c \in Chans |-> 1]
    /\ safe_cnt = 0
    /\ safe_posted = 0
    /\ flush_cnt = 0

ClientStep == (\E k \in Keys : LookUp(k)) \/ CheckAllStopped \/ CacheExit \/ ClientReturn \/ ClientThrow

Next ==
    \/ \E c \in Clients : CacheEnter(c)
    \/ ClientStep
    \/ RetryNext
    \/ \E buf \in posted : CacheNotifyEvent(buf)
    \/ \E e \in Entries : ValidateEntry(e)
    \/ FlushCache
    \/ \E c \in Chans : ChannelClosed(c) \/ TransportUnlock(c)
    \/ RunSafeEvents

Spec == Init /\ [][Next]_vars

\* Posted events are dispatched, contexts stop, commands are answered (or the
\* channel closes) and no client computes for ever.
FairSpec ==
    /\ Spec
    /\ WF_vars(ClientStep)
    /\ WF_vars(RetryNext)
    /\ WF_vars(\E buf \in posted : CacheNotifyEvent(buf))
    /\ \A e \in Entries : WF_vars(ValidateEntry(e))
    /\ WF_vars(RunSafeEvents)

-----------------------------------------------------------------------------
(* Correctness.                                                            *)

TypeOK ==
    /\ current_client \in Waiter \cup {NoClient}
    /\ client_exited \in BOOLEAN
    /\ cache_miss_cnt \in 0..access_cnt
    /\ access_cnt \in 0..MaxAccess
    /\ id_cnt \in 0..IdMod - 1
    /\ wait_list \in [Caches -> Seq(Waiter)]
    /\ cache_list \subseteq Caches
    /\ batch \in Seq(Waiter)
    /\ posted \subseteq Seq(Waiter)
    /\ args \in [Clients -> {"none", "stack", "heap", "freed", "gone"}]
    /\ last_event \in [Clients -> {"none", "START", "RETRY", "COMMIT", "ABORT"}]
    /\ entry \in [Entries -> [st : {"free", "linked", "orphan"}, chan : Chans \cup {NULL},
                              key : Keys \cup {NULL}, pending : BOOLEAN]]
    /\ root \subseteq Chans
    /\ chan \in [Chans -> {"open", "closing", "closed", "deleted"}]
    /\ lock_cnt \in [Chans -> Nat]
    /\ safe_cnt \in 0..safe_posted
    /\ safe_posted \in 0..MaxSafe
    /\ flush_cnt \in 0..MaxFlush

\* Where client c is in a sequence of waiting clients, and in how many places
\* it is in all of them.
Spots(s, c) == {i \in DOMAIN s : s[i].client = c}
InLists(c)  == Cardinality(UNION {{a} \X Spots(wait_list[a], c) : a \in Caches})
InBufs(c)   == Cardinality(UNION {{buf} \X Spots(buf, c) : buf \in posted}) + Cardinality(Spots(batch, c))
Places(c)   == InLists(c) + InBufs(c)
RunningNow(c) == current_client.client = c

\* A client is in one place.  Between runs it waits once or it is finished;
\* while it runs it has registered exactly if it met a miss, so that it is
\* neither lost nor run twice, however many misses it catches in one run
\* (cache_wait(), cache_exit()).  The identifier of a running transaction is
\* not 0, also after id_cnt wrapped.
ClientOnce ==
    TypeOK /\ \A c \in Clients :
        IF RunningNow(c)
        THEN /\ InLists(c) = IF cache_miss_cnt > 0 THEN 1 ELSE 0
             /\ InBufs(c) = IF last_event[c] = "RETRY" THEN 1 ELSE 0
        ELSE Places(c) = IF args[c] = "heap" THEN 1 ELSE 0

\* The arguments of a client that runs or waits are readable: a copy exists
\* from the first miss to the end of the last run, and is then freed.
ArgsLive ==
    \A c \in Clients :
        /\ RunningNow(c) => args[c] \in {"stack", "heap"}
        /\ Places(c) > 0 => args[c] = "heap"
        /\ args[c] = "stack" => RunningNow(c)

\* Each client that waits in a list, and each in a buffer that is still to be
\* run, holds one lock on its channel (a client that runs again and waits again
\* has two), the line-number cache and the transport one each.  So the channel
\* of a client that runs or waits is never deleted under it, and none leaks.
ClientsOn(ch) == {c \in Clients : ChanOf[c] = ch}
ChannelLocks ==
    \A ch \in Chans :
        /\ lock_cnt[ch] = Cardinality({c \in ClientsOn(ch) : InLists(c) > 0})
                            + Cardinality({c \in ClientsOn(ch) : InBufs(c) > 0})
                            + (IF ch \in root THEN 1 ELSE 0)
                            + (IF chan[ch] \in {"open", "closing"} THEN 1 ELSE 0)
        /\ chan[ch] = "deleted" <=> lock_cnt[ch] = 0

\* Nothing a client uses goes away while it runs or waits.
ClientSafe == ArgsLive /\ ChannelLocks

\* Clients wait only for an entry whose reply is outstanding, or while a safe
\* event is queued, so somebody will notify them; and cache_dispose() never
\* drops a waiting client, although entries are flushed at any time.
\* cache_list holds exactly the caches that have waiting clients, as
\* cache_timer() asserts.  An entry that is looked up is unique, and one that
\* waits for a reply stays allocated until the reply came.
EntriesSound ==
    /\ \A e \in Entries : entry[e].pending => entry[e].st # "free"
    /\ \A e \in Entries : entry[e].st = "orphan" => entry[e].pending
    /\ \A c \in Chans, k \in Keys : Cardinality(Linked(c, k)) <= 1
    /\ \A e \in Entries : entry[e].st = "linked" => entry[e].chan \in root
WaitersHaveReply ==
    /\ EntriesSound
    /\ cache_list = {a \in Caches : wait_list[a] # << >>}
    /\ \A e \in Entries : wait_list[e] # << >> => entry[e].pending
    /\ wait_list[Gate] # << >> => safe_cnt > 0

\* Every client that was started finishes: it commits or fails, and does not
\* wait for ever.
Finished(c) == args[c] \in {"freed", "gone"}
ClientFinishes == \A c \in Clients : last_event[c] = "START" ~> Finished(c)
==============================================================================

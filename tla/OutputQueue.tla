---------------------------- MODULE OutputQueue ----------------------------
(***************************************************************************)
(* The writing side of a channel: the queue of output buffers              *)
(* (framework/outputbuf.c) and the TCP and pipe channels that feed it      *)
(* (framework/channel_tcp.c, framework/channel_pipe.c).                    *)
(*                                                                         *)
(* Buffers are filled on the dispatch thread and sent by a worker thread,  *)
(* which reads the memory of the first buffer while the dispatch thread    *)
(* goes on.  A byte is the number of its position in the output; an escape *)
(* sequence is one byte.  s stands for the sequential state below.         *)
(***************************************************************************)
EXTENDS Integers, FiniteSets, SequencesExt

CONSTANTS
    Bufs,      \* memory for OutputBuffers
    BufSize,   \* OUTPUT_QUEUE_BUF_SIZE
    PipeSize,  \* size of obuf in channel_pipe.c
    MaxPool,   \* MAX_POOL_SIZE
    EomLimit,  \* messages after which a TCP channel flushes early (3)
    MaxBytes,  \* bound: bytes written
    None

ASSUME ConstantAssumption ==
    /\ {BufSize, PipeSize, MaxBytes} \subseteq Nat \ {0}
    /\ {MaxPool, EomLimit} \subseteq Nat
    /\ IsFiniteSet(Bufs) /\ Cardinality(Bufs) > MaxBytes  \* memory is never short

VARIABLES
    kind,      \* "tcp" or "pipe"
    s,         \* the sequential state, see StateRec
    state,     \* of the channel: "open", "disconnected", "deleted"
    wr_shut,   \* the connection was shut down for writing
    cnt,       \* bytes written so far
    written,   \* the bytes written before the channel was closed
    wire,      \* the bytes that were sent
    reading,   \* the reader of the channel holds its lock
    splicing   \* the dispatch thread is in tcp_splice_block_stream()

vars == <<kind, s, state, wr_shut, cnt, written, wire, reading, splicing>>

\* mem: buf[0..buf_len) of each buffer; pos: buf_pos; wr: the write request;
\* eom_cnt: out_eom_cnt, which channel_pipe.c does not have (there it only
\* records the messages in obuf).
Request  == [buf : Bufs, from : Nat, to : Nat, st : {"run", "done"}, size : Nat, error : BOOLEAN]
ASSUME NoneAssumption == None \notin Request

StateRec == [mem : [Bufs -> Seq(1..MaxBytes)], pos : [Bufs -> Nat], queue : Seq(Bufs),
             pool : Seq(Bufs), obuf : Bufs, wr : Request \cup {None}, error : BOOLEAN,
             eom_cnt : Nat, flush_cnt : 0..2, lock_cnt : Nat]

-----------------------------------------------------------------------------
(* outputbuf.c                                                             *)

InUse(t) == ToSet(t.queue) \cup ToSet(t.pool) \cup {t.obuf}

MinOf(a, b) == IF a < b THEN a ELSE b

\* output_queue_alloc_obuf(), n times: buffers of the pool, then new ones.
AllocObufs(t, n) ==
    LET k == MinOf(n, Len(t.pool))
    IN  SubSeq(t.pool, 1, k) \o (CHOOSE f \in [1..(n - k) -> Bufs \ InUse(t)] : IsInjective(f))

\* output_queue_alloc_obuf(): a buffer, and the state without it in the pool.
AllocObuf(t) == AllocObufs(t, 1)[1]
AllocState(t) ==
    [t EXCEPT !.mem[AllocObuf(t)] = << >>, !.pos[AllocObuf(t)] = 0,
              !.pool = SubSeq(@, 2, Len(@))]

\* output_queue_free_obuf(): back to the pool, if it is not full.
PoolHasRoom(p) == Len(p) < MaxPool
FreeObuf(t, b) == IF PoolHasRoom(t.pool) THEN [t EXCEPT !.pool = Append(@, b)] ELSE t

\* post_write_request(): the first buffer is given to a worker; the channel
\* is locked until the request is done.
PostIoRequest(t) ==
    LET b == Head(t.queue)
    IN  [t EXCEPT !.wr = [buf |-> b, from |-> t.pos[b], to |-> Len(t.mem[b]),
                          st |-> "run", size |-> 0, error |-> FALSE],
                  !.lock_cnt = @ + 1]

\* An empty queue has no request that would get to a new buffer.
PostsNow(q) == q = << >>

AppendObuf(t, b) ==
    LET u == [t EXCEPT !.queue = Append(@, b), !.pos[b] = 0]
    IN  IF PostsNow(t.queue) THEN PostIoRequest(u) ELSE u

\* The last buffer takes more data only if it is not the one being sent.
TakesMore(q) == Len(q) > 1
Gap(t) == BufSize - Len(t.mem[Last(t.queue)])

\* output_queue_add_obuf(): b is merged into the last buffer if it fits.
Fits(gap, len) == gap >= len

AddObuf(t, b) ==
    IF TakesMore(t.queue) /\ Fits(Gap(t), Len(t.mem[b]))
    THEN FreeObuf([t EXCEPT !.mem[Last(t.queue)] = @ \o t.mem[b]], b)
    ELSE AppendObuf(t, b)

\* output_queue_add(): the gap of the last buffer is filled, the rest goes
\* to new buffers, each of which gets one of the chunks.
AddNew(t, chunks) ==
    LET new == AllocObufs(t, Len(chunks))
        u == [t EXCEPT !.mem = [b \in Bufs |-> IF b \in ToSet(new)
                                               THEN chunks[CHOOSE i \in DOMAIN new : new[i] = b]
                                               ELSE t.mem[b]],
                       !.pos = [b \in Bufs |-> IF b \in ToSet(new) THEN 0 ELSE t.pos[b]],
                       !.pool = SubSeq(@, Len(chunks) + 1, Len(@)),
                       !.queue = @ \o new]
    IN  IF chunks # << >> /\ PostsNow(t.queue) THEN PostIoRequest(u) ELSE u

Chunks(bytes) ==
    [i \in 1..(Len(bytes) + BufSize - 1) \div BufSize |->
       SubSeq(bytes, (i - 1) * BufSize + 1, MinOf(i * BufSize, Len(bytes)))]

QueueAdd(t, bytes) ==
    LET n == IF TakesMore(t.queue) THEN MinOf(Gap(t), Len(bytes)) ELSE 0
        u == IF n = 0 THEN t
             ELSE [t EXCEPT !.mem[Last(t.queue)] = @ \o SubSeq(bytes, 1, n)]
    IN  IF t.error THEN t ELSE AddNew(u, Chunks(SubSeq(bytes, n + 1, Len(bytes))))

\* output_queue_clear(): every buffer is freed, so the first ones fill the pool.
QueueClear(t) ==
    [t EXCEPT !.pool = @ \o SubSeq(t.queue, 1, MinOf(Len(t.queue), MaxPool - Len(@))),
              !.queue = << >>]

\* output_queue_done(): the first buffer was sent, or a part of it, or an
\* error ends the output; what is left is posted again.
Sent(t, n) ==
    LET b == Head(t.queue)
        u == [t EXCEPT !.pos[b] = @ + n]
    IN  IF u.pos[b] < Len(u.mem[b]) THEN u ELSE FreeObuf([u EXCEPT !.queue = Tail(@)], b)

QueueDone(t) ==
    LET u == IF t.wr.error
             THEN QueueClear([t EXCEPT !.error = TRUE])
             ELSE Sent(t, t.wr.size)
        v == [u EXCEPT !.wr = None]
    IN  IF v.queue = << >> THEN v ELSE PostIoRequest(v)

-----------------------------------------------------------------------------
(* channel_tcp.c, channel_pipe.c                                           *)

Capacity == IF kind = "tcp" THEN BufSize ELSE PipeSize

\* tcp_flush_with_flags(), pipe_flush(): the TCP channel gives its buffer to
\* the queue and takes a new one, the pipe channel copies it.
Flush(t) ==
    LET b == t.obuf
        u == IF kind = "tcp"
             THEN LET v == AddObuf(t, b)
                  IN  [AllocState(v) EXCEPT !.obuf = AllocObuf(v)]
             ELSE [QueueAdd(t, t.mem[b]) EXCEPT !.mem[b] = << >>]
    IN  IF t.mem[b] = << >> THEN t
        ELSE IF state = "open" /\ ~t.error
             THEN [u EXCEPT !.eom_cnt = 0]
             ELSE [t EXCEPT !.mem[b] = << >>, !.eom_cnt = 0]

\* The end of a message asks for a flush; at most two are posted.
MutAsksFlush(n) == n = 1
AsksFlush(n) == n < 2

EndOfMessage(t) ==
    LET u == [t EXCEPT !.eom_cnt = @ + 1]
    IN  IF ~AsksFlush(t.flush_cnt) THEN u
        ELSE [u EXCEPT !.flush_cnt = @ + 1,
                       !.lock_cnt = IF t.flush_cnt = 0 THEN @ + 1 ELSE @]

\* One byte is put into obuf; if there is no room, obuf is flushed first.
Put(t, byte, eom) ==
    LET u == IF Len(t.mem[t.obuf]) = Capacity THEN Flush(t) ELSE t
        v == [u EXCEPT !.mem[u.obuf] = Append(@, byte)]
    IN  IF eom THEN EndOfMessage(v) ELSE v

\* Bytes n of the output, and what the peer is to receive of them.
Bytes(n) == [i \in 1..n |-> cnt + i]
Written(n) == IF state = "open" THEN written \o Bytes(n) ELSE written

\* tcp_write_stream(), pipe_write_stream(): a closed TCP channel still takes
\* bytes and drops them when it flushes, a closed pipe ignores them.
WriteStream(eom) ==
    /\ state = "open" \/ (state = "disconnected" /\ kind = "tcp")
    /\ ~splicing
    /\ cnt + 1 < MaxBytes
    /\ cnt' = cnt + 1
    /\ written' = Written(1)
    /\ s' = Put(s, cnt + 1, eom)
    /\ UNCHANGED <<kind, state, wr_shut, wire, reading, splicing>>

\* pipe_write_block_stream(): a large block is queued without going through
\* obuf, after an escape sequence that announces it.
PipeWriteBlock(n) ==
    /\ kind = "pipe"
    /\ state = "open"
    /\ cnt + n + 1 < MaxBytes
    /\ cnt' = cnt + n + 1
    /\ written' = Written(n + 1)
    /\ s' = QueueAdd(Flush(Put(s, cnt + 1, FALSE)), Tail(Bytes(n + 1)))
    /\ UNCHANGED <<kind, state, wr_shut, wire, reading, splicing>>

\* tcp_splice_block_stream(): after the escape sequence the dispatch thread
\* waits until the queue is empty, handling completed requests itself, and
\* then sends the data past the queue.
SpliceStart ==
    /\ kind = "tcp"
    /\ state = "open"
    /\ ~splicing
    /\ cnt + 2 < MaxBytes
    /\ cnt' = cnt + 2
    /\ written' = Written(2)
    /\ s' = Flush(Put(s, cnt + 1, FALSE))
    /\ splicing' = TRUE
    /\ UNCHANGED <<kind, state, wr_shut, wire, reading>>

MutSpliceReady(q) == Len(q) <= 1
SpliceReady(q) == q = << >>

SpliceEnd ==
    /\ splicing
    /\ SpliceReady(s.queue)
    /\ splicing' = FALSE
    /\ \/ ~s.error /\ wire' = Append(wire, cnt) /\ UNCHANGED s
       \/ s' = [s EXCEPT !.error = TRUE] /\ UNCHANGED wire
    /\ UNCHANGED <<kind, state, wr_shut, cnt, written, reading>>

\* tcp_unlock(), pipe_unlock(): the last lock deletes the channel.
MutDeleted(n) == n <= 1
Deleted(n) == n = 0
StateAfter(t) == IF Deleted(t.lock_cnt) THEN "deleted" ELSE state

\* tcp_flush_event(), pipe_flush_event(): the last of the posted events
\* flushes; the TCP channel flushes earlier if many messages are waiting.
FlushEvent ==
    /\ state # "deleted"
    /\ ~splicing
    /\ s.flush_cnt > 0
    /\ LET t == [s EXCEPT !.flush_cnt = @ - 1]
       IN  s' = IF t.flush_cnt = 0 THEN [Flush(t) EXCEPT !.lock_cnt = @ - 1]
                ELSE IF kind = "tcp" /\ t.eom_cnt > EomLimit THEN Flush(t) ELSE t
    /\ state' = StateAfter(s')
    /\ UNCHANGED <<kind, wr_shut, cnt, written, wire, reading, splicing>>

\* A worker sends a part of the buffer, whatever its memory holds by now.
WorkerSend(n) ==
    /\ s.wr # None
    /\ s.wr.st = "run"
    /\ n <= s.wr.to - s.wr.from
    /\ wire' = wire \o SubSeq(s.mem[s.wr.buf], s.wr.from + 1, s.wr.from + n)
    /\ s' = [s EXCEPT !.wr.st = "done", !.wr.size = n]
    /\ UNCHANGED <<kind, state, wr_shut, cnt, written, reading, splicing>>

\* The connection is broken; or, with TLS, it is not ready and nothing is sent.
WorkerSendNothing(error) ==
    /\ s.wr # None
    /\ s.wr.st = "run"
    /\ error \/ kind = "tcp"
    /\ s' = [s EXCEPT !.wr.st = "done", !.wr.error = error]
    /\ UNCHANGED <<kind, state, wr_shut, cnt, written, wire, reading, splicing>>

\* The connection is shut down once nothing is left to be sent.
MutMayShut(q) == TRUE
MayShut(q) == q = << >>

\* done_write_request()
DoneWriteRequest ==
    /\ s.wr # None
    /\ s.wr.st = "done"
    /\ LET t == QueueDone(s)
       IN  /\ s' = [t EXCEPT !.lock_cnt = @ - 1]
           /\ wr_shut' = (wr_shut \/ (state = "disconnected" /\ MayShut(t.queue)))
    /\ state' = StateAfter(s')
    /\ UNCHANGED <<kind, cnt, written, wire, reading, splicing>>

\* send_eof_and_close(): the closing message is written and flushed.
SendEofAndClose ==
    /\ state = "open"
    /\ ~splicing
    /\ cnt' = cnt + 1
    /\ written' = Written(1)
    /\ s' = Flush(Put(s, cnt + 1, TRUE))
    /\ wr_shut' = MayShut(s'.queue)
    /\ state' = "disconnected"
    /\ UNCHANGED <<kind, wire, reading, splicing>>

\* The last read of a closed channel ends and gives the first lock back.
LastReadDone ==
    /\ state = "disconnected"
    /\ ~splicing
    /\ reading
    /\ reading' = FALSE
    /\ s' = [s EXCEPT !.lock_cnt = @ - 1]
    /\ state' = StateAfter(s')
    /\ UNCHANGED <<kind, wr_shut, cnt, written, wire, splicing>>

-----------------------------------------------------------------------------
FirstBuf == CHOOSE b \in Bufs : TRUE

Init ==
    /\ kind \in {"tcp", "pipe"}
    /\ s = [mem |-> [b \in Bufs |-> << >>], pos |-> [b \in Bufs |-> 0], queue |-> << >>,
            pool |-> << >>, obuf |-> FirstBuf, wr |-> None, error |-> FALSE,
            eom_cnt |-> 0, flush_cnt |-> 0, lock_cnt |-> 1]
    /\ state = "open"
    /\ wr_shut = FALSE
    /\ cnt = 0
    /\ written = << >>
    /\ wire = << >>
    /\ reading = TRUE
    /\ splicing = FALSE

Next ==
    \/ \E eom \in BOOLEAN : WriteStream(eom)
    \/ \E n \in 1..MaxBytes : PipeWriteBlock(n)
    \/ SpliceStart
    \/ SpliceEnd
    \/ FlushEvent
    \/ \E n \in 1..BufSize : WorkerSend(n)
    \/ \E error \in BOOLEAN : WorkerSendNothing(error)
    \/ DoneWriteRequest
    \/ SendEofAndClose
    \/ LastReadDone

Spec == Init /\ [][Next]_vars

\* Posted events are dispatched; a connection takes data sooner or later, or
\* breaks.
FairSpec ==
    /\ Spec
    /\ WF_vars(FlushEvent)
    /\ WF_vars(DoneWriteRequest)
    /\ WF_vars(SpliceEnd)
    /\ WF_vars((\E n \in 1..BufSize : WorkerSend(n)) \/ (\E error \in BOOLEAN : WorkerSendNothing(error)))
    /\ SF_vars((\E n \in 1..BufSize : WorkerSend(n)) \/ WorkerSendNothing(TRUE))

-----------------------------------------------------------------------------
(* Correctness.                                                            *)

TypeOK ==
    /\ kind \in {"tcp", "pipe"}
    /\ s \in StateRec
    /\ state \in {"open", "disconnected", "deleted"}
    /\ {wr_shut, reading, splicing} \subseteq BOOLEAN
    /\ cnt \in 0..MaxBytes
    /\ written \in Seq(1..MaxBytes)
    /\ wire \in Seq(1..MaxBytes)

\* A buffer is in one place: it is obuf, or it is once in the queue, or once
\* in the pool, which holds at most MAX_POOL_SIZE.
BufferOnce ==
    /\ TypeOK
    /\ Len(s.pool) <= MaxPool
    /\ IsInjective(<<s.obuf>> \o s.queue \o s.pool)
    /\ \A b \in Bufs : Len(s.mem[b]) <= IF b = s.obuf THEN Capacity ELSE BufSize

\* A request is outstanding exactly while buffers are queued, and it is for
\* the first one: output never stalls, and no buffer is freed while it is sent.
HeadInFlight ==
    /\ s.wr # None <=> s.queue # << >>
    /\ s.wr # None => s.wr.buf = Head(s.queue) /\ s.wr.from = s.pos[s.wr.buf]
    /\ \A i \in 2..Len(s.queue) : s.pos[s.queue[i]] = 0

\* What is sent and what is queued is, byte by byte and in order, what was
\* written: merging buffers, partial writes, reuse of buffers and data sent
\* past the queue lose, repeat and reorder nothing.  As a byte is the number
\* of its position, blocks c hold the bytes f+1 .. e in order if each block is
\* a run that starts where the one before it ends.
IsRun(m) == m # << >> /\ \A k \in 1..Len(m) : m[k] = m[1] + k - 1
Start(m) == m[1]
End(m) == m[1] + Len(m)

InOrder(c, f, e) ==
    /\ c = << >> => e = f
    /\ c # << >> => Start(c[1]) = f + 1 /\ End(c[Len(c)]) = e + 1
    /\ \A i \in 1..Len(c) : IsRun(c[i])
    /\ \A i \in 2..Len(c) : Start(c[i]) = End(c[i - 1])

\* Bytes of the first buffer that were sent.
HeadSent(t) == IF t.queue = << >> THEN 0 ELSE t.pos[t.queue[1]] + t.wr.size
Blocks(t) == [i \in 1..Len(t.queue) |-> t.mem[t.queue[i]]]

BytesInOrder ==
    ~s.error =>
        LET kept  == IF state = "open" THEN s.mem[s.obuf] ELSE << >>
            after == Len(written) - Len(kept)
        IN  /\ \A i \in 1..Len(written) : written[i] = i
            /\ \A i \in 1..Len(wire) : wire[i] = i
            /\ InOrder(Blocks(s), Len(wire) - HeadSent(s), IF splicing THEN after - 1 ELSE after)
            /\ splicing => cnt = after
            /\ \A k \in 1..Len(kept) : kept[k] = after + k

\* The queue of buffers loses, repeats and reorders nothing and never stalls.
QueueSound == BufferOnce /\ HeadInFlight /\ BytesInOrder

\* The lock count is the sum of the locks of the reader, of the outstanding
\* request and of the posted flush, so that the channel is deleted when, and
\* only when, nothing of it is left to be done.
LocksExact ==
    /\ s.lock_cnt = (IF reading THEN 1 ELSE 0) + (IF s.wr # None THEN 1 ELSE 0)
                      + (IF s.flush_cnt > 0 THEN 1 ELSE 0)
    /\ state = "deleted" <=> s.lock_cnt = 0

\* The abstract stream: see ByteStream.
Stream == INSTANCE ByteStream WITH
    Byte   <- 1..MaxBytes,
    closed <- state # "open",
    failed <- s.error,
    shut   <- wr_shut
ImplementsByteStream == Stream!Spec

\* A closed channel is shut down for writing: all that was written was sent,
\* or sending failed (ByteStream).
CloseShuts == state # "open" ~> wr_shut

\* A complete message does not stay in obuf.
MessageLeaves == s.eom_cnt > 0 ~> s.eom_cnt = 0

\* What was written leaves: a message is sent, and a closed channel is shut
\* down behind the last one.
OutputLeaves == CloseShuts /\ MessageLeaves
=============================================================================

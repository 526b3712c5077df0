-------------------------- MODULE StreamsService --------------------------
(***************************************************************************)
(* The streams service, services/streamsservice.c, with the two streams of *)
(* one child process, services/processes.c: clients write to the input of  *)
(* the process and read its output, through a ring buffer per stream, and  *)
(* the agent moves data between the buffers and the pipes of the process   *)
(* with asynchronous requests.                                             *)
(*                                                                         *)
(* The service is sequential: r is its state and every event a function of *)
(* r.  Commands arrive at any time; what the service posts to itself, and  *)
(* what the workers post when they are done, is dispatched in order.       *)
(***************************************************************************)
EXTENDS Integers, SequencesExt, FiniteSetsExt

CONSTANTS
    Channels,   \* positive integers
    SBuf,       \* SBUF_SIZE, capacity of a stream
    PBuf,       \* PBUF_SIZE, bytes moved by one request
    Chunk,      \* size of buf in virtual_stream_write()
    Scenarios   \* what to explore: bounds on output bytes (out), reads (reads),
                \* writes and ends of stream (writes), and other commands (conn),
                \* and the channels subscribed from the start (sub)

ASSUME StreamsAssumption ==
    /\ Channels \subseteq Nat \ {0} /\ {SBuf, PBuf, Chunk} \subseteq Nat \ {0}
    /\ \A s \in Scenarios : {s.out, s.reads, s.writes, s.conn} \subseteq Nat /\ s.sub \subseteq Channels

VARIABLES
    r,  \* the agent, see Init
    b   \* what is left of the bounds

vars == <<r, b>>

\* "in" has VS_ENABLE_REMOTE_WRITE, "out" has VS_ENABLE_REMOTE_READ.
Streams == {"in", "out"}

BufLen == SBuf + 1

\* list: clients; bi, bo: buf_inp, buf_out; eosi, eoso: eos_inp, eos_out;
\* dp, sp: data_available_posted, space_available_posted.
NoStream == [st |-> "none", del |-> FALSE, ref |-> 0, list |-> <<>>, pos |-> 0,
             buf |-> [i \in 0..SBuf |-> 0], bi |-> 0, bo |-> 0, eosi |-> FALSE, eoso |-> FALSE,
             dp |-> FALSE, sp |-> FALSE]

\* rd, wr: read_requests and write_requests; from: pos at creation.
NoClient == [pos |-> 0, rd |-> <<>>, wr |-> <<>>, from |-> 0]

\* ProcessInput and ProcessOutput.  buf: what is left to move; req: req_posted,
\* by its stage; prs: the process is known; eof: the last read returned no data.
NoInput  == [st |-> "none", buf |-> <<>>, eos |-> FALSE, req |-> "no", prs |-> TRUE]
NoOutput == [st |-> "none", buf |-> <<>>, eos |-> FALSE, req |-> "no", eof |-> FALSE]

Ensure(x, c) == [x EXCEPT !.ok = @ /\ c]

Post(x, e) == [x EXCEPT !.q = Append(@, e)]

Held(v) == (v.bi + BufLen - v.bo) % BufLen

Space(v) == (v.bo + BufLen - v.bi - 1) % BufLen

Bytes(v, from, n) == [i \in 1..n |-> v.buf[(from + i - 1) % BufLen]]

Connected(x, s, c) == c \in Range(x.vs[s].list)

\* A reply to command tok that promises n bytes written.
Reply(x, s, c, tok, n) == [x EXCEPT !.rep[s][c] = Append(@, [tok |-> tok, n |-> n])]

----------------------------------------------------------------------------
(* Buffers. *)

MutPostSpace(x, s, bo) == [x EXCEPT !.vs[s].bo = bo]

PostSpace(x, s, bo) ==
    LET y == [x EXCEPT !.vs[s].bo = bo, !.vs[s].sp = TRUE] IN
    IF x.vs[s].sp THEN y ELSE Post(y, <<"space", s>>)

MutAdvance(x) ==
    LET v  == x.vs["out"]
        ps == {x.cl["out"][c].pos : c \in Range(v.list)}
        n  == IF ps = {} THEN Held(v) ELSE Max(ps) - (v.pos - Held(v))
    IN IF n <= 0 THEN x ELSE PostSpace(x, "out", (v.bo + n) % BufLen)

\* advance_stream_buffer()
Advance(x) ==
    LET v    == x.vs["out"]
        ps   == {x.cl["out"][c].pos : c \in Range(v.list)}
        base == v.pos - Held(v)
        bo   == IF ps = {} THEN v.bi
                ELSE IF Min(ps) > base THEN (v.bo + Min(ps) - base) % BufLen ELSE v.bo
        y    == Ensure(x, \A p \in ps : p <= v.pos /\ v.pos - p < BufLen)
    IN IF bo = v.bo THEN y ELSE PostSpace(y, "out", bo)

\* send_read_reply()
SendReadReply(x, c, rq) ==
    LET v      == x.vs["out"]
        k      == x.cl["out"][c]
        behind == v.pos - k.pos
        avail  == Min({Held(v), behind})
        n      == Min({avail, rq.size})
        moved  == behind - avail + n
        eos    == moved = behind /\ v.eosi
        y      == Ensure(x, (Held(v) > 0 \/ v.eosi) /\ behind >= 0 /\ (eos \/ moved > 0))
    IN [Reply(y, "out", c, rq.tok, 0) EXCEPT
            !.cl["out"][c].pos = @ + moved,
            !.got[c] = @ \o Bytes(v, v.bi + BufLen - avail, n),
            !.end[c] = @ \/ eos]

\* The requests of client c that can be answered, in virtual_stream_add_data().
AnswerReads(x, c) ==
    FoldLeft(LAMBDA y, rq : IF y.cl["out"][c].pos < y.vs["out"].pos \/ y.vs["out"].eosi
                            THEN SendReadReply([y EXCEPT !.cl["out"][c].rd = Tail(@)], c, rq) ELSE y,
             x, x.cl["out"][c].rd)

\* virtual_stream_add_data(): the state, data_size and the error.
AddData(x, s, data, eos) ==
    LET v == x.vs[s]
        n == IF v.eosi THEN 0 ELSE Min({Len(data), Space(v)})
        w == [v EXCEPT !.buf = [i \in 0..SBuf |-> LET j == 1 + ((i + BufLen - v.bi) % BufLen) IN
                                                  IF j <= n THEN data[j] ELSE v.buf[i]],
                       !.bi = (@ + n) % BufLen, !.pos = @ + n,
                       !.eosi = @ \/ (eos /\ n = Len(data))]
        y == [Ensure(x, v.st = "live") EXCEPT !.vs[s] = w]
        z == IF s = "out"
             THEN IF ~v.eosi /\ (w.eosi \/ n > 0) THEN Advance(FoldLeft(AnswerReads, y, w.list)) ELSE y
             ELSE IF v.dp THEN y ELSE Post([y EXCEPT !.vs[s].dp = TRUE], <<"data", s>>)
    IN [x |-> z, done |-> n, err |-> v.eosi]

\* The answer to requests that fail, or whose client goes.
CancelAll(x, s, c, rqs) == FoldLeft(LAMBDA y, q : Reply(y, s, c, q.tok, 0), x, rqs)

\* The first write request rq of client c, in virtual_stream_get_data(); a is
\* what AddData gives for its data.
MoveWrite(a, c, rq) ==
    LET rest == SubSeq(rq.data, a.done + 1, Len(rq.data))
    IN IF a.err THEN [CancelAll(a.x, "in", c, a.x.cl["in"][c].wr) EXCEPT !.cl["in"][c].wr = <<>>]
       ELSE IF rest # <<>> THEN [a.x EXCEPT !.cl["in"][c].wr[1].data = rest]
       ELSE Reply([a.x EXCEPT !.cl["in"][c].wr = Tail(@)], "in", c, rq.tok, rq.size)
MoveWrites(x, c) ==
    LET rq == Head(x.cl["in"][c].wr)
    IN IF x.cl["in"][c].wr = <<>> THEN x ELSE MoveWrite(AddData(x, "in", rq.data, rq.eos), c, rq)

TakeBytes(x, data, eos) ==
    LET v  == x.vs["in"]
        bo == (v.bo + Len(data)) % BufLen
    IN IF data = <<>> THEN x
       ELSE PostSpace([Ensure(x, ~eos \/ bo = v.bi) EXCEPT !.taken = @ \o data], "in", bo)

\* virtual_stream_get_data(): the state, the data and the end of stream.
GetData(x) ==
    LET v    == x.vs["in"]
        n    == Min({Held(v), PBuf})
        eos  == Held(v) <= PBuf /\ v.eosi
        y    == [Ensure(x, v.st = "live") EXCEPT !.vs["in"].eoso = @ \/ eos]
    IN [x    |-> TakeBytes(FoldLeft(MoveWrites, y, v.list), Bytes(v, v.bo, n), eos),
        data |-> Bytes(v, v.bo, n), eos |-> eos]

----------------------------------------------------------------------------
(* Streams and clients. *)

\* virtual_stream_delete()
Delete(x, s) ==
    LET y == [Ensure(x, x.vs[s].st = "live" /\ ~x.vs[s].del) EXCEPT !.vs[s].del = TRUE, !.vs[s].ref = @ - 1] IN
    IF y.vs[s].ref > 0 THEN y ELSE Post(Ensure(y, y.vs[s].list = <<>>), <<"delete", s>>)

\* create_client()
CreateClient(x, s, c) ==
    LET p == x.vs[s].pos - Held(x.vs[s]) IN
    [x EXCEPT !.cl[s][c] = [NoClient EXCEPT !.pos = p, !.from = p],
              !.got[c] = IF s = "out" THEN <<>> ELSE @, !.end[c] = @ /\ s # "out",
              !.vs[s].list = <<c>> \o @, !.vs[s].ref = @ + 1]

MutDeleteClient(x, s, c) ==
    LET y == [x EXCEPT !.vs[s].list = SelectSeq(@, LAMBDA d : d # c), !.vs[s].ref = @ - 1,
                       !.cl[s][c] = NoClient]
    IN IF y.vs[s].ref = 0 THEN Post(y, <<"delete", s>>) ELSE IF s = "out" THEN Advance(y) ELSE y

\* delete_client(): with the last reference the stream goes.
Dereference(x, s) ==
    IF x.vs[s].ref = 0 THEN Post(Ensure(x, x.vs[s].list = <<>> /\ x.vs[s].del), <<"delete", s>>)
    ELSE IF s = "out" THEN Advance(x) ELSE x
DeleteClient(x, s, c) ==
    Dereference([CancelAll(x, s, c, x.cl[s][c].rd \o x.cl[s][c].wr) EXCEPT
                    !.vs[s].list = SelectSeq(@, LAMBDA d : d # c), !.vs[s].ref = @ - 1,
                    !.cl[s][c] = NoClient], s)

----------------------------------------------------------------------------
(* The pipes of the process. *)

\* process_input_streams_callback()
TakeInput(g) == [g.x EXCEPT !.pi.buf = g.data, !.pi.eos = g.eos]
StartWrite(x) == IF x.pi.buf = <<>> THEN x ELSE [x EXCEPT !.pi.req = "busy"]
MutInputCallback(x) ==
    IF x.pi.req # "no" \/ x.pi.buf # <<>> \/ x.pi.eos THEN x ELSE StartWrite(TakeInput(GetData(x)))
InputCallback(x) ==
    IF x.pi.req # "no" THEN Ensure(x, x.pi.st = "live")
    ELSE Ensure(StartWrite(IF x.pi.buf = <<>> /\ ~x.pi.eos THEN TakeInput(GetData(x)) ELSE x),
                x.pi.st = "live")

\* write_process_input_done(), after n bytes were written, or n < 0
InputDone(x, n) ==
    LET y == [Ensure(x, x.pi.st = "live") EXCEPT !.pi.req = "no"] IN
    IF ~x.pi.prs THEN [Delete(y, "in") EXCEPT !.pi.st = "freed"]
    ELSE InputCallback([y EXCEPT !.pi.buf = IF n < 0 THEN <<>> ELSE SubSeq(@, n + 1, Len(@))])

\* process_output_streams_callback()
DropOutput(a, p) ==
    [a.x EXCEPT !.po.buf = SubSeq(p.buf, a.done + 1, Len(p.buf)),
                !.po.eos = @ \/ (p.eof /\ a.done = Len(p.buf))]
StartRead(x) ==
    IF x.po.buf # <<>> THEN x
    ELSE IF ~x.po.eof THEN [x EXCEPT !.po.req = "busy"]
    ELSE IF x.vs["out"].bi = x.vs["out"].bo THEN [Delete(x, "out") EXCEPT !.po.st = "freed"] ELSE x
OutputCallback(x) ==
    LET p == x.po
    IN IF p.req # "no" THEN Ensure(x, p.st = "live")
       ELSE Ensure(StartRead(IF p.buf # <<>> \/ p.eos # p.eof
                             THEN DropOutput(AddData(x, "out", p.buf, p.eof), p) ELSE x),
                   p.st = "live")

----------------------------------------------------------------------------
(* Actions. *)

Init ==
    \E s \in Scenarios :
        /\ b = [out |-> s.out, reads |-> s.reads, writes |-> s.writes, conn |-> s.conn]
        /\ r = [vs |-> [t \in Streams |-> NoStream], cl |-> [t \in Streams |-> [c \in Channels |-> NoClient]],
                pi |-> NoInput, po |-> NoOutput, sub |-> SetToSortSeq(s.sub, <), q |-> <<>>, ok |-> TRUE,
                rep |-> [t \in Streams |-> [c \in Channels |-> <<>>]],
                cnt |-> [t \in Streams |-> [c \in Channels |-> 0]],
                got |-> [c \in Channels |-> <<>>], end |-> [c \in Channels |-> FALSE], taken |-> <<>>]

Step(x) == r' = x /\ UNCHANGED b

Use(f, x) == b[f] > 0 /\ r' = x /\ b' = [b EXCEPT ![f] = @ - 1]

\* command_subscribe(); a second one is refused.
Subscribe == \E c \in Channels :
    Use("conn", IF c \in Range(r.sub) THEN r ELSE [r EXCEPT !.sub = <<c>> \o @])

\* command_unsubscribe()
Unsubscribe == \E c \in Channels : Use("conn", [r EXCEPT !.sub = SelectSeq(@, LAMBDA d : d # c)])

\* write_process_input() and read_process_output(), when a process is started.
Launch ==
    /\ r.pi.st = "none"
    /\ LET new == [NoStream EXCEPT !.st = "live", !.ref = 1]
           x   == [r EXCEPT !.vs = [s \in Streams |-> new], !.pi.st = "live",
                            !.po = [@ EXCEPT !.st = "live", !.req = "busy"]]
           Both(y, c) == CreateClient(CreateClient(y, "in", c), "out", c)
       IN Step(FoldLeft(Both, x, r.sub))

\* command_read()
Read == \E c \in Channels, n \in 1..PBuf :
    LET v == r.vs["out"]
        k == r.cl["out"][c]
        rq == [tok |-> r.cnt["out"][c] + 1, size |-> n]
        x == [r EXCEPT !.cnt["out"][c] = @ + 1]
    IN Use("reads",
           IF ~Connected(r, "out", c) THEN Reply(x, "out", c, rq.tok, 0)
           ELSE IF k.pos = v.pos /\ ~v.eosi THEN [x EXCEPT !.cl["out"][c].rd = Append(@, rq)]
           ELSE Advance(SendReadReply(Ensure(x, k.rd = <<>>), c, rq)))

\* Data that were read from the command and not added yet, a chunk at a time.
Added(a, data) ==
    [x |-> a.x, err |-> a.err, queue |-> ~a.err /\ a.done < Len(data),
     rest |-> SubSeq(data, a.done + 1, Len(data))]
AddChunk(st, data) ==
    IF st.queue THEN [st EXCEPT !.rest = @ \o data]
    ELSE IF st.err THEN st
    ELSE Added(AddData(st.x, "in", data, FALSE), data)

QueueOrReply(st, c, rq) ==
    IF st.queue THEN [st.x EXCEPT !.cl["in"][c].wr = Append(@, [rq EXCEPT !.data = st.rest])]
    ELSE Reply(st.x, "in", c, rq.tok, IF st.err THEN 0 ELSE rq.size)

\* The i-th byte of command tok of channel c.
Byte(c, tok, i) == c * 100 + tok * 10 + i

\* command_write()
Write == \E c \in Channels, n \in 1..(Chunk + 1) :
    LET tok    == r.cnt["in"][c] + 1
        data   == [i \in 1..n |-> Byte(c, tok, i)]
        rq     == [tok |-> tok, size |-> n, data |-> data, eos |-> FALSE]
        x      == [r EXCEPT !.cnt["in"][c] = tok]
        queued == r.cl["in"][c].wr # <<>>
        chunks == <<SubSeq(data, 1, Min({Chunk, n})), SubSeq(data, Chunk + 1, n)>>
        st     == [x |-> x, err |-> FALSE, queue |-> queued, rest |-> IF queued THEN data ELSE <<>>]
        full   == SelectSeq(chunks, LAMBDA d : d # <<>>)
    IN Use("writes", IF ~Connected(r, "in", c) THEN Reply(x, "in", c, tok, 0)
                     ELSE QueueOrReply(IF queued THEN st ELSE FoldLeft(AddChunk, st, full), c, rq))

\* command_eos()
Eos == \E c \in Channels :
    LET tok == r.cnt["in"][c] + 1
        rq  == [tok |-> tok, size |-> 0, data |-> <<>>, eos |-> TRUE]
        x   == [r EXCEPT !.cnt["in"][c] = tok]
        a   == AddData(x, "in", <<>>, TRUE)
    IN Use("writes", IF ~Connected(r, "in", c) THEN Reply(x, "in", c, tok, 0)
                     ELSE IF r.cl["in"][c].wr # <<>> THEN [x EXCEPT !.cl["in"][c].wr = Append(@, rq)]
                     ELSE Reply(a.x, "in", c, tok, 0))

\* command_connect()
Connect == \E c \in Channels, s \in Streams :
    /\ ~Connected(r, s, c) /\ r.vs[s].st = "live" /\ ~r.vs[s].del
    /\ Use("conn", CreateClient(r, s, c))

\* command_disconnect()
Disconnect == \E c \in Channels, s \in Streams : Connected(r, s, c) /\ Use("conn", DeleteClient(r, s, c))

\* channel_close_listener()
Close == \E c \in Channels :
    LET Drop(s, x) == IF Connected(x, s, c) THEN DeleteClient(x, s, c) ELSE x
    IN /\ \E s \in Streams : Connected(r, s, c)
       /\ Use("conn", FoldSet(Drop, [r EXCEPT !.sub = SelectSeq(@, LAMBDA d : d # c)], Streams))

\* A worker wrote to the pipe of the process, or failed.
WriteComplete == r.pi.req = "busy" /\ Step(Post([r EXCEPT !.pi.req = "done"], <<"done", "in">>))

\* A worker read from the pipe of the process.
ReadComplete == r.po.req = "busy" /\ Step(Post([r EXCEPT !.po.req = "done"], <<"done", "out">>))

\* process_exited()
ExitProcess ==
    /\ r.pi.st = "live" /\ r.pi.prs
    /\ Step(IF r.pi.req = "no" THEN [Delete(r, "in") EXCEPT !.pi.st = "freed", !.pi.prs = FALSE]
            ELSE [r EXCEPT !.pi.prs = FALSE])

\* The number of bytes read so far, which are numbered from 1.
OutSent(x) == x.vs["out"].pos + Len(x.po.buf)

\* One event: notify_data_available(), notify_space_available(), delete_stream(),
\* write_process_input_done() and read_process_output_done().
Dispatch ==
    /\ r.q # <<>>
    /\ LET e == Head(r.q)
           x == [r EXCEPT !.q = Tail(@)]
           Live(t) == Ensure(x, x.vs[t].st = "live")
           s == e[2]
           Callback(y) == IF s = "in" THEN InputCallback(y) ELSE OutputCallback(y)
       IN CASE e[1] = "data" ->
                 Step(LET y == [Live(s) EXCEPT !.vs[s].dp = FALSE] IN
                      IF y.vs[s].del \/ y.vs[s].eoso THEN y ELSE Callback(y))
            [] e[1] = "space" ->
                 Step(LET y == [Live(s) EXCEPT !.vs[s].sp = FALSE] IN
                      IF y.vs[s].del \/ y.vs[s].eosi THEN y ELSE Callback(y))
            [] e[1] = "delete" ->
                 Step([Ensure(Live(s), x.vs[s].list = <<>> /\ x.vs[s].del) EXCEPT !.vs[s].st = "freed"])
            [] e = <<"done", "in">> -> \E n \in {-1} \union 1..Len(r.pi.buf) : Step(InputDone(x, n))
            [] e = <<"done", "out">> ->
                 \E n \in 0..Min({PBuf, b.out}) :
                    /\ r' = OutputCallback([Ensure(x, x.po.st = "live") EXCEPT
                                !.po = [@ EXCEPT !.req = "no", !.eof = n = 0,
                                                 !.buf = [i \in 1..n |-> OutSent(x) + i]]])
                    /\ b' = [b EXCEPT !.out = @ - n]

Next ==
    \/ Subscribe \/ Unsubscribe \/ Launch \/ Read \/ Write \/ Eos \/ Connect \/ Disconnect \/ Close
    \/ WriteComplete \/ ReadComplete \/ ExitProcess \/ Dispatch

\* Events are dispatched and pipe writes end; nothing else is promised: clients
\* may stop reading, and the process may never write or exit.
Fairness ==
    /\ []<>(r.q = <<>>) \/ []<><<Dispatch>>_vars
    /\ []<>(r.pi.req # "busy") \/ []<><<WriteComplete>>_vars

Spec == Init /\ [][Next]_vars /\ Fairness

----------------------------------------------------------------------------
(* Properties. *)

Waiting(s, c) == r.cl[s][c].rd \o r.cl[s][c].wr

\* No assertion of the service fails, and no event or callback meets a stream
\* or a process structure that has been freed.
Sound == r.ok

\* Every command is answered once, and the commands of a channel on a stream
\* are answered in the order they came in, also by disconnecting.
AnsweredInOrder ==
    \A s \in Streams, c \in Channels :
        LET all == r.rep[s][c] \o Waiting(s, c) IN
        Len(all) = r.cnt[s][c] /\ \A i \in DOMAIN all : all[i].tok = i

\* No reply is lost, repeated or sent from freed memory.
RequestsSound == Sound /\ AnsweredInOrder

\* A client gets the output of the process from where the buffer began when it
\* connected, without gaps or repetitions, whatever other clients do, and the
\* end of the stream only after the last byte.
OutputIntact ==
    \A c \in Channels : Connected(r, "out", c) =>
        LET k == r.cl["out"][c] IN
        /\ r.got[c] = [i \in 1..(k.pos - k.from) |-> k.from + i]
        /\ r.end[c] => r.vs["out"].eosi /\ k.pos = r.vs["out"].pos
        /\ \A i \in 1..(r.vs["out"].pos - k.pos) :
               Bytes(r.vs["out"], r.vs["out"].bi + BufLen - (r.vs["out"].pos - k.pos), i)[i] = k.pos + i

\* What clients write reaches the process in order, a write that succeeded is
\* there as a whole, and one that did not is cut off at its end.
InputIntact ==
    LET v   == r.vs["in"]
        acc == r.taken \o Bytes(v, v.bo, Held(v))
        Of(c) == SelectSeq(acc, LAMBDA y : y \div 100 = c)
    IN \A c \in Channels :
        /\ \A i, j \in DOMAIN Of(c) : i < j => Of(c)[i] < Of(c)[j]
        /\ \A i \in DOMAIN Of(c) : Of(c)[i] % 10 > 1 => \E j \in 1..(i - 1) : Of(c)[j] = Of(c)[i] - 1
        /\ \A m \in Range(r.rep["in"][c]) : \A i \in 1..m.n : Byte(c, m.tok, i) \in Range(Of(c))

\* Nothing that goes through the buffers is lost, repeated or reordered.
DataIntact == OutputIntact /\ InputIntact

\* Nobody waits for what is already there: a read waits only at the end of the
\* data; the agent keeps output of the process only while the buffer is full,
\* or an event is posted; and it leaves input in the buffer, or a write waiting,
\* only while it writes to the process, or an event is posted.
NoLostWakeup ==
    LET out == r.vs["out"]
        inp == r.vs["in"]
    IN /\ \A c \in Channels : r.cl["out"][c].rd # <<>> => r.cl["out"][c].pos = out.pos /\ ~out.eosi
       /\ r.po.st = "live" /\ r.po.req = "no" /\ r.po.buf # <<>> => Space(out) = 0 \/ out.sp
       /\ r.pi.st = "live" /\ r.pi.req = "no" /\ ~r.pi.eos
             /\ (Held(inp) > 0 \/ \E c \in Channels : r.cl["in"][c].wr # <<>>)
             => inp.dp

\* A write is answered in the end, unless the process exits first.
WritesEnd ==
    \A c \in Channels : r.cl["in"][c].wr # <<>> ~> r.cl["in"][c].wr = <<>> \/ r.vs["in"].del
=============================================================================

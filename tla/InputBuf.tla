------------------------------ MODULE InputBuf ------------------------------
(***************************************************************************)
(* The reading side of a channel: the ring buffer that receives, counts    *)
(* and decodes messages (framework/inputbuf.c), with the TCP channel that  *)
(* drives it (framework/channel_tcp.c).                                    *)
(*                                                                         *)
(* A worker thread receives bytes into the free part of the buffer; on the *)
(* dispatch thread ibuf_read_done() counts the messages that arrived, and  *)
(* a message handler reads them byte by byte.  Byte 3 is ESC; 3 0 encodes  *)
(* ESC itself, 3 1 the end of a message, 3 2 the end of the stream and     *)
(* 3 3 a block of bytes that are not escaped; its size comes first, in     *)
(* groups of 7 bits, the lowest first, with 128 added to all but the last. *)
(* t and ib stand for an InputBuf.                                         *)
(***************************************************************************)
EXTENDS Integers, SequencesExt

CONSTANTS
    Streams,  \* what peers send
    BufSize,  \* size of the buffer at the start
    MaxSizes, \* limits to which it grows; BufSize without ENABLE_InputQueue
    None

ASSUME ConstantAssumption ==
    /\ BufSize \in Nat \ {0, 1}
    /\ MaxSizes \subseteq Nat
    /\ \A m \in MaxSizes : m >= BufSize

ESC == 3
EOM == -1
EOS == -2

VARIABLES
    ib,       \* the InputBuf, see IBufRec
    max_size, \* limit of this build
    rd,       \* the read request: [at, size, st] or None
    stream,   \* bytes the peer has not sent yet
    recvd,    \* bytes ibuf_read_done() was given
    fresh,    \* bytes that were received and not given to ibuf_read_done() yet
    got,      \* what message handlers have read
    hpc,      \* the message handler: "none", "run", in the loop of ibuf_get_more(), "wait"
    out,      \* local variable of ibuf_get_more()
    peeking,  \* argument of ibuf_get_more()
    state,    \* of the channel
    locked    \* the reader has its lock on the channel, which keeps the buffer

hvars == <<hpc, out, peeking>>
vars == <<ib, max_size, rd, stream, recvd, fresh, got, hvars, state, locked>>

\* inp_left, out_left: inp_data_size, out_data_size, first the size of a block,
\* while size_mode is the number of the next group of it, then what is left of
\* the block.  counted: assert(message_count == 1) of ibuf_read_done() held.
IBufRec == [size : Nat, buf : Seq(Nat), inp : Nat, cur : Nat, end : Nat,
            inp_esc : BOOLEAN, inp_size_mode : Nat, inp_left : Nat,
            out_esc : BOOLEAN, out_size_mode : Nat, out_left : Nat,
            eof : BOOLEAN, long_msg : BOOLEAN, message_count : Nat,
            handling_msg : {"Idle", "Triggered", "Active"}, counted : BOOLEAN]

\* Offsets count from 0, as in the code.
At(t, i) == t.buf[i + 1]

-----------------------------------------------------------------------------
(* inputbuf.c                                                              *)

\* tcp_trigger_message()
Triggered(h) == IF h = "Idle" THEN "Triggered" ELSE h

NewMessage(t) ==
    [t EXCEPT !.message_count = @ + 1, !.handling_msg = Triggered(@)]

Eof(t) == IF t.eof THEN t ELSE NewMessage([t EXCEPT !.eof = TRUE])

\* ibuf_free_size(): an empty tail of the buffer is given up first; one byte
\* stays free so that a full buffer differs from an empty one.
Wrapped(t) == IF ~t.eof /\ t.cur = t.size THEN [t EXCEPT !.cur = 0, !.end = 0] ELSE t

Room(cur, inp, size) ==
    IF cur <= inp
    THEN size - inp - (IF cur = 0 THEN 1 ELSE 0)
    ELSE cur - inp - 1

FreeSize(t) == IF t.eof THEN 0 ELSE Room(Wrapped(t).cur, t.inp, t.size)

\* ibuf_trigger_read() and tcp_post_read(): one request at a time.
ReadRequest(t, r) ==
    IF r # None \/ FreeSize(t) = 0 THEN r
    ELSE [at |-> t.inp, size |-> FreeSize(t), st |-> "run"]

\* The size of a block after one more byte of it, and the group that follows.
MutSizeAfter(size, mode, ch) == size + (ch % 128)
SizeAfter(size, mode, ch) == size + (ch % 128) * 128 ^ (mode - 1)
ModeAfter(mode, ch) == IF ch >= 128 THEN mode + 1 ELSE 0

\* The loop of ibuf_read_done(): it follows the encoding to count messages.
ScanData(t, n) == [t EXCEPT !.inp_left = @ - n]

Unescaped(t) == [t EXCEPT !.inp_esc = FALSE]

ScanByte(t, ch) ==
    CASE t.inp_size_mode > 0 ->
           [t EXCEPT !.inp_left = SizeAfter(@, t.inp_size_mode, ch),
                     !.inp_size_mode = ModeAfter(@, ch)]
      [] t.inp_size_mode = 0 /\ t.inp_left > 0 -> ScanData(t, 1)
      [] t.inp_size_mode = 0 /\ t.inp_left = 0 /\ ~t.inp_esc -> [t EXCEPT !.inp_esc = (ch = ESC)]
      [] OTHER ->
           LET u == Unescaped(t)
           IN  CASE ch = 0 -> u
                 [] ch = 1 -> IF t.long_msg
                              THEN [u EXCEPT !.long_msg = FALSE,
                                             !.counted = @ /\ t.message_count = 1]
                              ELSE NewMessage(u)
                 [] ch = 3 -> [u EXCEPT !.inp_size_mode = 1]
                 [] OTHER  -> Eof(u)

\* The unread bytes, in order.
MutRotated(t) == [i \in 1..t.size |-> At(t, i - 1)]
Rotated(t) == [i \in 1..t.size |-> At(t, (t.cur + i - 1) % t.size)]

\* A full buffer is doubled; what is unread moves to its start.
Grow(t) ==
    LET u == Wrapped(t)
    IN  IF t.eof \/ FreeSize(t) > 0 \/ t.size >= max_size THEN u
        ELSE [u EXCEPT !.size = 2 * t.size,
                       !.buf = Rotated(u) \o [i \in 1..t.size |-> 0],
                       !.inp = t.size - 1, !.cur = 0, !.end = u.end - u.cur]

\* A buffer that is full with an incomplete message: start to handle it.
MutLongMessage(t) == t
LongMessage(t) ==
    IF FreeSize(t) = 0 /\ t.message_count = 0
    THEN NewMessage([t EXCEPT !.long_msg = TRUE]) ELSE t

InpAfter(t, n) == (t.inp + n) % t.size

ReadDone(t, bytes) ==
    IF bytes = << >> THEN Eof(t)
    ELSE LET Scan(v, ch) == CHOOSE u \in {ScanByte(v, ch)} : TRUE   \* evaluated at once
             u == FoldLeft(Scan, t, bytes)
         IN  LongMessage(Grow([u EXCEPT !.inp = InpAfter(t, Len(bytes))]))

\* ibuf_flush()
Flushed(t) ==
    [t EXCEPT !.cur = t.inp, !.end = t.inp, !.message_count = 0,
              !.out_left = 0, !.out_size_mode = 0, !.inp_left = 0, !.inp_size_mode = 0]

-----------------------------------------------------------------------------
(* channel_tcp.c                                                           *)

\* A worker receives bytes; 0 bytes are the end of the connection or an error.
Receive(n) ==
    /\ rd # None
    /\ rd.st = "run"
    /\ n <= rd.size
    /\ n <= Len(stream)
    /\ rd' = [rd EXCEPT !.st = "done"]
    /\ ib' = [ib EXCEPT !.buf = [i \in DOMAIN @ |->
                IF i - 1 \in rd.at..rd.at + n - 1 THEN stream[i - rd.at] ELSE @[i]]]
    /\ fresh' = SubSeq(stream, 1, n)
    /\ stream' = IF n = 0 THEN << >> ELSE SubSeq(stream, n + 1, Len(stream))
    /\ UNCHANGED <<max_size, recvd, got, hvars, state, locked>>

\* tcp_channel_read_done() on an open channel, from the event queue or from
\* tcp_wait_read().
ChannelReadDone ==
    /\ rd # None
    /\ rd.st = "done"
    /\ state = "open"
    /\ hpc \in {"none", "wait"}
    /\ ib' = ReadDone(ib, fresh)
    /\ rd' = IF fresh = << >> THEN None ELSE ReadRequest(ib', None)
    /\ recvd' = recvd \o fresh
    /\ fresh' = << >>
    /\ IF hpc = "wait" THEN hpc' = "loop" /\ out' = ib'.cur ELSE UNCHANGED <<hpc, out>>
    /\ UNCHANGED <<max_size, stream, got, peeking, state, locked>>

\* A closed channel reads until the peer ends the connection.
DrainRequest == [at |-> 0, size |-> ib.size, st |-> "run"]

Drain(r) == IF r = None THEN DrainRequest ELSE r

\* tcp_channel_read_done() on a closed channel.
DrainDone ==
    /\ rd # None
    /\ rd.st = "done"
    /\ state = "closed"
    /\ rd' = IF fresh = << >> THEN None ELSE DrainRequest
    /\ locked' = (fresh # << >>)
    /\ fresh' = << >>
    /\ UNCHANGED <<ib, max_size, stream, recvd, got, hvars, state>>

\* send_eof_and_close(): what was not handled is thrown away.
Close ==
    /\ state = "open"
    /\ state' = "closed"
    /\ hpc' = "none"
    /\ ib' = [Flushed(ib) EXCEPT !.handling_msg = IF @ = "Triggered" THEN "Idle" ELSE @]
    /\ rd' = Drain(rd)
    /\ UNCHANGED <<max_size, stream, recvd, fresh, out, peeking, locked>>

ChannelClose == hpc = "none" /\ Close /\ UNCHANGED got

\* handle_channel_msg(): the end of the stream closes the channel.
CanHandle == state = "open" /\ hpc = "none" /\ ib.handling_msg = "Triggered"

HandleEof == CanHandle /\ ib.eof /\ Close /\ UNCHANGED got

HandleMessage ==
    /\ CanHandle
    /\ ib.message_count > 0
    /\ ~ib.eof
    /\ ib' = [ib EXCEPT !.handling_msg = "Active"]
    /\ hpc' = "run"
    /\ UNCHANGED <<max_size, rd, stream, recvd, fresh, got, out, peeking, state, locked>>

\* The handler fails.
HandlerThrow == hpc = "run" /\ Close /\ UNCHANGED got

-----------------------------------------------------------------------------
(* read_stream() and peek_stream() of the message handler.                 *)

\* Plain bytes are read without a call to ibuf_get_more().
ReadFast ==
    /\ hpc = "run"
    /\ ib.cur < ib.end
    /\ got' = Append(got, At(ib, ib.cur))
    /\ ib' = [ib EXCEPT !.cur = @ + 1]
    /\ UNCHANGED <<max_size, rd, stream, recvd, fresh, hvars, state, locked>>

GetMore(peek) ==
    /\ hpc = "run"
    /\ ib.cur = ib.end
    /\ hpc' = "loop"
    /\ out' = ib.cur
    /\ peeking' = peek
    /\ UNCHANGED <<ib, max_size, rd, stream, recvd, fresh, got, state, locked>>

\* The position of the loop of ibuf_get_more().
Pos == IF out = ib.size THEN 0 ELSE out
HasData == Pos # ib.inp

InLoop == hpc = "loop"

\* No data: wait for more, or report the end of the stream; the handler does
\* not go on after that.
NoData ==
    /\ InLoop
    /\ ~HasData
    /\ IF ib.eof
       THEN /\ state' = "closed"
            /\ hpc' = "none"
            /\ ib' = Flushed([ib EXCEPT !.cur = Pos])
            /\ got' = Append(got, EOS)
            /\ rd' = Drain(rd)
       ELSE /\ ib' = Wrapped([ib EXCEPT !.cur = Pos])
            /\ rd' = ReadRequest(ib', rd)
            /\ hpc' = "wait"
            /\ UNCHANGED <<got, state>>
    /\ UNCHANGED <<max_size, stream, recvd, fresh, out, peeking, locked>>

\* The loop goes on after a byte that is not returned.
Continue(t) ==
    /\ ib' = t
    /\ out' = Pos + 1
    /\ UNCHANGED <<max_size, rd, stream, recvd, fresh, got, hpc, peeking, state, locked>>

\* ibuf_get_more() returns ch; t is the buffer by then.
Return(ch, t) ==
    /\ rd' = ReadRequest(t, rd)
    /\ ib' = Wrapped(t)
    /\ got' = IF peeking THEN got ELSE Append(got, ch)
    /\ hpc' = IF ch = EOM /\ ~peeking THEN "none" ELSE "run"
    /\ UNCHANGED <<max_size, stream, recvd, fresh, out, peeking, state, locked>>

\* The last byte that follows Pos without a gap.
Contiguous == IF Pos < ib.inp THEN ib.inp ELSE ib.size

ReadBlockSize ==
    /\ InLoop /\ HasData
    /\ ib.out_size_mode > 0
    /\ Continue([ib EXCEPT !.out_left = SizeAfter(@, ib.out_size_mode, At(ib, Pos)),
                           !.out_size_mode = ModeAfter(@, At(ib, Pos))])

ReadBlock ==
    LET n == IF Contiguous - Pos < ib.out_left THEN Contiguous - Pos ELSE ib.out_left
    IN  /\ InLoop /\ HasData
        /\ ib.out_size_mode = 0
        /\ ib.out_left > 0
        /\ Return(At(ib, Pos),
                  [ib EXCEPT !.out_left = @ - n, !.end = Pos + n,
                             !.cur = IF peeking THEN Pos ELSE Pos + 1])

InText == InLoop /\ HasData /\ ib.out_size_mode = 0 /\ ib.out_left = 0

\* The byte after ESC.  The end of the message ends the handler, and the next
\* message is triggered.
MutNextMessage(n) == IF n > 1 THEN "Triggered" ELSE "Idle"
NextMessage(n) == IF n > 0 THEN "Triggered" ELSE "Idle"

EndMessage(t) ==
    [t EXCEPT !.message_count = @ - 1, !.handling_msg = NextMessage(t.message_count - 1)]

ReadEscape ==
    LET ch == At(ib, Pos)
        t  == IF peeking THEN [ib EXCEPT !.cur = Pos, !.end = Pos]
              ELSE [ib EXCEPT !.cur = Pos + 1, !.end = Pos + 1, !.out_esc = FALSE]
    IN  /\ InText
        /\ ib.out_esc
        /\ \/ ch = 0 /\ Return(ESC, t)
           \/ ch = 1 /\ Return(EOM, IF peeking THEN t ELSE EndMessage(t))
           \/ ch = 2 /\ Return(EOS, t)
           \/ ch = 3 /\ Continue([ib EXCEPT !.out_size_mode = 1, !.out_esc = FALSE])

ReadEsc ==
    /\ InText
    /\ ~ib.out_esc
    /\ At(ib, Pos) = ESC
    /\ Continue([ib EXCEPT !.out_esc = TRUE])

\* Plain bytes up to the next ESC are made available at once.
Plain(from, to) == \A i \in from..to - 1 : At(ib, i) # ESC

ReadPlain ==
    /\ InText
    /\ ~ib.out_esc
    /\ At(ib, Pos) # ESC
    /\ \E last \in Pos + 1..Contiguous :
         /\ Plain(Pos, last)
         /\ last < Contiguous => At(ib, last) = ESC
         /\ Return(At(ib, Pos), [ib EXCEPT !.cur = IF peeking THEN Pos ELSE Pos + 1, !.end = last])

-----------------------------------------------------------------------------
Empty == [size |-> BufSize, buf |-> [i \in 1..BufSize |-> 0], inp |-> 0, cur |-> 0, end |-> 0,
          inp_esc |-> FALSE, inp_size_mode |-> 0, inp_left |-> 0,
          out_esc |-> FALSE, out_size_mode |-> 0, out_left |-> 0,
          eof |-> FALSE, long_msg |-> FALSE, message_count |-> 0, handling_msg |-> "Idle",
          counted |-> TRUE]

\* start_channel() posts the first read.
Init ==
    /\ ib = Empty
    /\ max_size \in MaxSizes
    /\ rd = ReadRequest(Empty, None)
    /\ stream \in Streams
    /\ recvd = << >>
    /\ fresh = << >>
    /\ got = << >>
    /\ hpc = "none"
    /\ out = 0
    /\ peeking = FALSE
    /\ state = "open"
    /\ locked = TRUE

Handler ==
    \/ ReadFast \/ (\E peek \in BOOLEAN : GetMore(peek)) \/ NoData \/ ReadBlockSize \/ ReadBlock
    \/ ReadEscape \/ ReadEsc \/ ReadPlain

Next ==
    \/ \E n \in 0..(2 * BufSize) : Receive(n)
    \/ ChannelReadDone
    \/ DrainDone
    \/ ChannelClose
    \/ HandleEof
    \/ HandleMessage
    \/ HandlerThrow
    \/ Handler

Spec == Init /\ [][Next]_vars

\* Weak fairness of the end of a read, with its condition written out.
ReadIsDone == rd # None /\ rd.st = "done" /\ (state = "closed" \/ hpc \in {"none", "wait"})
ReadsAreDone == []<>~ReadIsDone \/ []<><<ChannelReadDone \/ DrainDone>>_vars

\* The peer goes on sending and ends the connection, events are dispatched,
\* and a handler reads on rather than peek for ever.
FairSpec ==
    /\ Spec
    /\ WF_vars(\E n \in 0..(2 * BufSize) : Receive(n))
    /\ ReadsAreDone
    /\ WF_vars(HandleEof \/ HandleMessage)
    /\ WF_vars(Handler)
    /\ SF_vars(GetMore(FALSE))

-----------------------------------------------------------------------------
(* Correctness.                                                            *)

TypeOK ==
    /\ ib \in IBufRec
    /\ ib.inp < ib.size /\ ib.cur <= ib.size /\ ib.end <= ib.size
    /\ ib.size = Len(ib.buf) /\ ib.size <= max_size
    /\ hpc \in {"none", "run", "loop", "wait"}
    /\ state \in {"open", "closed"}
    /\ locked \in BOOLEAN

\* The reference decoder: one byte after the other, without a buffer.
\* groups: the bytes of the size of a block that were read, if size is TRUE.
Decoder == [esc |-> FALSE, size |-> FALSE, groups |-> << >>, left |-> 0, res |-> << >>]

BlockSize(groups) == FoldRight(LAMBDA byte, high : (byte % 128) + 128 * high, groups, 0)

DecodeByte(d, ch) ==
    CASE d.size -> IF ch >= 128 THEN [d EXCEPT !.groups = Append(@, ch)]
                   ELSE [d EXCEPT !.size = FALSE, !.groups = << >>,
                                  !.left = BlockSize(Append(d.groups, ch))]
      [] d.left > 0 -> [d EXCEPT !.left = @ - 1, !.res = Append(@, ch)]
      [] ~d.size /\ d.left = 0 /\ ~d.esc ->
           IF ch = ESC THEN [d EXCEPT !.esc = TRUE] ELSE [d EXCEPT !.res = Append(@, ch)]
      [] OTHER ->
           IF ch = 3 THEN [d EXCEPT !.esc = FALSE, !.size = TRUE]
           ELSE [d EXCEPT !.esc = FALSE,
                          !.res = IF ch \in 0..2 THEN Append(@, <<ESC, EOM, EOS>>[ch + 1]) ELSE @]

Decode(bytes) == FoldLeft(DecodeByte, Decoder, bytes).res
Count(seq, x) == Len(SelectSeq(seq, LAMBDA y : y = x))

\* Handlers read exactly what was sent: whatever the chunks in which bytes
\* arrive, wherever the buffer wraps or is doubled, and however often the
\* handler peeks.  A connection that ends within a message is reported as EOS.
ReadsWhatWasSent ==
    LET all == Decode(recvd)
    IN  \/ IsPrefix(got, all)
        \/ state = "closed" /\ got = Append(all, EOS)

\* message_count is the number of complete messages that no handler has read,
\* plus one for the end of the stream and one for an incomplete long message.
CountExact ==
    state = "open" =>
        ib.message_count = Count(Decode(recvd), EOM) - Count(got, EOM)
                             + (IF ib.eof THEN 1 ELSE 0) + (IF ib.long_msg THEN 1 ELSE 0)

\* The unread part of the buffer holds the last bytes that were received, and
\* the read request stays clear of it.
Unread == (ib.inp - ib.cur + ib.size) % ib.size
NoOverwrite ==
    TypeOK /\ (state = "open" =>
        /\ \A i \in 1..Unread : At(ib, (ib.cur + i - 1) % ib.size) = recvd[Len(recvd) - Unread + i]
        /\ rd # None =>
             /\ rd.at = ib.inp
             /\ rd.at + rd.size <= ib.size
             /\ rd.size + Unread < ib.size)

\* The buffer gives the handlers what was sent, knows how many messages are
\* left and never overwrites one.  CountExact is what message_count means; that
\* ibuf_read_done() expects less is LongMessageAlone.
BufferSound == ReadsWhatWasSent /\ CountExact /\ NoOverwrite

\* The assertion of ibuf_read_done() at the end of a long message (inputbuf.c:261):
\* the message is the only one that is counted.  It does not hold: a peer that
\* fails inside the message sends its closing message there, whose EOS is counted.
LongMessageAlone == ib.counted

\* The assertions of ibuf_get_more(): the dispatch thread blocks for input
\* only in a message that is longer than the buffer.
BlocksOnlyInLongMessage ==
    hpc = "loop" /\ ~HasData => ib.eof \/ (ib.long_msg /\ ib.message_count = 1)

\* A message that is counted is being handled or will be, and while there is
\* none the channel reads: neither side waits for the other.
NeverStalls ==
    state = "open" =>
        /\ ib.message_count > 0 => ib.handling_msg # "Idle"
        /\ ib.message_count = 0 /\ hpc = "none" => rd # None
        /\ hpc = "wait" => rd # None
        /\ ib.handling_msg = "Active" <=> hpc # "none"

\* The reader gives up its lock, and with it the buffer, only when the channel
\* is closed and no worker can write into the buffer any more; until then a
\* closed channel reads, so that the lock is given up at all.
ReaderLock == IF locked THEN state = "closed" => rd # None ELSE state = "closed" /\ rd = None

\* Neither the reader nor the dispatch thread waits for the other.
NoDeadlock == BlocksOnlyInLongMessage /\ NeverStalls /\ ReaderLock

\* Every connection is read to its end, closed, and its lock given up.
StreamEnds == <>(state = "closed" /\ ~locked)
=============================================================================

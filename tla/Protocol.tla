------------------------------ MODULE Protocol ------------------------------
(***************************************************************************)
(* Commands and their reply handlers (framework/protocol.c): the handshake *)
(* of a channel, the table of reply handlers, replies, redirection and the *)
(* closing of channels.                                                    *)
(*                                                                         *)
(* The code runs on the dispatch thread.  The loop of channel_closed()     *)
(* calls handlers that may send commands, so it takes one step per entry.  *)
(* The remote peers answer commands in any order, and end connections.     *)
(***************************************************************************)
EXTENDS Integers, FiniteSets, SequencesExt, FiniteSetsExt

CONSTANTS
    Chans,        \* channels that share one Protocol object
    Cmds,         \* commands, each a ReplyHandlerInfo
    HashSize,     \* REPLY_HASH_SIZE
    HashBase,     \* what a channel's address adds to the hash
    TokenMod,     \* range of an unsigned long
    ReenterOther, \* handlers of a closed channel may send on other channels
    NULL

ASSUME ConstantAssumption ==
    /\ HashSize \in Nat \ {0}
    /\ TokenMod \in Nat \ {0}
    /\ HashBase \in [Chans -> Nat]
    /\ ReenterOther \in BOOLEAN
    /\ NULL \notin Cmds \cup Chans

ASSUME NullAssumption == NULL \notin [c : Chans, bucket : Nat, at : Cmds \cup {NULL}, then : Cmds \cup {NULL}]

VARIABLES
    p,      \* Protocol object, reply handlers and what peers have to answer
    state,  \* of each channel
    list,   \* peer_service_list of the channel is known
    inq,    \* messages of the peer that were not handled
    hello,  \* the peer of the channel will send Hello
    loop,   \* the loop of channel_closed(), or NULL
    broken  \* channels closed for a protocol error, or with a failed assertion

vars == <<p, state, list, inq, hello, loop, broken>>

States == {"Started", "HelloSent", "HelloReceived", "Connected", "RedirectSent", "Disconnected"}

\* calls counts the calls of the handler, got is what the last one reported.  A
\* command is lost when its entry is gone and its handler will never be called.
Command == [st : {"new", "sent", "failed", "done", "lost"}, c : Chans \cup {NULL}, tokenid : 0..TokenMod - 1,
            handler : {"client", "redirect", "null"}, calls : Nat,
            got : {"none", "own", "other", "closed"}]
\* An R message with an error also stands for N; only redirect_done() cares.
Message == [type : {"R", "P", "Hello"}, tokenid : 0..TokenMod - 1, error : BOOLEAN,
            of : Cmds \cup {NULL}]
Buckets == 0..HashSize - 1
ProtocolRec == [tokenid : 0..TokenMod - 1, handlers : [Buckets -> Seq(Cmds)], cmd : [Cmds -> Command],
                unanswered : SUBSET Cmds, progressed : SUBSET Cmds]

-----------------------------------------------------------------------------
Hash(c, tokenid) == (HashBase[c] + tokenid) % HashSize

\* find_reply_handler()
Find(q, c, tokenid) ==
    LET bucket == q.handlers[Hash(c, tokenid)]
        hits == {i \in 1..Len(bucket) : q.cmd[bucket[i]].c = c /\ q.cmd[bucket[i]].tokenid = tokenid}
    IN  IF hits = {} THEN NULL ELSE bucket[Min(hits)]

\* Where an entry is in its bucket.
Pos(bucket, k) == CHOOSE i \in 1..Len(bucket) : bucket[i] = k

Taken(q, k) ==
    [q EXCEPT !.handlers[Hash(q.cmd[k].c, q.cmd[k].tokenid)] = RemoveAt(@, Pos(@, k))]

\* The next token that no command of the channel uses.  That there is one
\* bounds the commands that wait at the same time.
TokensFrom(q, c) == {i \in 0..TokenMod - 1 : Find(q, c, (q.tokenid + i) % TokenMod) = NULL}
HasToken(q, c) == TokensFrom(q, c) # {}

MutNextToken(q, c) == q.tokenid
NextToken(q, c) == (q.tokenid + Min(TokensFrom(q, c))) % TokenMod

CanSend(c) == state[c] # "Disconnected" /\ list[c]

\* protocol_send_command(): on a channel that cannot send the handler is
\* called from an event.
SendCommand(q, k, c, handler) ==
    LET cmd == [st |-> "sent", c |-> c, tokenid |-> 0, handler |-> handler, calls |-> 0, got |-> "none"]
        t == NextToken(q, c)
    IN  IF CanSend(c)
        THEN [q EXCEPT !.cmd[k] = [cmd EXCEPT !.tokenid = t],
                       !.tokenid = (t + 1) % TokenMod,
                       !.handlers[Hash(c, t)] = <<k>> \o @,
                       !.unanswered = @ \cup {k}]
        ELSE [q EXCEPT !.cmd[k] = [cmd EXCEPT !.st = "failed"]]

Called(q, k, what) ==
    [q EXCEPT !.cmd[k] = [@ EXCEPT !.st = "done", !.calls = q.cmd[k].calls + 1, !.got = what]]

New == {k \in Cmds : p.cmd[k].st = "new"}

Idle == loop = NULL

Send(k, c) ==
    /\ Idle
    /\ k \in New
    /\ HasToken(p, c)
    /\ p' = SendCommand(p, k, c, "client")
    /\ UNCHANGED <<state, list, inq, hello, loop, broken>>

\* send_redirect_command_by_id()
SendRedirect(k, c) ==
    /\ Idle
    /\ k \in New
    /\ HasToken(p, c)
    /\ state[c] = "Connected"
    /\ state' = [state EXCEPT ![c] = "RedirectSent"]
    /\ p' = SendCommand(p, k, c, "redirect")
    /\ UNCHANGED <<list, inq, hello, loop, broken>>

SendCommandFailed(k) ==
    /\ Idle
    /\ p.cmd[k].st = "failed"
    /\ p' = Called(p, k, "closed")
    /\ UNCHANGED <<state, list, inq, hello, loop, broken>>

SendHello(c) ==
    /\ Idle
    /\ state[c] \in {"Started", "HelloReceived"}
    /\ state' = [state EXCEPT ![c] = IF @ = "Started" THEN "HelloSent" ELSE "Connected"]
    /\ UNCHANGED <<p, list, inq, hello, loop, broken>>

-----------------------------------------------------------------------------
(* channel_closed(), called through notify_channel_closed().  at is rhp:   *)
(* the entry before the current one, or NULL for the start of the bucket.  *)

ClosedLoop(c, k) == [c |-> c, bucket |-> 0, at |-> NULL, then |-> k]

\* send_eof_and_close(): the end of the connection, an exception, or a local
\* decision; what was received is thrown away.
StartClose(c) ==
    /\ state' = [state EXCEPT ![c] = "Disconnected"]
    /\ inq' = [inq EXCEPT ![c] = << >>]
    /\ loop' = ClosedLoop(c, NULL)

ChannelClose(c) ==
    /\ Idle
    /\ state[c] # "Disconnected"
    /\ StartClose(c)
    /\ UNCHANGED <<p, list, hello, broken>>

Bucket == p.handlers[loop.bucket]
Upto(bucket, at) == IF at = NULL THEN 0 ELSE Pos(bucket, at)
AtIndex == Upto(Bucket, loop.at)

LoopNextBucket ==
    /\ ~Idle
    /\ AtIndex = Len(Bucket)
    /\ loop.bucket < HashSize - 1
    /\ loop' = [loop EXCEPT !.bucket = @ + 1, !.at = NULL]
    /\ UNCHANGED <<p, state, list, inq, hello, broken>>

\* The services of the peer are forgotten; redirect_done() goes on to the
\* handler of the redirect command.
LoopEnd ==
    /\ ~Idle
    /\ AtIndex = Len(Bucket)
    /\ loop.bucket = HashSize - 1
    /\ list' = [list EXCEPT ![loop.c] = FALSE]
    /\ p' = IF loop.then = NULL THEN p ELSE Called(p, loop.then, p.cmd[loop.then].got)
    /\ loop' = NULL
    /\ UNCHANGED <<state, inq, hello, broken>>

LoopSkip ==
    /\ ~Idle
    /\ AtIndex < Len(Bucket)
    /\ p.cmd[Bucket[AtIndex + 1]].c # loop.c
    /\ loop' = [loop EXCEPT !.at = Bucket[AtIndex + 1]]
    /\ UNCHANGED <<p, state, list, inq, hello, broken>>

\* What the handler of k does meanwhile: nothing, or it sends a command.  One
\* that closes a channel would start channel_closed() within channel_closed(),
\* which is left out.
Callback(q, k) ==
    LET to == {c \in Chans : (c = q.cmd[k].c \/ ReenterOther) /\ HasToken(q, c)}
    IN  {q} \cup {SendCommand(q, n, c, "client") : n \in New, c \in to}

Reported(k) == IF p.cmd[k].handler = "null" THEN p ELSE Called(p, k, "closed")

\* A channel that is redirected keeps the entry to intercept the reply.
MutKept(q, k) == q
Kept(q, k) == [q EXCEPT !.cmd[k].handler = "null"]

\* *rhp = rh->next
Unlinked(q, k) ==
    [q EXCEPT !.handlers[loop.bucket] =
        SubSeq(@, 1, Upto(@, loop.at)) \o SubSeq(@, Pos(@, k) + 1, Len(@))]

LoopCall ==
    /\ ~Idle
    /\ AtIndex < Len(Bucket)
    /\ LET k == Bucket[AtIndex + 1]
       IN  /\ p.cmd[k].c = loop.c
           /\ \E q \in IF p.cmd[k].handler = "null" THEN {p} ELSE Callback(Reported(k), k) :
                IF state[loop.c] # "Disconnected"
                THEN p' = Kept(q, k) /\ loop' = [loop EXCEPT !.at = k]
                ELSE p' = Unlinked(q, k) /\ UNCHANGED loop
    /\ UNCHANGED <<state, list, inq, hello, broken>>

-----------------------------------------------------------------------------
(* handle_protocol_message()                                               *)

Handling(c, type) ==
    /\ Idle
    /\ inq[c] # << >>
    /\ Head(inq[c]).type \in type

Consumed(c) == inq' = [inq EXCEPT ![c] = Tail(@)]

\* event_locator_hello()
HandleHello(c) ==
    /\ Handling(c, {"Hello"})
    /\ Consumed(c)
    /\ IF state[c] \in {"Started", "HelloSent"}
       THEN /\ list' = [list EXCEPT ![c] = TRUE]
            /\ state' = [state EXCEPT ![c] = IF @ = "Started" THEN "HelloReceived" ELSE "Connected"]
       ELSE UNCHANGED <<list, state>>
    /\ UNCHANGED <<p, hello, loop, broken>>

Entry(c) == Find(p, c, Head(inq[c]).tokenid)
Origin(c) == IF Head(inq[c]).of = Entry(c) THEN "own" ELSE "other"

\* A progress message leaves the entry in the table.
Takes(type) == type # "P"

\* A reply nobody waits for is a protocol error, and closes the channel.
HandleUnexpected(c) ==
    /\ broken' = broken \cup {c}
    /\ StartClose(c)
    /\ UNCHANGED <<p, list, hello>>

HandleProgress(c) ==
    /\ Handling(c, {"P"})
    /\ p' = IF Takes("P") THEN Taken(p, Entry(c)) ELSE p
    /\ Consumed(c)
    /\ UNCHANGED <<state, list, hello, loop, broken>>

Answered(c) == Handling(c, {"R"})

\* The handler reads the reply; if it throws the channel is closed.
HandleReply(c) ==
    /\ Answered(c)
    /\ p.cmd[Entry(c)].handler = "client"
    /\ p' = Called(Taken(p, Entry(c)), Entry(c), Origin(c))
    /\ \/ Consumed(c) /\ UNCHANGED <<state, loop>>
       \/ StartClose(c)
    /\ UNCHANGED <<list, hello, broken>>

\* The reply to a command that was given up when the channel was redirected.
HandleLateReply(c) ==
    /\ Answered(c)
    /\ p.cmd[Entry(c)].handler = "null"
    /\ p' = Taken(p, Entry(c))
    /\ Consumed(c)
    /\ UNCHANGED <<state, list, hello, loop, broken>>

\* redirect_done() that cannot read the reply, which ends within the message:
\* the exception passes it, and takes the handler of the caller with it.
Lost(q, k) == [q EXCEPT !.cmd[k].st = "lost"]

\* redirect_done(): a new peer answers from now on; all other commands fail.
HandleRedirected(c) ==
    /\ Answered(c)
    /\ p.cmd[Entry(c)].handler = "redirect"
    /\ broken' = IF state[c] = "RedirectSent" THEN broken ELSE broken \cup {c}
    /\ \/ /\ Consumed(c)
          /\ ~Head(inq[c]).error
          /\ state' = [state EXCEPT ![c] = "HelloSent"]
          /\ p' = [Taken(p, Entry(c)) EXCEPT !.cmd[Entry(c)].got = Origin(c)]
          /\ loop' = ClosedLoop(c, Entry(c))
       \/ /\ Consumed(c)
          /\ Head(inq[c]).error
          /\ state' = [state EXCEPT ![c] = "Connected"]
          /\ p' = Called(Taken(p, Entry(c)), Entry(c), Origin(c))
          /\ UNCHANGED loop
       \/ /\ StartClose(c)
          /\ p' = Lost(Taken(p, Entry(c)), Entry(c))
    /\ UNCHANGED <<list, hello>>

HandleToken(c) ==
    /\ Handling(c, {"R", "P"})
    /\ IF Entry(c) = NULL THEN HandleUnexpected(c)
       ELSE HandleProgress(c) \/ HandleReply(c) \/ HandleLateReply(c) \/ HandleRedirected(c)

-----------------------------------------------------------------------------
(* The peers, which are outside of this program.  channel_closed() sees     *)
(* nothing of what they do, so they act before and after its loop only.    *)

PeerSends(c, m) == inq' = [inq EXCEPT ![c] = Append(@, m)]

PeerHello(c) ==
    /\ Idle
    /\ hello[c]
    /\ state[c] # "Disconnected"
    /\ hello' = [hello EXCEPT ![c] = FALSE]
    /\ PeerSends(c, [type |-> "Hello", tokenid |-> 0, error |-> FALSE, of |-> NULL])
    /\ UNCHANGED <<p, state, list, loop, broken>>

\* At most one progress message for each command.
PeerProgress(k) ==
    LET c == p.cmd[k].c
    IN  /\ Idle
        /\ k \in p.unanswered \ p.progressed
        /\ state[c] # "Disconnected"
        /\ p' = [p EXCEPT !.progressed = @ \cup {k}]
        /\ PeerSends(c, [type |-> "P", tokenid |-> p.cmd[k].tokenid, error |-> FALSE, of |-> k])
        /\ UNCHANGED <<state, list, hello, loop, broken>>

\* A peer that accepts a redirection says Hello afterwards.
PeerReply(k) ==
    LET c == p.cmd[k].c
    IN  /\ Idle
        /\ k \in p.unanswered
        /\ state[c] # "Disconnected"
        /\ p' = [p EXCEPT !.unanswered = @ \ {k}]
        /\ \E error \in BOOLEAN :
             /\ error => p.cmd[k].handler = "redirect"
             /\ PeerSends(c, [type |-> "R", tokenid |-> p.cmd[k].tokenid, error |-> error, of |-> k])
             /\ hello' = [hello EXCEPT ![c] = @ \/ (p.cmd[k].handler = "redirect" /\ ~error)]
        /\ UNCHANGED <<state, list, loop, broken>>

-----------------------------------------------------------------------------
Init ==
    /\ p = [tokenid |-> 1 % TokenMod,
            handlers |-> [b \in Buckets |-> << >>],
            cmd |-> [k \in Cmds |-> [st |-> "new", c |-> NULL, tokenid |-> 0, handler |-> "null",
                                     calls |-> 0, got |-> "none"]],
            unanswered |-> {}, progressed |-> {}]
    /\ state = [c \in Chans |-> "Started"]
    /\ list = [c \in Chans |-> FALSE]
    /\ inq = [c \in Chans |-> << >>]
    /\ hello = [c \in Chans |-> TRUE]
    /\ loop = NULL
    /\ broken = {}

Loop == LoopNextBucket \/ LoopEnd \/ LoopSkip \/ LoopCall

Next ==
    \/ \E k \in Cmds, c \in Chans : Send(k, c) \/ SendRedirect(k, c)
    \/ \E k \in Cmds : SendCommandFailed(k) \/ PeerProgress(k) \/ PeerReply(k)
    \/ \E c \in Chans : SendHello(c) \/ ChannelClose(c) \/ HandleHello(c) \/ HandleToken(c) \/ PeerHello(c)
    \/ Loop

Spec == Init /\ [][Next]_vars

-----------------------------------------------------------------------------
(* Correctness.                                                            *)

TypeOK ==
    /\ p \in ProtocolRec
    /\ state \in [Chans -> States]
    /\ list \in [Chans -> BOOLEAN]
    /\ inq \in [Chans -> Seq(Message)]
    /\ hello \in [Chans -> BOOLEAN]

\* How often k is in the table.
Entries(k) ==
    Cardinality(UNION {{b} \X {i \in 1..Len(p.handlers[b]) : p.handlers[b][i] = k} : b \in Buckets})
Waiting(k) == p.cmd[k].st = "sent" /\ ~(loop # NULL /\ loop.then = k)

\* "The handler will be called when the reply message is received": a command
\* that was sent is in the table, once, until its handler is called, and the
\* handler is called once, however replies, redirection and the end of the
\* connection are ordered; but for RedirectTold.  An entry whose handler was
\* called stays only to intercept the reply, and no entry outlives its channel.
CommandAccounted ==
    /\ TypeOK
    /\ \A k \in Cmds :
         /\ p.cmd[k].calls <= 1
         /\ Waiting(k) => Entries(k) = 1 /\ p.cmd[k].handler # "null"
         /\ Entries(k) = 1 /\ ~Waiting(k) => p.cmd[k].handler = "null" /\ p.cmd[k].calls = 1
         /\ Entries(k) = 1 /\ Idle => state[p.cmd[k].c] # "Disconnected"

\* "The handler will be called" (protocol.h:102): redirect_done() calls the
\* handler of whoever asked for the redirection, whatever becomes of the reply.
\* It does not hold: see MCProtocolRedirect.cfg.
RedirectTold == \A k \in Cmds : p.cmd[k].st # "lost"

\* A reply reaches the handler of the command it answers, also after tokens
\* wrapped and while entries of a redirected channel wait for late replies.
RightReply == \A k \in Cmds : p.cmd[k].got # "other"

\* A peer that follows the protocol is never cut off for an unexpected reply,
\* and redirect_done() finds the channel in the state it asserts.
NoProtocolError == broken = {}

\* Replies find their command, and only broken peers are cut off.
RepliesSound == RightReply /\ NoProtocolError
=============================================================================

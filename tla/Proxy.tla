------------------------------- MODULE Proxy -------------------------------
(***************************************************************************)
(* A server between a client and a target: the redirect command of the     *)
(* Locator service (services/discovery.c), the pair of channels that relay *)
(* messages to each other (framework/proxy.c) and the part of              *)
(* framework/protocol.c and framework/channel_tcp.c that they run in.      *)
(*                                                                         *)
(* "H" is the channel to the client, "T" the one to the target.  The       *)
(* server is sequential: s is its state, and every event is a function of  *)
(* s.  Client and target follow the protocol, and are outside of the       *)
(* server.  A token is [id, depth], where depth counts the 'R' prefixes.   *)
(* A session is what follows one Hello; gen numbers the sessions.          *)
(***************************************************************************)
EXTENDS Integers, SequencesExt, FiniteSetsExt

CONSTANTS
    Cmds,    \* commands of the client; also the numbers of its tokens
    MaxGen,  \* bound: sessions with targets
    MaxEv    \* bound: events of targets and of the server, each

ASSUME ConstantAssumption ==
    /\ Cmds \subseteq Nat
    /\ MaxGen \in Nat
    /\ MaxEv \in Nat

VARIABLES
    s,       \* the server, see Server
    client,  \* [state, gen, sent, done]
    target,  \* [state, gen, pending]: sessions with targets, one after the other
    ev,      \* events sent so far
    cq, hq,  \* messages from the client to H, and from H to the client
    tq, rq   \* messages from T to the target, and from the target to T

vars == <<s, client, target, ev, cq, hq, tq, rq>>

Chans == {"H", "T"}
Other(c) == IF c = "H" THEN "T" ELSE "H"

States == {"StartWait", "HelloSent", "HelloReceived", "Connected", "RedirectSent",
           "RedirectReceived", "Disconnected"}

Types == {"C", "R", "N", "E", "Hello", "EOS", "redirect", "redirected", "redirectFailed"}
Message == [type : Types, id : Nat, depth : Nat, gen : Nat]
Msg(type, id, depth, gen) == [type |-> type, id |-> id, depth |-> depth, gen |-> gen]

\* redirect: what the Locator.redirect command of the client waits for, and
\* its token; bcg: the channels of the proxy's broadcast group; lock: locks of
\* each channel, the reader's included; tokenid: of T's protocol object;
\* read: the last read of the channel is done;
\* assert: FALSE if an assertion failed; out: messages written in this event.
Server == [state : [Chans -> States \cup {"none"}], lock : [Chans -> Nat],
           proxy : {"none", "made", "freed"}, bcg : SUBSET Chans,
           redirect : {"no", "connect", "sent"}, tokenid : Nat, rtoken : Nat,
           read : SUBSET Chans, assert : BOOLEAN, out : [Chans -> Seq(Message)]]

-----------------------------------------------------------------------------
(* Functions of the server.                                                *)

Put(r, c, m) == [r EXCEPT !.out[c] = Append(@, m)]
Asserted(r, cond) == [r EXCEPT !.assert = @ /\ cond]
Lock(r, c) == [r EXCEPT !.lock[c] = @ + 1]
Unlock(r, c) == [r EXCEPT !.lock[c] = @ - 1]

IsClosed(r, c) == r.state[c] = "Disconnected"

\* proxy_update(): the host has to wait for the Hello of the new target.
ProxyUpdate(r) ==
    [Asserted(r, r.state["H"] = "Connected" /\ r.state["T"] = "HelloSent")
        EXCEPT !.state["H"] = "HelloReceived"]

\* command_redirect_done(): called by redirect_done() in any state of the host.
CommandRedirectDone(r, error) ==
    LET r1 == IF error THEN r ELSE ProxyUpdate(r)
        r2 == IF IsClosed(r, "H") THEN r
              ELSE Put(r1, "H", Msg(IF error THEN "redirectFailed" ELSE "redirected", 0, 0, 0))
    IN  Unlock([r2 EXCEPT !.redirect = "no"], "H")

\* redirect_done() for a reply of the target.
RedirectDone(r, error) ==
    LET r1 == Asserted(r, r.state["T"] = "RedirectSent")
    IN  CommandRedirectDone([r1 EXCEPT !.state["T"] = IF error THEN "Connected" ELSE "HelloSent"], error)

\* notify_channel_closed(): the reply handler of the redirect command is told.
MutNotifyClosed(r, c) == r
NotifyClosed(r, c) ==
    IF c = "T" /\ r.redirect = "sent" THEN CommandRedirectDone(r, TRUE) ELSE r

\* The first part of send_eof_and_close(): the closing message, the state and
\* the listeners.
CloseOne(r, c) == NotifyClosed([Put(r, c, Msg("EOS", 0, 0, 0)) EXCEPT !.state[c] = "Disconnected"], c)

\* proxy_disconnected() of the channel that closes last.
ProxyFree(r) ==
    [Unlock(Unlock(r, "H"), "T") EXCEPT !.proxy = "freed", !.bcg = {}]

\* send_eof_and_close() with proxy_disconnected(): the other channel is closed
\* before the first one is done.
Closed(r, c) ==
    LET r1 == CloseOne(r, c)
    IN  IF r.proxy # "made" THEN r1
        ELSE IF IsClosed(r1, Other(c)) THEN ProxyFree(r1)
        ELSE ProxyFree(CloseOne(r1, Other(c)))

\* proxy_create() with proxy_connecting(): the target gets a Hello.
ProxyCreate(r) ==
    LET r1 == Asserted(r, r.state["H"] = "RedirectReceived" /\ r.state["T"] = "StartWait")
        r2 == Lock(Lock(r1, "H"), "T")
    IN  Put([r2 EXCEPT !.proxy = "made", !.bcg = Chans,
                       !.state = [@ EXCEPT !["H"] = "HelloReceived", !["T"] = "HelloSent"]],
            "T", Msg("Hello", 0, 0, 0))

\* proxy_connected(): the Hello of the target makes the host say Hello.
MutProxyConnected(r, gen) == [r EXCEPT !.state["H"] = "Connected"]
ProxyConnected(r, gen) ==
    LET r1 == Asserted(r, r.state["H"] = "HelloReceived")
    IN  Put([r1 EXCEPT !.state["H"] = "Connected"], "H", Msg("Hello", 0, 0, gen))

\* proxy_default_message_handler(): commands get one more prefix, replies lose
\* theirs; a reply without one is a protocol error.
MutRelayed(m) == m
Relayed(m) == IF m.type = "C" THEN [m EXCEPT !.depth = @ + 1]
              ELSE IF m.type \in {"R", "N"} THEN [m EXCEPT !.depth = @ - 1]
              ELSE m
Relay(r, c, m) ==
    IF IsClosed(r, Other(c)) THEN r
    ELSE IF m.type \in {"R", "N"} /\ m.depth = 0 THEN Closed(r, c)
    ELSE Put(r, Other(c), Relayed(m))

\* command_locator_redirect()
LocatorRedirect(r) ==
    LET r1 == Asserted(Lock(r, "H"), r.state["T"] = "Connected")
    IN  Put([r1 EXCEPT !.redirect = "sent", !.rtoken = r.tokenid, !.tokenid = @ + 1,
                       !.state["T"] = "RedirectSent"],
            "T", Msg("redirect", r.tokenid, 0, 0))

\* handle_protocol_message() on the host channel.
HostMessage(r, m) ==
    CASE m.type = "EOS" -> Closed(r, "H")
      [] m.type \in {"C", "redirect"} /\ r.state["H"] # "Connected" ->
           Put(r, "H", IF m.type = "C" THEN [m EXCEPT !.type = "N"] ELSE Msg("redirectFailed", 0, 0, 0))
      [] m.type = "C" /\ r.state["H"] = "Connected" /\ r.proxy = "none" -> Put(r, "H", [m EXCEPT !.type = "R"])
      [] m.type = "redirect" /\ r.state["H"] = "Connected" /\ r.proxy = "made" -> LocatorRedirect(r)
      [] OTHER -> Relay(r, "H", m)

\* handle_protocol_message() on the target channel.  A reply is given to the
\* reply handler with its token, if there is one.
TargetMessage(r, m) ==
    CASE m.type = "EOS" -> Closed(r, "T")
      [] m.type = "Hello" /\ r.state["T"] = "HelloSent" ->
           ProxyConnected([r EXCEPT !.state["T"] = "Connected"], m.gen)
      [] m.type \in {"R", "N", "redirected", "redirectFailed"} /\ r.redirect = "sent"
             /\ m.depth = 0 /\ m.id = r.rtoken -> RedirectDone(r, m.type = "redirectFailed")
      [] OTHER -> Relay(r, "T", m)

-----------------------------------------------------------------------------
(* Events of the server.  What is written goes to the queues, unless it was *)
(* written to a channel that the other side has closed.                    *)

Empty == [c \in Chans |-> << >>]

\* r is the server after the event, ci and ti what is left to be read.  A
\* closed channel throws away what it received.
Becomes(r, ci, ti) ==
    /\ s' = [r EXCEPT !.out = Empty]
    /\ hq' = hq \o r.out["H"]
    /\ tq' = tq \o r.out["T"]
    /\ cq' = IF IsClosed(r, "H") THEN << >> ELSE ci
    /\ rq' = IF IsClosed(r, "T") THEN << >> ELSE ti

HandleHost ==
    /\ cq # << >>
    /\ s.state["H"] # "Disconnected"
    /\ ~(Head(cq).type = "redirect" /\ s.state["H"] = "Connected" /\ s.proxy = "none")
    /\ Becomes(HostMessage(s, Head(cq)), Tail(cq), rq)
    /\ UNCHANGED <<client, target, ev>>

\* command_redirect(): the peer is unknown, or a connection is tried.
HandleRedirect ==
    /\ cq # << >>
    /\ Head(cq).type = "redirect"
    /\ s.state["H"] = "Connected"
    /\ s.proxy = "none"
    /\ \/ Becomes(Put(s, "H", Msg("redirectFailed", 0, 0, 0)), Tail(cq), rq)
       \/ Becomes([Lock(s, "H") EXCEPT !.state["H"] = "RedirectReceived", !.redirect = "connect"],
                  Tail(cq), rq)
    /\ UNCHANGED <<client, target, ev>>

HandleTarget ==
    /\ rq # << >>
    /\ s.state["T"] # "Disconnected"
    /\ Becomes(TargetMessage(s, Head(rq)), cq, Tail(rq))
    /\ UNCHANGED <<client, target, ev>>

\* connect_done() of the Locator service.  The new channel has a reader.
ConnectDone(error) ==
    LET r == Unlock([s EXCEPT !.redirect = "no"], "H")
        n == [r EXCEPT !.state["T"] = "StartWait", !.lock["T"] = 1]
    IN  /\ s.redirect = "connect"
        /\ Becomes(IF ~IsClosed(s, "H")
                   THEN LET r1 == Asserted(r, r.state["H"] = "RedirectReceived")
                        IN  IF error
                            THEN Put([r1 EXCEPT !.state["H"] = "Connected"], "H", Msg("redirectFailed", 0, 0, 0))
                            ELSE Put(ProxyCreate([r1 EXCEPT !.state["T"] = "StartWait", !.lock["T"] = 1]),
                                     "H", Msg("redirected", 0, 0, 0))
                   ELSE IF error THEN r ELSE Closed(n, "T"), cq, rq)
        /\ target' = IF error THEN target ELSE [target EXCEPT !.state = "Started", !.gen = 1]
        /\ UNCHANGED <<client, ev>>

\* The server closes a channel: an exception, or a broken connection.
CloseChannel(c) ==
    /\ s.state[c] \notin {"none", "Disconnected"}
    /\ Becomes(Closed(s, c), cq, rq)
    /\ UNCHANGED <<client, target, ev>>

\* The last read of a closed channel completes, and gives up the reader's lock.
ReaderDone(c) ==
    /\ s.state[c] = "Disconnected"
    /\ c \notin s.read
    /\ s' = [Unlock(s, c) EXCEPT !.read = @ \cup {c}]
    /\ UNCHANGED <<client, target, ev, cq, hq, tq, rq>>

\* An event of the server's own services, to its broadcast group: the host is
\* in it until the proxy is made.  write_all() leaves out channels that are
\* not connected.
BroadcastOk(c) == s.state[c] \in {"Connected", "RedirectSent", "RedirectReceived"}
Broadcast ==
    /\ ev.server < MaxEv
    /\ s.proxy = "none"
    /\ BroadcastOk("H")
    /\ ev' = [ev EXCEPT !.server = @ + 1]
    /\ Becomes(Put(s, "H", Msg("E", 0, 0, 0)), cq, rq)
    /\ UNCHANGED <<client, target>>

-----------------------------------------------------------------------------
(* The client and the targets.  A channel that the server closed reads and  *)
(* drops what they send.                                                   *)

ToServer(c, q, m) == IF s.state[c] = "Disconnected" THEN q ELSE Append(q, m)

ClientSend(k) ==
    /\ client.state \in {"Connected", "RedirectSent"}
    /\ k \in Cmds \ client.sent
    /\ client' = [client EXCEPT !.sent = @ \cup {k}]
    /\ cq' = ToServer("H", cq, Msg("C", k, 0, 0))
    /\ UNCHANGED <<s, target, ev, hq, tq, rq>>

ClientRedirect ==
    /\ client.state = "Connected"
    /\ client.redirects < MaxGen
    /\ client' = [client EXCEPT !.state = "RedirectSent", !.redirects = @ + 1]
    /\ cq' = ToServer("H", cq, Msg("redirect", 0, 0, 0))
    /\ UNCHANGED <<s, target, ev, hq, tq, rq>>

ClientReceive ==
    LET m == Head(hq)
    IN  /\ hq # << >>
        /\ client.state # "closed"
        /\ client' = CASE m.type \in {"R", "N"} -> [client EXCEPT !.done = Append(@, m.id)]
                       [] m.type = "redirected" -> [client EXCEPT !.state = "HelloSent"]
                       [] m.type = "redirectFailed" -> [client EXCEPT !.state = "Connected"]
                       [] m.type = "Hello" -> [client EXCEPT !.state = "Connected", !.gen = m.gen]
                       [] m.type = "EOS" -> [client EXCEPT !.state = "closed"]
                       [] OTHER -> client
        /\ hq' = Tail(hq)
        /\ UNCHANGED <<s, target, ev, cq, tq, rq>>

ClientClose ==
    /\ client.state # "closed"
    /\ client' = [client EXCEPT !.state = "closed"]
    /\ cq' = ToServer("H", cq, Msg("EOS", 0, 0, 0))
    /\ UNCHANGED <<s, target, ev, hq, tq, rq>>

\* A target says Hello when the connection is made, or when a redirection that
\* it accepted has found the next target.
TargetHello ==
    /\ target.state \in {"Started", "HelloReceived"}
    /\ target' = [target EXCEPT !.state = IF @ = "Started" THEN "HelloSent" ELSE "Connected"]
    /\ rq' = ToServer("T", rq, Msg("Hello", 0, 0, target.gen))
    /\ UNCHANGED <<s, client, ev, cq, hq, tq>>

TargetReceive ==
    LET m == Head(tq)
        Reply(type) == rq' = ToServer("T", rq, [m EXCEPT !.type = type])
    IN  /\ tq # << >>
        /\ target.state # "closed"
        /\ tq' = Tail(tq)
        /\ \/ /\ m.type = "Hello"
              /\ target' = [target EXCEPT !.state = IF @ = "Started" THEN "HelloReceived" ELSE "Connected"]
              /\ UNCHANGED rq
           \/ /\ m.type = "EOS"
              /\ target' = [target EXCEPT !.state = "closed"]
              /\ UNCHANGED rq
           \/ /\ m.type = "C"
              /\ IF target.state = "Connected"
                 THEN target' = [target EXCEPT !.pending = @ \cup {m}] /\ UNCHANGED rq
                 ELSE Reply("N") /\ UNCHANGED target
           \/ m.type = "redirect" /\ Reply("redirectFailed") /\ UNCHANGED target
           \/ /\ m.type = "redirect"
              /\ target.state = "Connected"
              /\ target.gen < MaxGen
              /\ target' = [target EXCEPT !.state = "HelloReceived", !.gen = @ + 1]
              /\ Reply("redirected")
        /\ UNCHANGED <<s, client, ev, cq, hq>>

TargetReply(m) ==
    /\ m \in target.pending
    /\ target.state # "closed"
    /\ target' = [target EXCEPT !.pending = @ \ {m}]
    /\ rq' = ToServer("T", rq, [m EXCEPT !.type = "R"])
    /\ UNCHANGED <<s, client, ev, cq, hq, tq>>

TargetEvent ==
    /\ target.state = "Connected"
    /\ ev.target < MaxEv
    /\ ev' = [ev EXCEPT !.target = @ + 1]
    /\ rq' = ToServer("T", rq, Msg("E", 0, 0, target.gen))
    /\ UNCHANGED <<s, client, target, cq, hq, tq>>

TargetClose ==
    /\ target.state \notin {"none", "closed"}
    /\ target' = [target EXCEPT !.state = "closed"]
    /\ rq' = ToServer("T", rq, Msg("EOS", 0, 0, 0))
    /\ UNCHANGED <<s, client, ev, cq, hq, tq>>

-----------------------------------------------------------------------------
\* The client is connected to the server itself.
Init ==
    /\ s = [state |-> [c \in Chans |-> IF c = "H" THEN "Connected" ELSE "none"],
            lock |-> [c \in Chans |-> IF c = "H" THEN 1 ELSE 0],
            proxy |-> "none", bcg |-> {}, redirect |-> "no", tokenid |-> 1, rtoken |-> 0,
            read |-> {}, assert |-> TRUE, out |-> Empty]
    /\ client = [state |-> "Connected", gen |-> 0, sent |-> {}, done |-> << >>, redirects |-> 0]
    /\ target = [state |-> "none", gen |-> 0, pending |-> {}]
    /\ ev = [server |-> 0, target |-> 0]
    /\ cq = << >> /\ hq = << >> /\ tq = << >> /\ rq = << >>

ServerNext ==
    \/ HandleHost
    \/ HandleRedirect
    \/ HandleTarget
    \/ \E error \in BOOLEAN : ConnectDone(error)
    \/ \E c \in Chans : CloseChannel(c) \/ ReaderDone(c)
    \/ Broadcast

PeersNext ==
    \/ \E k \in Cmds : ClientSend(k)
    \/ ClientRedirect \/ ClientReceive \/ ClientClose
    \/ TargetHello \/ TargetReceive \/ TargetEvent \/ TargetClose
    \/ \E m \in target.pending : TargetReply(m)

Next == ServerNext \/ PeersNext

Spec == Init /\ [][Next]_vars

\* Events are dispatched, messages arrive, and a connection that is tried is
\* made or fails.  Targets answer redirections and say Hello.
FairSpec ==
    /\ Spec
    /\ WF_vars(HandleHost \/ HandleRedirect)
    /\ WF_vars(HandleTarget)
    /\ WF_vars(\E error \in BOOLEAN : ConnectDone(error))
    /\ WF_vars(ClientReceive)
    /\ WF_vars(TargetReceive)
    /\ WF_vars(TargetHello)
    /\ \A c \in Chans : WF_vars(ReaderDone(c))

-----------------------------------------------------------------------------
(* Correctness.                                                            *)

TypeOK ==
    /\ s \in Server
    /\ client \in [state : {"Connected", "RedirectSent", "HelloSent", "closed"}, gen : Nat,
                   sent : SUBSET Cmds, done : Seq(Nat), redirects : Nat]
    /\ target \in [state : {"none", "Started", "HelloSent", "HelloReceived", "Connected", "closed"},
                   gen : Nat, pending : SUBSET Message]
    /\ ev \in [server : Nat, target : Nat]
    /\ \A q \in {cq, hq, tq, rq} : q \in Seq(Message)

Count(q, types, k) == Cardinality({i \in 1..Len(q) : q[i].type \in types /\ q[i].id = k})

\* A command of the client is in one place: on its way to the target, at the
\* target, on its way back, or answered.  While no channel is closed none is
\* lost, none is answered twice, and none is taken for the reply to a command
\* of the server itself, whatever redirections happen meanwhile.
Places(k) ==
    Count(cq, {"C"}, k) + Count(tq, {"C"}, k) + Count(rq, {"R", "N"}, k) + Count(hq, {"R", "N"}, k)
      + Cardinality({m \in target.pending : m.id = k})
      + Cardinality({i \in 1..Len(client.done) : client.done[i] = k})
AnsweredOnce ==
    \A k \in client.sent :
        /\ Places(k) <= 1
        /\ "Disconnected" \notin {s.state[c] : c \in Chans} /\ "closed" \notin {client.state, target.state}
               => Places(k) = 1

\* Every event the client reads belongs to the session it is in: it follows
\* the Hello of the target that sent it, and no event comes between the end
\* of a session and the next Hello.  (An event of gen 0 is the server's own.)
Marks(i) == {j \in 1..i - 1 : hq[j].type \in {"Hello", "redirected"}}
SessionAt(i) ==
    IF Marks(i) # {} THEN hq[Max(Marks(i))]
    ELSE Msg(IF client.state = "HelloSent" THEN "redirected" ELSE "Hello", 0, 0, client.gen)
EventsInSession ==
    client.state # "closed" =>
        \A i \in 1..Len(hq) : hq[i].type = "E" =>
            SessionAt(i).type = "Hello" /\ SessionAt(i).gen = hq[i].gen

\* The assertions of proxy.c, protocol.c and discovery.c on the states of the
\* two channels hold for clients and targets that follow the protocol; a
\* client that is connected to a target is connected to the last one.
ProxyStates ==
    /\ TypeOK
    /\ s.assert
    /\ s.proxy = "made" /\ s.state["H"] = "Connected" => s.state["T"] \in {"Connected", "RedirectSent"}
    /\ s.proxy = "made" => \A c \in Chans : s.state[c] # "Disconnected"

\* The locks of each channel: its reader, the proxy, and on the host one for a
\* redirection that is under way.  The proxy is freed by the channel that
\* closes last, once, and with it its broadcast group, so that a channel is
\* deleted when its reader is done and not before; a redirection of the target
\* does not outlive the proxy whose host it answers.
LocksBalance ==
    /\ \A c \in Chans : s.state[c] # "none" =>
         s.lock[c] = (IF c \in s.read THEN 0 ELSE 1) + (IF s.proxy = "made" THEN 1 ELSE 0)
                       + (IF c = "H" /\ s.redirect # "no" THEN 1 ELSE 0)
    /\ s.bcg = IF s.proxy = "made" THEN Chans ELSE {}
    /\ s.redirect = "sent" => s.proxy = "made"

\* The two channels of a proxy and the proxy agree on their state and lifetime.
PairSound == ProxyStates /\ LocksBalance

\* A redirection that a client asked for ends: it is answered, and a new
\* session starts, or the client sees the connection closed.
RedirectEnds == client.state \in {"RedirectSent", "HelloSent"} ~> client.state \in {"Connected", "closed"}
=============================================================================

----------------------------- MODULE Discovery ------------------------------
(***************************************************************************)
(* Agents that find each other by UDP broadcasts                           *)
(* (services/discovery_udp.c) and the table of known peers                 *)
(* (framework/peer.c).                                                     *)
(*                                                                         *)
(* The agent of a host that could bind the well known port is its master,  *)
(* the others are slaves on ports of their own.  A broadcast reaches the   *)
(* masters; slaves are reached at the addresses in slave_info.             *)
(*                                                                         *)
(* Time is counted in periods of PEER_DATA_REFRESH_PERIOD.  In each period *)
(* the two timers of every agent fire once, in any order.  What begins in  *)
(* period k and is old after n periods is old when the timer that looks    *)
(* for it fires in period k + n, or, if that is earlier in its period than *)
(* the beginning was, only in period k + n + 1: either may happen.  A      *)
(* packet takes less than a period: packets arrive in the order they were  *)
(* sent and before the next timer fires, unless a fault of the network     *)
(* (lost, delayed or duplicated packets) says otherwise.                   *)
(*                                                                         *)
(* All hosts are on one subnet.  The loopback and the network address of a *)
(* slave are one entry of slave_info, and so are the copies of a packet    *)
(* that both of them get.  An address at which nobody listens any more is  *)
(* left out of the tables: what is sent to it has no effect.  Every agent  *)
(* has one local TCP peer, which refresh_all_peer_servers() keeps alive.   *)
(***************************************************************************)
EXTENDS Integers, Sequences, FiniteSets, SequencesExt

CONSTANTS
    Agents,      \* numbers
    Host,        \* the host of each agent
    Retention,   \* PEER_DATA_RETENTION_PERIOD, in refresh periods
    Scenarios,   \* bound: the agents there are, and how many crashes, stops,
                 \* lost and delayed packets
    MaxCalm      \* bound: periods without a fault that are counted

ASSUME ConstantAssumption ==
    /\ Agents \subseteq Nat
    /\ Retention \in Nat \ {0}
    /\ Scenarios \subseteq [agents : SUBSET Agents, faults : Nat]
    /\ MaxCalm \in Nat

VARIABLES
    ag,      \* the agents
    net,     \* packets on their way, in the order of their arrival
    late,    \* delayed packets
    due,     \* agents whose timers are due
    faults,  \* faults that may still come
    calm     \* periods since the last fault or start

vars == <<ag, net, late, due, faults, calm>>

\* A time is stored as what is left of it.  peers: expiration_time, 1 if it
\* has passed, 2 if it may have, 0 if the peer is not listed.  slaves:
\* last_packet_time, 1 if it is older than the retention period, 2 if it may
\* be, 0 if there is no entry.  asked: last_req_slaves_time of a slave, 0 if it
\* is too old.  master: periods until a slave that hears no master tries to
\* become one, 1 if it may do so already.  reqd: periods since the last
\* UDP_REQ_SLAVES on an interface.  told is history: the agents that this one
\* was told of since they started.
MutFresh   == Retention
Fresh      == Retention + 2
FreshAsked == Retention + 1
Half       == Retention \div 2 + 1
Old        == Retention
Interface  == {"lo", "eth"}
None       == [a \in Agents |-> 0]
\* An agent that is absent never starts.
Off == [st |-> "off", peers |-> None, told |-> {}, slaves |-> None, asked |-> None,
        master |-> 0, reqd |-> [i \in Interface |-> Old]]

World == [ag |-> ag, net |-> net]

Up(w, a) == w.ag[a].st \in {"master", "slave"}
Listed(w, a) == {p \in Agents : w.ag[a].peers[p] > 0}
SlavesOf(w, a) == {b \in Agents : w.ag[a].slaves[b] > 0}
Near(a, b) == Host[a] = Host[b]
Masters(w) == {b \in Agents : w.ag[b].st = "master"}
Ascending(S) == SetToSortSeq(S, <)
Bigger(x, y) == IF x > y THEN x ELSE y

-----------------------------------------------------------------------------
(* Packets.                                                                *)

Packet(w, type, a, b, ps, ss) ==
    [type |-> type, from |-> a, port |-> w.ag[a].st, live |-> TRUE, to |-> b,
     peers |-> ps, news |-> ps \cap (w.ag[a].told \cup {a}), slaves |-> ss]

\* send_packet() with an address; nothing is sent to oneself.
SendPacket(w, p) ==
    IF p.to = p.from \/ ~Up(w, p.to) THEN w ELSE [w EXCEPT !.net = Append(@, p)]

\* v is w after an answer to packet p.
Answer(w, p, v) == IF p.live THEN v ELSE [v EXCEPT !.net = w.net]

\* send_packet() without an address: to all slaves and to all masters.
Receivers(w, a) == (SlavesOf(w, a) \cup Masters(w)) \ {a}

\* udp_send_peer_info(): does a tell b about p?  Its own peer always; others
\* only as master, those of its host to everybody, the rest on its host.
MutTells(w, a, b, p) == p = a \/ w.ag[a].st = "master"
Tells(w, a, b, p) ==
    \/ p = a
    \/ w.ag[a].st = "master" /\ (Near(a, p) \/ Near(a, b))
Announced(w, a, b) == {p \in (Listed(w, a) \cup {a}) \ {b} : Tells(w, a, b, p)}

\* udp_send_ack_slaves_all(): the slaves with time left to live.
SlaveList(w, a, b) ==
    {<<x, w.ag[a].slaves[x]>> : x \in {y \in SlavesOf(w, a) \ {b} : w.ag[a].slaves[y] > 2}}

\* udp_send_all() to b: the packets of one call are one entry of net, also
\* the empty one that is sent if there is nothing to say.
SendAll(w, a, b, ask) ==
    SendPacket(w, Packet(w, "info", a, b, Announced(w, a, b),
                         IF ask THEN SlaveList(w, a, b) ELSE {}))

SendEach(w, S, Send(_, _)) == FoldLeft(Send, w, Ascending(S))
Broadcast(w, a) == SendEach(w, Receivers(w, a), LAMBDA v, b : SendAll(v, a, b, FALSE))

\* udp_send_ack_slaves_one(): to the slaves that asked.
SendAckSlavesOne(w, a, x) ==
    IF w.ag[a].slaves[x] <= 2 THEN w
    ELSE SendEach(w, {b \in SlavesOf(w, a) : w.ag[a].asked[b] > 0},
                  LAMBDA v, b : SendPacket(v, Packet(v, "info", a, b, {},
                                                     {<<x, v.ag[a].slaves[x]>>})))

\* udp_send_peer_removed()
SendPeerRemoved(w, a) ==
    SendEach(w, Receivers(w, a),
             LAMBDA v, b : SendPacket(v, Packet(v, "removed", a, b, {a}, {})))

-----------------------------------------------------------------------------
(* The tables.                                                             *)

\* add_slave(): a new slave is greeted and made known.
AddSlave(w, a, x, time) ==
    IF w.ag[a].slaves[x] > 0
    THEN [w EXCEPT !.ag[a].slaves[x] = Bigger(@, time)]
    ELSE LET v == [w EXCEPT !.ag[a].slaves[x] = time, !.ag[a].asked[x] = 0]
             u == SendPacket(v, Packet(v, "reqinfo", a, x, {}, {}))
         IN  SendAckSlavesOne(SendAll(u, a, x, FALSE), a, x)

\* peer_server_add() for a discovered peer and its listener
\* local_peer_changed(): a new peer is announced at once.
AddPeer(w, a, p) ==
    LET v == [w EXCEPT !.ag[a].peers[p] = Fresh] IN
    IF p = a THEN w
    ELSE IF p \in Listed(w, a) THEN v
    ELSE SendEach(v, {b \in Receivers(v, a) : Tells(v, a, b, p)},
                  LAMBDA u, b : SendPacket(u, Packet(u, "info", a, b, {p}, {})))

\* The end of udp_server_recv(): the sender is asked for slaves now and then,
\* and a packet of the master of this host is remembered.
Patience(p) ==
    IF p.port # "master" THEN 2 * Retention
    ELSE IF Near(p.from, p.to) THEN Retention ELSE (3 * Retention) \div 2
AskSlaves(w, p, i) ==
    IF 3 * w.ag[p.to].reqd[i] < Patience(p) THEN w
    ELSE Answer(w, p, SendPacket([w EXCEPT !.ag[p.to].reqd[i] = 0],
                                 Packet(w, "reqslaves", p.to, p.from, {}, {})))
Remember(w, p) ==
    LET v == AskSlaves(w, p, "eth")
        u == IF Near(p.from, p.to) THEN AskSlaves(v, p, "lo") ELSE v
    IN  IF p.port = "master" /\ Near(p.from, p.to)
        THEN [u EXCEPT !.ag[p.to].master = Half] ELSE u

\* udp_server_recv().  An answer to an address that is no longer in use is lost.
Receive(w, p) ==
    LET b == p.to
        slave == p.port = "slave" /\ p.live
        v == IF slave THEN AddSlave(w, b, p.from, Fresh) ELSE w
        asks == slave /\ v.ag[b].asked[p.from] > 0
        u == CASE p.type = "reqinfo" -> Answer(v, p, SendAll(v, b, p.from, asks))
               [] p.type = "info" ->
                    FoldLeft(LAMBDA x, s : AddSlave(x, b, s[1], s[2]),
                             FoldLeft(LAMBDA x, q : AddPeer(x, b, q),
                                      [v EXCEPT !.ag[b].told = @ \cup p.news], Ascending(p.peers)),
                             SetToSeq(p.slaves))
               [] OTHER ->
                    LET x == IF slave THEN [v EXCEPT !.ag[b].asked[p.from] = FreshAsked] ELSE v
                        l == SlaveList(x, b, p.from)
                    IN  IF l = {} THEN x
                        ELSE Answer(x, p, SendPacket(x, Packet(x, "info", b, p.from, {}, l)))
    IN  IF ~Up(w, b) THEN w
        ELSE IF p.type = "removed"
        THEN [w EXCEPT !.ag[b].peers = [q \in Agents |-> IF q \in p.peers THEN 0 ELSE @[q]]]
        ELSE Remember(u, p)

\* Agent a leaves its port: what was sent to it is lost, what it sent comes
\* from an address that is no use, and its entries in slave_info are none either.
Moved(p, a) == IF p.from = a THEN [p EXCEPT !.live = FALSE] ELSE p
Without(p, a) == [p EXCEPT !.slaves = {s \in @ : s[1] # a}]
LeavePort(w, a) ==
    [ag  |-> [b \in Agents |-> [w.ag[b] EXCEPT !.slaves[a] = 0, !.asked[a] = 0]],
     net |-> [i \in DOMAIN SelectSeq(w.net, LAMBDA p : p.to # a) |->
                 Without(Moved(SelectSeq(w.net, LAMBDA p : p.to # a)[i], a), a)]]
LateWithout(S, a) == {Without(Moved(p, a), a) : p \in {q \in S : q.to # a}}

\* Agent a ends: what others know of it is from now on about an earlier life.
Outdated(p, a) == [p EXCEPT !.news = @ \ {a}]
Leave(w, a) ==
    LET v == LeavePort(w, a) IN
    [v EXCEPT !.ag  = [[b \in Agents |-> [@[b] EXCEPT !.told = @ \ {a}]] EXCEPT ![a] = Off],
              !.net = [i \in DOMAIN @ |-> Outdated(@[i], a)]]
LateOutdated(S, a) == {Outdated(p, a) : p \in LateWithout(S, a)}

\* create_server_socket(): the well known port if it is free, or a new one.
CreateServerSocket(w, a) ==
    LET v == LeavePort(w, a)
        taken == \E b \in Agents \ {a} : Near(a, b) /\ w.ag[b].st = "master"
    IN  [v EXCEPT !.ag[a].st = IF taken THEN "slave" ELSE "master"]

-----------------------------------------------------------------------------
(* Agents.                                                                 *)

Do(w) == ag' = w.ag /\ net' = w.net
Quiet == net = << >>

\* discovery_start_udp()
Start(a) ==
    /\ Quiet /\ due = {}
    /\ ag[a].st = "off"
    /\ LET w == CreateServerSocket(World, a)
           v == SendEach(w, Receivers(w, a),
                         LAMBDA u, b : SendPacket(u, Packet(u, "reqinfo", a, b, {}, {})))
       IN  Do(Broadcast(v, a))
    /\ late' = LateWithout(late, a)
    /\ calm' = 0
    /\ UNCHANGED <<due, faults>>

\* Sets of entries that a timer may find too old, by what is left of them.
Expired(left) ==
    {old \in SUBSET {x \in Agents : left[x] \in {1, 2}} : \A x \in Agents : left[x] = 1 => x \in old}
Purge(left, old) == [x \in Agents |-> IF x \in old THEN 0 ELSE left[x]]

\* udp_refresh_timer()
TakesOver(x) == {t \in BOOLEAN : /\ t => x.st = "slave" /\ x.master <= 1
                                /\ x.st = "slave" /\ x.master = 0 => t}
RefreshTimer(w, a, old, takes) ==
    LET v == [w EXCEPT !.ag[a].slaves = Purge(@, old)]
        u == IF takes THEN CreateServerSocket(v, a) ELSE v
    IN  Broadcast(IF u.ag[a].st = "slave" THEN AddSlave(u, a, a, Fresh) ELSE u, a)

\* clear_stale_peers()
ClearStalePeers(w, a, old) == [w EXCEPT !.ag[a].peers = Purge(@, old)]

\* The two timers of an agent, one after the other.
Timers(a) ==
    /\ Quiet
    /\ a \in due
    /\ \E old \in Expired(ag[a].peers), gone \in Expired(ag[a].slaves), takes \in TakesOver(ag[a]) :
          /\ \/ Do(RefreshTimer(ClearStalePeers(World, a, old), a, gone, takes))
             \/ Do(ClearStalePeers(RefreshTimer(World, a, gone, takes), a, old))
          /\ late' = IF takes THEN LateWithout(late, a) ELSE late
    /\ due' = due \ {a}
    /\ UNCHANGED <<faults, calm>>

Deliver ==
    /\ net # << >>
    /\ Do(Receive([World EXCEPT !.net = Tail(@)], Head(net)))
    /\ UNCHANGED <<late, due, faults, calm>>

DeliverLate ==
    \E p \in late :
        /\ Quiet
        /\ late' = late \ {p}
        /\ Do(Receive(World, p))
        /\ UNCHANGED <<due, faults, calm>>

-----------------------------------------------------------------------------
(* Faults.                                                                 *)

Fault ==
    /\ faults > 0
    /\ faults' = faults - 1
    /\ calm' = 0

\* An agent ends without a word, ...
Crash(a) ==
    /\ Quiet
    /\ Fault
    /\ Up(World, a)
    /\ Do(Leave(World, a))
    /\ late' = LateOutdated(late, a)
    /\ due' = due \ {a}

\* ... or with udp_send_peer_removed(), discovery_stop_udp().
Stop(a) ==
    /\ Quiet
    /\ Fault
    /\ Up(World, a)
    /\ Do(Leave(SendPeerRemoved(World, a), a))
    /\ late' = LateOutdated(late, a)
    /\ due' = due \ {a}

\* Packets are lost: some of those that one call sent, or all.
Lose ==
    /\ Fault
    /\ net # << >>
    /\ \/ net' = Tail(net)
       \/ \E p \in Head(net).peers :
              net' = <<[Head(net) EXCEPT !.peers = @ \ {p}, !.news = @ \ {p}]>> \o Tail(net)
    /\ UNCHANGED <<ag, late, due>>

\* A packet is delayed, or arrives a second time later.
Delay ==
    /\ Fault
    /\ net # << >>
    /\ late' = late \cup {Head(net)}
    /\ \/ net' = Tail(net) /\ UNCHANGED ag
       \/ Do(Receive([World EXCEPT !.net = Tail(@)], Head(net)))
    /\ UNCHANGED due

\* A period passes, after all timers of the last one have fired.
Count(x, floor) == IF x > floor THEN x - 1 ELSE x
Tick ==
    /\ Quiet /\ due = {}
    /\ ag' = [a \in Agents |->
                IF ~Up(World, a) THEN ag[a]
                ELSE [ag[a] EXCEPT
                        !.peers  = [p \in Agents |-> Count(@[p], 1)],
                        !.slaves = [b \in Agents |-> Count(@[b], 1)],
                        !.asked  = [b \in Agents |-> Count(@[b], 0)],
                        !.master = Count(@, 0),
                        !.reqd   = [i \in Interface |-> IF @[i] < Old THEN @[i] + 1 ELSE Old]]]
    /\ due' = {a \in Agents : Up(World, a)}
    /\ calm' = IF late = {} /\ calm < MaxCalm THEN calm + 1 ELSE calm
    /\ UNCHANGED <<net, late, faults>>

Init ==
    /\ \E s \in Scenarios :
          /\ ag = [a \in Agents |-> IF a \in s.agents THEN Off ELSE [Off EXCEPT !.st = "absent"]]
          /\ faults = s.faults
    /\ net = << >> /\ late = {}
    /\ due = {}
    /\ calm = 0

Next ==
    \/ \E a \in Agents : Start(a) \/ Timers(a) \/ Crash(a) \/ Stop(a)
    \/ Deliver \/ DeliverLate \/ Lose \/ Delay
    \/ Tick

Spec == Init /\ [][Next]_vars
-----------------------------------------------------------------------------
(* Correctness.                                                            *)

\* Every agent that runs lists the others that run, and nobody else; and a
\* host on which agents run has a master.
Exact ==
    /\ \A a, b \in Agents :
          Up(World, a) /\ a # b => (b \in Listed(World, a) <=> Up(World, b))
    /\ \A a \in Agents : Up(World, a) => \E b \in Masters(World) : Near(a, b)

\* Whatever started, and whichever crashes, stops, losses and delays of the
\* scenario came before, alone or combined: when MaxCalm refresh periods have begun after the last of
\* it, all tables are exact.  The tables hold what other agents said, and an
\* agent passes on what it was told (udp_send_peer_info(), local_peer_changed()),
\* so an entry could outlive its agent for ever, or an agent that nobody asks
\* again stay unknown.
SettlesInTime == calm = MaxCalm => Exact

\* Crashes, also of masters, stops, losses and delays never make an agent drop another one that runs and that it was told of since the other
\* started (clear_stale_peers()), unless what arrives is the late
\* UDP_PEERS_REMOVED of an earlier life of the other one.
Dropped(a, b) ==
    /\ Up(World, a) /\ Up(World, b) /\ b \in ag[a].told \cap Listed(World, a)
    /\ (Up(World, a) /\ Up(World, b) /\ b \notin Listed(World, a))'
NoFlapping ==
    [][\A a, b \in Agents : Dropped(a, b) =>
           \E p \in late \ late' : p.type = "removed" /\ b \in p.peers]_vars
=============================================================================

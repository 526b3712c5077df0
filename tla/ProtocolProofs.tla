--------------------------- MODULE ProtocolProofs ---------------------------
(* Proofs about Protocol, for any set of channels and commands and any size   *)
(* of the hash table and of the tokens.  ReenterOther is FALSE: the loop of   *)
(* channel_closed() loses entries if a handler sends on another channel.      *)
EXTENDS Protocol, ListLemmas, FiniteSetTheorems, WellFoundedInduction, TLAPS

-----------------------------------------------------------------------------
(* The inductive invariant.                                                   *)

\* k is linked into the table of reply handlers.
InTable(q, k) == \E b \in Buckets : k \in ToSet(q.handlers[b])

HomeOf(cmd, k) == Hash(cmd[k].c, cmd[k].tokenid)
SameToken(cmd, k, l) == cmd[k].c = cmd[l].c /\ cmd[k].tokenid = cmd[l].tokenid

\* The table: every entry once, in the bucket of its hash, and no two entries
\* of a channel with the same token.
TableOK(q) ==
    /\ \A b \in Buckets : NoRepeat(q.handlers[b])
    /\ \A b \in Buckets : \A k \in ToSet(q.handlers[b]) : q.cmd[k].c \in Chans /\ HomeOf(q.cmd, k) = b
    /\ \A k, l \in Cmds : InTable(q, k) /\ InTable(q, l) /\ SameToken(q.cmd, k, l) => k = l

\* The life of a command; then is the command that redirect_done() goes on to
\* when the loop of channel_closed() ends.
CmdOK(q, k, then) ==
    /\ q.cmd[k].st = "new" => q.cmd[k].calls = 0 /\ ~InTable(q, k) /\ k \notin q.unanswered
    /\ q.cmd[k].st = "sent" => q.cmd[k].calls = 0 /\ q.cmd[k].handler # "null"
    /\ q.cmd[k].st = "sent" => q.cmd[k].c \in Chans
    /\ q.cmd[k].st = "sent" /\ then # k => InTable(q, k)
    /\ then = k => q.cmd[k].st = "sent" /\ ~InTable(q, k)
    /\ q.cmd[k].st = "failed" => q.cmd[k].calls = 0 /\ ~InTable(q, k) /\ k \notin q.unanswered
    /\ q.cmd[k].st = "done" => q.cmd[k].calls = 1
    /\ q.cmd[k].st = "done" /\ InTable(q, k) => q.cmd[k].handler = "null"
    /\ q.cmd[k].st = "lost" => q.cmd[k].calls = 0 /\ ~InTable(q, k) /\ k \notin q.unanswered
    /\ q.cmd[k].got # "other"
    /\ k \in q.unanswered => q.cmd[k].c \in Chans

Then == IF loop = NULL THEN NULL ELSE loop.then

\* The loop of channel_closed(): at is in the bucket.
LoopRec == [c : Chans, bucket : Buckets, at : Cmds \cup {NULL}, then : Cmds \cup {NULL}]
LoopOK ==
    loop # NULL => /\ loop \in LoopRec
                   /\ loop.at # NULL => loop.at \in ToSet(p.handlers[loop.bucket])

\* An entry of a closed channel is still before the loop.
Ahead(k) ==
    \/ HomeOf(p.cmd, k) > loop.bucket
    \/ HomeOf(p.cmd, k) = loop.bucket /\ Pos(p.handlers[loop.bucket], k) > AtIndex
ClosedAhead ==
    \A k \in Cmds : InTable(p, k) /\ state[p.cmd[k].c] = "Disconnected" =>
                       loop # NULL /\ loop.c = p.cmd[k].c /\ Ahead(k)

\* A redirection that was sent and not answered: one on a channel.
IsRedirect(q, k) == InTable(q, k) /\ q.cmd[k].handler = "redirect"
Redirects ==
    /\ \A k \in Cmds : IsRedirect(p, k) => state[p.cmd[k].c] \in {"RedirectSent", "Disconnected"}
    /\ \A k, l \in Cmds : IsRedirect(p, k) /\ IsRedirect(p, l) /\ p.cmd[k].c = p.cmd[l].c => k = l

\* What peers sent and will send: the command that is answered is in the table
\* until its reply is handled, and the reply is the last message about it.
MsgOK(q, m, c) ==
    m.type # "Hello" => /\ m.of \in Cmds /\ InTable(q, m.of)
                        /\ q.cmd[m.of].c = c /\ q.cmd[m.of].tokenid = m.tokenid
LastOK(box) ==
    \A i, j \in 1..Len(box) :
        i < j /\ box[i].type = "R" /\ box[j].type # "Hello" => box[i].of # box[j].of
BoxOK(q, c, box) ==
    /\ \A i \in 1..Len(box) : MsgOK(q, box[i], c)
    /\ LastOK(box)
    /\ \A i \in 1..Len(box) : box[i].type = "R" => box[i].of \notin q.unanswered
Mail ==
    /\ \A c \in Chans : state[c] = "Disconnected" => inq[c] = << >>
    /\ \A c \in Chans : BoxOK(p, c, inq[c])
    /\ \A k \in p.unanswered : state[p.cmd[k].c] # "Disconnected" => InTable(p, k)

Commands == \A k \in Cmds : CmdOK(p, k, Then)

IInv ==
    /\ TypeOK /\ LoopOK
    /\ TableOK(p) /\ Commands
    /\ ClosedAhead /\ Redirects /\ Mail
    /\ broken = {}

-----------------------------------------------------------------------------
(* Numbers.                                                                   *)

\* A set of natural numbers has a smallest one.
LEMMA MinIn ==
    ASSUME NEW S \in SUBSET Nat, S # {}
    PROVE  Min(S) \in S
<1> DEFINE T == {0..n : n \in S}
<1>1. T \subseteq FiniteSubsetsOf(Nat)
  <2>1. ASSUME NEW n \in S PROVE 0..n \in FiniteSubsetsOf(Nat)
    BY FS_Interval DEF FiniteSubsetsOf
  <2> QED BY <2>1
<1>2. T # {}
  OBVIOUS
<1>3. IsWellFoundedOn(StrictSubsetOrdering(Nat), FiniteSubsetsOf(Nat))
  BY FS_StrictSubsetOrderingWellFounded
<1>4. PICK x \in T : \A y \in T : ~(<<y, x>> \in StrictSubsetOrdering(Nat))
  <2> HIDE DEF T
  <2> QED BY <1>1, <1>2, <1>3, WFMin
<1>5. PICK n \in S : x = 0..n
  OBVIOUS
<1>6. ASSUME NEW m \in S, m < n PROVE FALSE
  <2>1. 0..m \in T /\ 0..m \subseteq 0..n /\ 0..m # 0..n /\ 0..m \subseteq Nat /\ 0..n \subseteq Nat
    BY <1>6
  <2>2. <<0..m, x>> \in StrictSubsetOrdering(Nat)
    BY <1>5, <2>1 DEF StrictSubsetOrdering
  <2> QED BY <1>4, <2>1, <2>2
<1>7. \A m \in S : n <= m
  BY <1>6
<1> QED BY <1>7 DEF Min

\* Tokens and hashes wrap.
LEMMA ModRange ==
    ASSUME NEW n \in Nat, NEW m \in Nat \ {0}
    PROVE  n % m \in 0..m - 1
  OBVIOUS

\* The hash of a token is a bucket.
LEMMA HashBucket ==
    ASSUME NEW c \in Chans, NEW t \in 0..TokenMod - 1
    PROVE  Hash(c, t) \in Buckets
<1>1. HashBase[c] \in Nat /\ HashSize \in Nat \ {0} /\ TokenMod \in Nat
  BY ConstantAssumption
<1>2. HashBase[c] + t \in Nat
  BY <1>1
<1>3. (HashBase[c] + t) % HashSize \in 0..HashSize - 1
  BY <1>1, <1>2, ModRange
<1> QED BY <1>3 DEF Hash, Buckets

-----------------------------------------------------------------------------
(* The table of reply handlers.                                               *)

\* The fields of the Protocol object.
LEMMA RecFields ==
    ASSUME NEW q \in ProtocolRec
    PROVE  /\ q.tokenid \in 0..TokenMod - 1
           /\ q.handlers \in [Buckets -> Seq(Cmds)]
           /\ q.cmd \in [Cmds -> Command]
           /\ q.unanswered \in SUBSET Cmds /\ q.progressed \in SUBSET Cmds
           /\ \A b \in Buckets : q.handlers[b] \in Seq(Cmds)
           /\ \A k \in Cmds : q.cmd[k] \in Command
<1>1. /\ q.tokenid \in 0..TokenMod - 1
      /\ q.handlers \in [Buckets -> Seq(Cmds)]
      /\ q.cmd \in [Cmds -> Command]
      /\ q.unanswered \in SUBSET Cmds /\ q.progressed \in SUBSET Cmds
  BY DEF ProtocolRec
<1> QED BY <1>1

\* The fields of a command.
LEMMA CmdFields ==
    ASSUME NEW x \in Command
    PROVE  /\ x.st \in {"new", "sent", "failed", "done", "lost"} /\ x.c \in Chans \cup {NULL}
           /\ x.tokenid \in 0..TokenMod - 1 /\ x.handler \in {"client", "redirect", "null"}
           /\ x.calls \in Nat /\ x.got \in {"none", "own", "other", "closed"}
  BY DEF Command

\* Where an entry is.
LEMMA PosFacts ==
    ASSUME NEW s \in Seq(Cmds), NEW k \in ToSet(s)
    PROVE  Pos(s, k) \in 1..Len(s) /\ s[Pos(s, k)] = k
<1>1. \E i \in 1..Len(s) : s[i] = k
  BY ToSetSeq
<1> QED BY <1>1 DEF Pos

\* An entry is in the bucket of its hash.
LEMMA HomeFacts ==
    ASSUME NEW q \in ProtocolRec, TableOK(q), NEW k \in Cmds, InTable(q, k)
    PROVE  /\ q.cmd[k].c \in Chans /\ HomeOf(q.cmd, k) \in Buckets
           /\ k \in ToSet(q.handlers[HomeOf(q.cmd, k)])
  BY DEF InTable, TableOK

\* find_reply_handler() finds the entry, and only that one.
LEMMA FindFacts ==
    ASSUME NEW q \in ProtocolRec, TableOK(q), NEW c \in Chans, NEW t \in 0..TokenMod - 1
    PROVE  /\ \A k \in Cmds : InTable(q, k) /\ q.cmd[k].c = c /\ q.cmd[k].tokenid = t => Find(q, c, t) = k
           /\ Find(q, c, t) # NULL =>
                 /\ Find(q, c, t) \in Cmds /\ InTable(q, Find(q, c, t))
                 /\ q.cmd[Find(q, c, t)].c = c /\ q.cmd[Find(q, c, t)].tokenid = t
<1> DEFINE b == q.handlers[Hash(c, t)]
           hits == {i \in 1..Len(b) : q.cmd[b[i]].c = c /\ q.cmd[b[i]].tokenid = t}
<1>1. Hash(c, t) \in Buckets
  BY HashBucket
<1>2. b \in Seq(Cmds) /\ NoRepeat(b)
  BY <1>1, RecFields DEF TableOK
<1>3. Find(q, c, t) = IF hits = {} THEN NULL ELSE b[Min(hits)]
  BY DEF Find
<1>4. \A i \in 1..Len(b) : b[i] \in Cmds /\ b[i] \in ToSet(b)
  BY <1>2, ToSetSeq
<1>5. \A i \in 1..Len(b) : InTable(q, b[i])
  BY <1>1, <1>4 DEF InTable
<1>6. hits \in SUBSET Nat
  OBVIOUS
<1>7. \A i \in hits : i \in 1..Len(b) /\ q.cmd[b[i]].c = c /\ q.cmd[b[i]].tokenid = t
  OBVIOUS
<1>8. ASSUME NEW k \in Cmds, InTable(q, k), q.cmd[k].c = c, q.cmd[k].tokenid = t
      PROVE  \E i \in hits : b[i] = k
  <2>1. HomeOf(q.cmd, k) = Hash(c, t)
    BY <1>8 DEF HomeOf
  <2>2. k \in ToSet(b)
    BY <1>8, <2>1, HomeFacts
  <2>3. PICK i \in 1..Len(b) : b[i] = k
    BY <1>2, <2>2, ToSetSeq
  <2> QED BY <1>8, <2>3
<1>9. hits # {} => Min(hits) \in hits
  BY <1>6, MinIn
<1> HIDE DEF hits, b
<1>10. ASSUME NEW k \in Cmds, InTable(q, k), q.cmd[k].c = c, q.cmd[k].tokenid = t
       PROVE  Find(q, c, t) = k
  <2>1. PICK i \in hits : b[i] = k
    BY <1>8, <1>10
  <2>2. PICK j \in hits : Find(q, c, t) = b[j]
    BY <1>3, <1>9, <2>1
  <2>3. b[j] \in Cmds /\ InTable(q, b[j]) /\ SameToken(q.cmd, k, b[j])
    BY <1>4, <1>5, <1>7, <1>10 DEF SameToken
  <2> QED BY <1>10, <2>2, <2>3 DEF TableOK
<1>11. ASSUME Find(q, c, t) # NULL
       PROVE  /\ Find(q, c, t) \in Cmds /\ InTable(q, Find(q, c, t))
              /\ q.cmd[Find(q, c, t)].c = c /\ q.cmd[Find(q, c, t)].tokenid = t
  <2>1. PICK j \in hits : Find(q, c, t) = b[j]
    BY <1>3, <1>9, <1>11
  <2> QED BY <1>4, <1>5, <1>7, <2>1
<1> QED BY <1>10, <1>11

\* A new command gets a token that no entry of the channel has.
LEMMA NextTokenFacts ==
    ASSUME NEW q \in ProtocolRec, TableOK(q), NEW c \in Chans, HasToken(q, c)
    PROVE  /\ NextToken(q, c) \in 0..TokenMod - 1
           /\ (NextToken(q, c) + 1) % TokenMod \in 0..TokenMod - 1
           /\ \A k \in Cmds : InTable(q, k) => ~(q.cmd[k].c = c /\ q.cmd[k].tokenid = NextToken(q, c))
<1>1. TokenMod \in Nat \ {0} /\ q.tokenid \in Nat
  BY ConstantAssumption, RecFields
<1>2. TokensFrom(q, c) \in SUBSET Nat /\ TokensFrom(q, c) # {}
  BY DEF TokensFrom, HasToken
<1>3. Min(TokensFrom(q, c)) \in TokensFrom(q, c)
  BY <1>2, MinIn
<1>4. PICK i \in Nat : i = Min(TokensFrom(q, c)) /\ i \in TokensFrom(q, c)
  BY <1>2, <1>3
<1>5. NextToken(q, c) = (q.tokenid + i) % TokenMod
  BY <1>4 DEF NextToken
<1>6. NextToken(q, c) \in 0..TokenMod - 1
  <2>1. q.tokenid + i \in Nat
    BY <1>1
  <2>2. (q.tokenid + i) % TokenMod \in 0..TokenMod - 1
    BY <1>1, <2>1, ModRange
  <2> QED BY <1>5, <2>2
<1>7. Find(q, c, NextToken(q, c)) = NULL
  BY <1>4, <1>5 DEF TokensFrom
<1>8. \A k \in Cmds : k # NULL
  BY ConstantAssumption
<1>9. NextToken(q, c) + 1 \in Nat
  BY <1>6
<1>10. (NextToken(q, c) + 1) % TokenMod \in 0..TokenMod - 1
  BY <1>1, <1>9, ModRange
<1> QED BY <1>6, <1>7, <1>8, <1>10, FindFacts

\* Taking an entry out of the table.
LEMMA RemovedEntry ==
    ASSUME NEW q \in ProtocolRec, NEW r \in ProtocolRec, TableOK(q), r.cmd = q.cmd,
           NEW k \in Cmds, InTable(q, k),
           r.handlers = [q.handlers EXCEPT ![HomeOf(q.cmd, k)] = RemoveAt(@, Pos(@, k))]
    PROVE  /\ TableOK(r)
           /\ \A l \in Cmds : InTable(r, l) <=> InTable(q, l) /\ l # k
           /\ \A b \in Buckets : ToSet(r.handlers[b]) = ToSet(q.handlers[b]) \ {k}
<1> DEFINE h == HomeOf(q.cmd, k)
           s == q.handlers[h]
<1>1. h \in Buckets /\ k \in ToSet(s)
  BY HomeFacts
<1>2. s \in Seq(Cmds) /\ NoRepeat(s) /\ \A b \in Buckets : q.handlers[b] \in Seq(Cmds)
  BY <1>1, RecFields DEF TableOK
<1>3. Pos(s, k) \in 1..Len(s) /\ s[Pos(s, k)] = k
  BY <1>1, <1>2, PosFacts
<1>4. PICK i \in 1..Len(s) : i = Pos(s, k) /\ s[i] = k
  BY <1>3
<1>5. r.handlers[h] = RemoveAt(s, i) /\ \A b \in Buckets : b # h => r.handlers[b] = q.handlers[b]
  BY <1>1, <1>4, RecFields
<1>6. NoRepeat(r.handlers[h]) /\ ToSet(r.handlers[h]) = ToSet(s) \ {k}
  BY <1>2, <1>4, <1>5, RemoveAtMembers
<1>7. \A b \in Buckets : b # h => k \notin ToSet(q.handlers[b])
  BY DEF TableOK
<1>8. \A b \in Buckets : ToSet(r.handlers[b]) = ToSet(q.handlers[b]) \ {k}
  BY <1>5, <1>6, <1>7
<1>9. \A l \in Cmds : InTable(r, l) <=> InTable(q, l) /\ l # k
  BY <1>8 DEF InTable
<1>10. \A b \in Buckets : NoRepeat(r.handlers[b])
  BY <1>5, <1>6 DEF TableOK
<1>11. \A b \in Buckets : \A l \in ToSet(r.handlers[b]) : r.cmd[l].c \in Chans /\ HomeOf(r.cmd, l) = b
  BY <1>8 DEF TableOK
<1>12. \A l, m \in Cmds : InTable(r, l) /\ InTable(r, m) /\ SameToken(r.cmd, l, m) => l = m
  BY <1>9 DEF TableOK
<1> QED BY <1>8, <1>9, <1>10, <1>11, <1>12 DEF TableOK

\* handle_protocol_message() takes the entry of a reply, and nothing else.
LEMMA TakenFacts ==
    ASSUME NEW q \in ProtocolRec, TableOK(q), NEW k \in Cmds, InTable(q, k)
    PROVE  /\ Taken(q, k) \in ProtocolRec /\ TableOK(Taken(q, k))
           /\ \A l \in Cmds : InTable(Taken(q, k), l) <=> InTable(q, l) /\ l # k
           /\ Taken(q, k).cmd = q.cmd /\ Taken(q, k).unanswered = q.unanswered
           /\ Taken(q, k).progressed = q.progressed
           /\ \A b \in Buckets : ToSet(Taken(q, k).handlers[b]) = ToSet(q.handlers[b]) \ {k}
           /\ \A b \in Buckets : Taken(q, k).handlers[b] =
                IF b = HomeOf(q.cmd, k) THEN RemoveAt(q.handlers[b], Pos(q.handlers[b], k)) ELSE q.handlers[b]
<1> DEFINE r == Taken(q, k)
           h == HomeOf(q.cmd, k)
<1>1. h \in Buckets /\ k \in ToSet(q.handlers[h]) /\ q.handlers[h] \in Seq(Cmds)
      /\ NoRepeat(q.handlers[h])
  BY HomeFacts, RecFields DEF TableOK
<1>2. PICK i \in 1..Len(q.handlers[h]) : i = Pos(q.handlers[h], k)
  BY <1>1, PosFacts
<1>3. RemoveAt(q.handlers[h], i) \in Seq(Cmds)
  BY <1>1, RemoveAtMembers
<1>4. RemoveAt(q.handlers[h], Pos(q.handlers[h], k)) \in Seq(Cmds)
  BY <1>2, <1>3
<1>5. r = [q EXCEPT !.handlers = [q.handlers EXCEPT ![h] = RemoveAt(q.handlers[h], Pos(q.handlers[h], k))]]
  BY DEF Taken, HomeOf
<1> DEFINE f == [q.handlers EXCEPT ![h] = RemoveAt(q.handlers[h], Pos(q.handlers[h], k))]
<1>6. f \in [Buckets -> Seq(Cmds)]
  BY <1>1, <1>4, RecFields
<1> HIDE DEF f
<1>7. /\ r.handlers = f /\ r.cmd = q.cmd /\ r.unanswered = q.unanswered
      /\ r.progressed = q.progressed /\ r.tokenid = q.tokenid
  BY <1>5 DEF f, ProtocolRec
<1>8. r \in ProtocolRec
  BY <1>5, <1>6 DEF f, ProtocolRec
<1> HIDE DEF r, h
<1>9. r.handlers = [q.handlers EXCEPT ![HomeOf(q.cmd, k)] = RemoveAt(@, Pos(@, k))]
  BY <1>7 DEF f, h
<1>10. /\ TableOK(r) /\ \A l \in Cmds : InTable(r, l) <=> InTable(q, l) /\ l # k
       /\ \A b \in Buckets : ToSet(r.handlers[b]) = ToSet(q.handlers[b]) \ {k}
  BY <1>7, <1>8, <1>9, RemovedEntry
<1>11. \A b \in Buckets : r.handlers[b] =
         IF b = HomeOf(q.cmd, k) THEN RemoveAt(q.handlers[b], Pos(q.handlers[b], k)) ELSE q.handlers[b]
  BY <1>9, RecFields
<1> QED BY <1>7, <1>8, <1>10, <1>11 DEF r

-----------------------------------------------------------------------------
(* What the functions of protocol.c do to the Protocol object.                *)

\* r is q but for command k: every other command is what and where it was.
OnlyCmd(q, r, k) ==
    \A l \in Cmds : l # k => /\ r.cmd[l] = q.cmd[l]
                             /\ InTable(r, l) <=> InTable(q, l)
                             /\ l \in r.unanswered <=> l \in q.unanswered

\* Command k with its fields; new entries and entries that stay.
IsCmd(x, st, c, handler, calls, got) ==
    x.st = st /\ x.c = c /\ x.handler = handler /\ x.calls = calls /\ x.got = got
Grows(q, r) == \A b \in Buckets : ToSet(q.handlers[b]) \subseteq ToSet(r.handlers[b])

\* protocol_send_command() on a channel that can send.
LEMMA SendFacts ==
    ASSUME NEW q \in ProtocolRec, TableOK(q), NEW k \in Cmds, ~InTable(q, k), NEW c \in Chans,
           NEW h \in {"client", "redirect"}, HasToken(q, c), CanSend(c),
           NEW r, r = SendCommand(q, k, c, h)
    PROVE  /\ r \in ProtocolRec /\ TableOK(r) /\ Grows(q, r) /\ InTable(r, k) /\ OnlyCmd(q, r, k)
           /\ IsCmd(r.cmd[k], "sent", c, h, 0, "none")
           /\ r.unanswered = q.unanswered \cup {k} /\ r.progressed = q.progressed
<1>1. PICK t \in 0..TokenMod - 1 :
        /\ t = NextToken(q, c) /\ (t + 1) % TokenMod \in 0..TokenMod - 1
        /\ \A l \in Cmds : InTable(q, l) => ~(q.cmd[l].c = c /\ q.cmd[l].tokenid = t)
  BY NextTokenFacts
<1>2. PICK b \in Buckets : b = Hash(c, t)
  BY HashBucket
<1> DEFINE x == [st |-> "sent", c |-> c, tokenid |-> t, handler |-> h, calls |-> 0, got |-> "none"]
           s == q.handlers[b]
           cmds == [q.cmd EXCEPT ![k] = x]
           table == [q.handlers EXCEPT ![b] = <<k>> \o s]
           u == (t + 1) % TokenMod
           un == q.unanswered \cup {k}
<1>3. x \in Command /\ IsCmd(x, "sent", c, h, 0, "none") /\ x.c = c /\ x.tokenid = t
  BY DEF Command, IsCmd
<1>4. r = [q EXCEPT !.cmd = cmds, !.tokenid = u, !.handlers = table, !.unanswered = un]
  <2> DEFINE y == [st |-> "sent", c |-> c, tokenid |-> 0, handler |-> h, calls |-> 0, got |-> "none"]
  <2>1. [y EXCEPT !.tokenid = t] = x
    OBVIOUS
  <2>2. r = [q EXCEPT !.cmd[k] = [y EXCEPT !.tokenid = t], !.tokenid = (t + 1) % TokenMod,
                      !.handlers[b] = <<k>> \o @, !.unanswered = @ \cup {k}]
    BY <1>1, <1>2 DEF SendCommand
  <2> HIDE DEF x, y
  <2> QED BY <2>1, <2>2
<1> HIDE DEF x
<1>5. /\ s \in Seq(Cmds) /\ NoRepeat(s) /\ k \notin ToSet(s)
  BY <1>2, RecFields DEF TableOK, InTable
<1>6. /\ <<k>> \o s \in Seq(Cmds) /\ NoRepeat(<<k>> \o s) /\ ToSet(<<k>> \o s) = ToSet(s) \cup {k}
  BY <1>5, PrependMembers
<1>7. /\ cmds \in [Cmds -> Command] /\ cmds[k] = x /\ \A l \in Cmds : l # k => cmds[l] = q.cmd[l]
  BY <1>3, RecFields
<1>8. /\ table \in [Buckets -> Seq(Cmds)] /\ table[b] = <<k>> \o s
      /\ \A a \in Buckets : a # b => table[a] = q.handlers[a]
  BY <1>2, <1>6, RecFields
<1>9. un \in SUBSET Cmds /\ u \in 0..TokenMod - 1
  BY <1>1, RecFields
<1> HIDE DEF cmds, table, u, un, s
<1>10. /\ r \in ProtocolRec
       /\ r.cmd = cmds /\ r.handlers = table /\ r.unanswered = un /\ r.progressed = q.progressed
  BY <1>4, <1>7, <1>8, <1>9 DEF ProtocolRec
<1>11. /\ ToSet(table[b]) = ToSet(q.handlers[b]) \cup {k}
       /\ \A a \in Buckets : a # b => ToSet(table[a]) = ToSet(q.handlers[a])
       /\ \A a \in Buckets : NoRepeat(table[a])
  BY <1>6, <1>8 DEF TableOK, s
<1>12. \A l \in Cmds : InTable(r, l) <=> InTable(q, l) \/ l = k
  BY <1>2, <1>10, <1>11 DEF InTable
<1>13. \A a \in Buckets : k \notin ToSet(q.handlers[a])
  BY DEF InTable
<1>14. \A l \in Cmds : l # k => HomeOf(cmds, l) = HomeOf(q.cmd, l)
  BY <1>7 DEF HomeOf
<1>15. HomeOf(cmds, k) = b
  BY <1>2, <1>3, <1>7 DEF HomeOf
<1>16. \A a \in Buckets : \A l \in ToSet(table[a]) : cmds[l].c \in Chans /\ HomeOf(cmds, l) = a
  <2> TAKE a \in Buckets
  <2> TAKE l \in ToSet(table[a])
  <2>0. l \in Cmds
    BY <1>8, ToSetSeq
  <2>1. CASE l = k
    <3>1. a = b
      BY <1>11, <1>13, <2>1
    <3> QED BY <3>1, <2>1, <1>3, <1>7, <1>15
  <2>2. CASE l # k
    <3>1. l \in ToSet(q.handlers[a])
      BY <1>11, <2>2
    <3> QED BY <2>0, <3>1, <2>2, <1>7, <1>14 DEF TableOK
  <2> QED BY <2>1, <2>2
<1>17. ASSUME NEW l \in Cmds, NEW m \in Cmds, InTable(r, l), InTable(r, m), SameToken(cmds, l, m)
       PROVE  l = m
  <2>1. CASE l # k /\ m # k
    BY <1>7, <1>12, <1>17, <2>1 DEF TableOK, SameToken
  <2>2. CASE l = k \/ m = k
    BY <1>1, <1>3, <1>7, <1>12, <1>17, <2>2 DEF SameToken
  <2> QED BY <2>1, <2>2
<1>18. TableOK(r)
  BY <1>10, <1>11, <1>16, <1>17 DEF TableOK
<1>19. OnlyCmd(q, r, k)
  BY <1>7, <1>10, <1>12 DEF OnlyCmd, un
<1>20. Grows(q, r)
  BY <1>10, <1>11 DEF Grows
<1> QED BY <1>3, <1>7, <1>10, <1>12, <1>18, <1>19, <1>20 DEF un

\* A step that changes nothing but one command, and its channel and token only
\* if it is not in the table.
CmdSet(q, r, k, x) == r = [q EXCEPT !.cmd[k] = x]

\* Such a step keeps the table.
LEMMA FieldsFacts ==
    ASSUME NEW q \in ProtocolRec, NEW k \in Cmds, NEW x \in Command, NEW r,
           CmdSet(q, r, k, x)
    PROVE  /\ r \in ProtocolRec /\ r.cmd[k] = x /\ OnlyCmd(q, r, k)
           /\ r.handlers = q.handlers /\ r.unanswered = q.unanswered /\ r.progressed = q.progressed
           /\ InTable(r, k) <=> InTable(q, k)
           /\ TableOK(q) /\ (InTable(q, k) => x.c = q.cmd[k].c /\ x.tokenid = q.cmd[k].tokenid) => TableOK(r)
<1> DEFINE cmds == [q.cmd EXCEPT ![k] = x]
<1>1. r = [q EXCEPT !.cmd = cmds]
  BY DEF CmdSet
<1>2. /\ cmds \in [Cmds -> Command] /\ cmds[k] = x /\ \A l \in Cmds : l # k => cmds[l] = q.cmd[l]
  BY RecFields
<1> HIDE DEF cmds
<1>3. /\ r \in ProtocolRec /\ r.cmd = cmds /\ r.handlers = q.handlers
      /\ r.unanswered = q.unanswered /\ r.progressed = q.progressed
  BY <1>1, <1>2 DEF ProtocolRec
<1>4. \A l \in Cmds : InTable(r, l) <=> InTable(q, l)
  BY <1>3 DEF InTable
<1>5. OnlyCmd(q, r, k)
  BY <1>2, <1>3, <1>4 DEF OnlyCmd
<1>6. ASSUME TableOK(q), InTable(q, k) => x.c = q.cmd[k].c /\ x.tokenid = q.cmd[k].tokenid
      PROVE  TableOK(r)
  <2>1. \A l \in Cmds : InTable(q, l) => cmds[l].c = q.cmd[l].c /\ cmds[l].tokenid = q.cmd[l].tokenid
    BY <1>2, <1>6
  <2>2. \A b \in Buckets : \A l \in ToSet(q.handlers[b]) : l \in Cmds /\ InTable(q, l)
    BY RecFields, ToSetSeq DEF InTable
  <2>3. \A b \in Buckets : \A l \in ToSet(q.handlers[b]) : cmds[l].c \in Chans /\ HomeOf(cmds, l) = b
    BY <1>6, <2>1, <2>2 DEF TableOK, HomeOf
  <2>4. \A l, m \in Cmds : InTable(r, l) /\ InTable(r, m) /\ SameToken(cmds, l, m) => l = m
    BY <1>4, <1>6, <2>1 DEF TableOK, SameToken
  <2> QED BY <1>3, <1>6, <2>3, <2>4 DEF TableOK
<1> QED BY <1>2, <1>3, <1>4, <1>5, <1>6

\* What a step leaves of the table when it only changes what is known of k.
SameTable(q, r, k) ==
    /\ r \in ProtocolRec /\ TableOK(r) /\ OnlyCmd(q, r, k)
    /\ r.handlers = q.handlers /\ r.unanswered = q.unanswered /\ r.progressed = q.progressed
    /\ InTable(r, k) <=> InTable(q, k)

\* protocol_send_command() on a channel that cannot send.
LEMMA SendFailFacts ==
    ASSUME NEW q \in ProtocolRec, TableOK(q), NEW k \in Cmds, ~InTable(q, k), NEW c \in Chans,
           NEW h \in {"client", "redirect"}, ~CanSend(c), NEW r, r = SendCommand(q, k, c, h)
    PROVE  SameTable(q, r, k) /\ IsCmd(r.cmd[k], "failed", c, h, 0, "none")
<1> DEFINE y == [st |-> "sent", c |-> c, tokenid |-> 0, handler |-> h, calls |-> 0, got |-> "none"]
           x == [st |-> "failed", c |-> c, tokenid |-> 0, handler |-> h, calls |-> 0, got |-> "none"]
<1>1. [y EXCEPT !.st = "failed"] = x
  OBVIOUS
<1>2. 0 \in 0..TokenMod - 1
  BY ConstantAssumption
<1>3. x \in Command /\ IsCmd(x, "failed", c, h, 0, "none")
  BY <1>2 DEF Command, IsCmd
<1>4. r = [q EXCEPT !.cmd[k] = [y EXCEPT !.st = "failed"]]
  BY DEF SendCommand
<1> HIDE DEF x, y
<1>5. CmdSet(q, r, k, x)
  BY <1>1, <1>4 DEF CmdSet
<1>6. /\ r \in ProtocolRec /\ r.cmd[k] = x /\ OnlyCmd(q, r, k)
      /\ r.handlers = q.handlers /\ r.unanswered = q.unanswered /\ r.progressed = q.progressed
      /\ InTable(r, k) <=> InTable(q, k)
  BY <1>3, <1>5, FieldsFacts
<1>7. TableOK(r)
  BY <1>3, <1>5, FieldsFacts
<1> QED BY <1>3, <1>6, <1>7 DEF SameTable

\* The handler of k is called.
LEMMA CalledFacts ==
    ASSUME NEW q \in ProtocolRec, TableOK(q), NEW k \in Cmds, NEW what \in {"none", "own", "other", "closed"},
           NEW r, r = Called(q, k, what)
    PROVE  /\ SameTable(q, r, k)
           /\ IsCmd(r.cmd[k], "done", q.cmd[k].c, q.cmd[k].handler, q.cmd[k].calls + 1, what)
           /\ r.cmd[k].tokenid = q.cmd[k].tokenid
<1>0. q.cmd[k] \in Command /\ q.cmd \in [Cmds -> Command]
  BY RecFields
<1>1. PICK w \in Command : w = q.cmd[k]
  BY <1>0
<1> DEFINE x == [w EXCEPT !.st = "done", !.calls = @ + 1, !.got = what]
<1>2. /\ x \in Command /\ IsCmd(x, "done", w.c, w.handler, w.calls + 1, what)
      /\ x.c = w.c /\ x.tokenid = w.tokenid
  <2>1. w.calls + 1 \in Nat
    BY CmdFields
  <2> QED BY <2>1 DEF Command, IsCmd
<1>3. r = [q EXCEPT !.cmd[k] = [q.cmd[k] EXCEPT !.st = "done", !.calls = @ + 1, !.got = what]]
  BY DEF Called
<1>4. CmdSet(q, r, k, x)
  BY <1>1, <1>3 DEF CmdSet
<1> HIDE DEF x
<1>5. /\ r \in ProtocolRec /\ r.cmd[k] = x /\ OnlyCmd(q, r, k)
      /\ r.handlers = q.handlers /\ r.unanswered = q.unanswered /\ r.progressed = q.progressed
      /\ InTable(r, k) <=> InTable(q, k)
  BY <1>2, <1>4, FieldsFacts
<1>6. TableOK(r)
  BY <1>1, <1>2, <1>4, FieldsFacts
<1> QED BY <1>1, <1>2, <1>5, <1>6 DEF SameTable

\* The entry of k stays to intercept its reply.
LEMMA KeptFacts ==
    ASSUME NEW q \in ProtocolRec, TableOK(q), NEW k \in Cmds, NEW r, r = Kept(q, k)
    PROVE  /\ SameTable(q, r, k)
           /\ IsCmd(r.cmd[k], q.cmd[k].st, q.cmd[k].c, "null", q.cmd[k].calls, q.cmd[k].got)
           /\ r.cmd[k].tokenid = q.cmd[k].tokenid
<1>0. q.cmd[k] \in Command /\ q.cmd \in [Cmds -> Command]
  BY RecFields
<1>1. PICK w \in Command : w = q.cmd[k]
  BY <1>0
<1> DEFINE x == [w EXCEPT !.handler = "null"]
<1>2. /\ x \in Command /\ IsCmd(x, w.st, w.c, "null", w.calls, w.got)
      /\ x.c = w.c /\ x.tokenid = w.tokenid
  BY DEF Command, IsCmd
<1>3. r = [q EXCEPT !.cmd[k] = [q.cmd[k] EXCEPT !.handler = "null"]]
  BY <1>0 DEF Kept, ProtocolRec, Command
<1>4. CmdSet(q, r, k, x)
  BY <1>1, <1>3 DEF CmdSet
<1> HIDE DEF x
<1>5. /\ r \in ProtocolRec /\ r.cmd[k] = x /\ OnlyCmd(q, r, k)
      /\ r.handlers = q.handlers /\ r.unanswered = q.unanswered /\ r.progressed = q.progressed
      /\ InTable(r, k) <=> InTable(q, k)
  BY <1>2, <1>4, FieldsFacts
<1>6. TableOK(r)
  BY <1>1, <1>2, <1>4, FieldsFacts
<1> QED BY <1>1, <1>2, <1>5, <1>6 DEF SameTable

\* redirect_done() remembers what it was told.
WithGot(q, k, what) == [q EXCEPT !.cmd[k].got = what]

\* That changes nothing but what the command got.
LEMMA GotFacts ==
    ASSUME NEW q \in ProtocolRec, TableOK(q), NEW k \in Cmds, NEW what \in {"none", "own", "other", "closed"},
           NEW r, r = WithGot(q, k, what)
    PROVE  /\ SameTable(q, r, k)
           /\ IsCmd(r.cmd[k], q.cmd[k].st, q.cmd[k].c, q.cmd[k].handler, q.cmd[k].calls, what)
           /\ r.cmd[k].tokenid = q.cmd[k].tokenid
<1>0. q.cmd[k] \in Command /\ q.cmd \in [Cmds -> Command]
  BY RecFields
<1>1. PICK w \in Command : w = q.cmd[k]
  BY <1>0
<1> DEFINE x == [w EXCEPT !.got = what]
<1>2. /\ x \in Command /\ IsCmd(x, w.st, w.c, w.handler, w.calls, what)
      /\ x.c = w.c /\ x.tokenid = w.tokenid
  BY DEF Command, IsCmd
<1>3. r = [q EXCEPT !.cmd[k] = [q.cmd[k] EXCEPT !.got = what]]
  BY <1>0 DEF WithGot, ProtocolRec, Command
<1>4. CmdSet(q, r, k, x)
  BY <1>1, <1>3 DEF CmdSet
<1> HIDE DEF x
<1>5. /\ r \in ProtocolRec /\ r.cmd[k] = x /\ OnlyCmd(q, r, k)
      /\ r.handlers = q.handlers /\ r.unanswered = q.unanswered /\ r.progressed = q.progressed
      /\ InTable(r, k) <=> InTable(q, k)
  BY <1>2, <1>4, FieldsFacts
<1>6. TableOK(r)
  BY <1>1, <1>2, <1>4, FieldsFacts
<1> QED BY <1>1, <1>2, <1>5, <1>6 DEF SameTable

\* A command whose handler will not be called.
LEMMA LostFacts ==
    ASSUME NEW q \in ProtocolRec, TableOK(q), NEW k \in Cmds, NEW r, r = Lost(q, k)
    PROVE  /\ SameTable(q, r, k)
           /\ IsCmd(r.cmd[k], "lost", q.cmd[k].c, q.cmd[k].handler, q.cmd[k].calls, q.cmd[k].got)
           /\ r.cmd[k].tokenid = q.cmd[k].tokenid
<1>0. q.cmd[k] \in Command /\ q.cmd \in [Cmds -> Command]
  BY RecFields
<1>1. PICK w \in Command : w = q.cmd[k]
  BY <1>0
<1> DEFINE x == [w EXCEPT !.st = "lost"]
<1>2. /\ x \in Command /\ IsCmd(x, "lost", w.c, w.handler, w.calls, w.got)
      /\ x.c = w.c /\ x.tokenid = w.tokenid
  BY DEF Command, IsCmd
<1>3. r = [q EXCEPT !.cmd[k] = [q.cmd[k] EXCEPT !.st = "lost"]]
  BY <1>0 DEF Lost, ProtocolRec, Command
<1>4. CmdSet(q, r, k, x)
  BY <1>1, <1>3 DEF CmdSet
<1> HIDE DEF x
<1>5. /\ r \in ProtocolRec /\ r.cmd[k] = x /\ OnlyCmd(q, r, k)
      /\ r.handlers = q.handlers /\ r.unanswered = q.unanswered /\ r.progressed = q.progressed
      /\ InTable(r, k) <=> InTable(q, k)
  BY <1>2, <1>4, FieldsFacts
<1>6. TableOK(r)
  BY <1>1, <1>2, <1>4, FieldsFacts
<1> QED BY <1>1, <1>2, <1>5, <1>6 DEF SameTable

\* An entry that occurs once is where it is found.
LEMMA PosUnique ==
    ASSUME NEW s \in Seq(Cmds), NoRepeat(s), NEW i \in 1..Len(s)
    PROVE  s[i] \in ToSet(s) /\ s[i] \in Cmds /\ Pos(s, s[i]) = i
<1>1. s[i] \in ToSet(s) /\ s[i] \in Cmds
  BY ToSetSeq
<1>2. Pos(s, s[i]) \in 1..Len(s) /\ s[Pos(s, s[i])] = s[i]
  BY <1>1, PosFacts
<1> QED BY <1>1, <1>2 DEF NoRepeat

\* Where the other entries are after entry i was unlinked.
LEMMA RemovedPos ==
    ASSUME NEW s \in Seq(Cmds), NoRepeat(s), NEW i \in 1..Len(s), NEW l \in ToSet(s), l # s[i]
    PROVE  Pos(RemoveAt(s, i), l) = IF Pos(s, l) < i THEN Pos(s, l) ELSE Pos(s, l) - 1
<1> DEFINE t == RemoveAt(s, i)
<1>1. t \in Seq(Cmds) /\ NoRepeat(t) /\ Removed(t, s, i)
  BY RemoveAtMembers, RemoveAtRemoves
<1>2. PICK j \in 1..Len(s) : j = Pos(s, l) /\ s[j] = l
  BY PosFacts
<1> HIDE DEF t
<1>3. Len(s) \in Nat /\ Len(t) = Len(s) - 1 /\ j # i
  BY <1>1, <1>2 DEF Removed
<1>4. CASE j < i
  <2>1. j \in 1..(Len(s) - 1) /\ j \in 1..Len(t)
    BY <1>3, <1>4
  <2>2. t[j] = l
    BY <1>1, <1>2, <1>4, <2>1 DEF Removed
  <2>3. Pos(t, l) = j
    BY <1>1, <2>1, <2>2, PosUnique
  <2> QED BY <1>2, <1>4, <2>3 DEF t
<1>5. CASE ~(j < i)
  <2>1. j - 1 \in 1..(Len(s) - 1) /\ j - 1 \in 1..Len(t) /\ j - 1 >= i /\ (j - 1) + 1 = j
    BY <1>3, <1>5
  <2>2. t[j - 1] = l
    BY <1>1, <1>2, <2>1 DEF Removed
  <2>3. Pos(t, l) = j - 1
    BY <1>1, <2>1, <2>2, PosUnique
  <2> QED BY <1>2, <1>5, <2>3 DEF t
<1> QED BY <1>4, <1>5

\* *rhp = rh->next unlinks rh, and nothing else, if rh follows rhp.
LEMMA UnlinkedTakes ==
    ASSUME NEW q \in ProtocolRec, TableOK(q), loop \in LoopRec,
           NEW i \in 1..Len(q.handlers[loop.bucket]), Upto(q.handlers[loop.bucket], loop.at) = i - 1,
           NEW k, k = q.handlers[loop.bucket][i]
    PROVE  Unlinked(q, k) = Taken(q, k) /\ HomeOf(q.cmd, k) = loop.bucket
<1>1. PICK b \in Buckets : b = loop.bucket
  BY DEF LoopRec
<1>2. PICK s \in Seq(Cmds) : s = q.handlers[b] /\ NoRepeat(s)
  BY <1>1, RecFields DEF TableOK
<1>3. Pos(s, k) = i /\ k \in ToSet(s)
  BY <1>1, <1>2, PosUnique
<1>4. HomeOf(q.cmd, k) = b
  BY <1>1, <1>2, <1>3 DEF TableOK
<1>5. Upto(s, loop.at) = Pos(s, k) - 1
  BY <1>1, <1>2, <1>3
<1>6. SubSeq(s, 1, Upto(s, loop.at)) \o SubSeq(s, Pos(s, k) + 1, Len(s)) = RemoveAt(s, Pos(s, k))
  BY <1>5 DEF RemoveAt
<1>7. Unlinked(q, k) = [q EXCEPT !.handlers[b] =
         SubSeq(s, 1, Upto(s, loop.at)) \o SubSeq(s, Pos(s, k) + 1, Len(s))]
  BY <1>1, <1>2 DEF Unlinked
<1>8. Taken(q, k) = [q EXCEPT !.handlers[b] = RemoveAt(s, Pos(s, k))]
  BY <1>2, <1>4 DEF Taken, HomeOf
<1> QED BY <1>1, <1>4, <1>6, <1>7, <1>8

-----------------------------------------------------------------------------
(* Messages.                                                                  *)

\* A channel without messages.
LEMMA BoxEmpty ==
    ASSUME NEW q, NEW c
    PROVE  BoxOK(q, c, << >>)
  BY DEF BoxOK, LastOK

\* The messages of a channel stay good if the commands they are about do.
LEMMA BoxMoves ==
    ASSUME NEW q, NEW r, NEW c, NEW box, BoxOK(q, c, box),
           \A k \in Cmds : InTable(q, k) /\ q.cmd[k].c = c =>
                /\ InTable(r, k) /\ r.cmd[k].c = c /\ r.cmd[k].tokenid = q.cmd[k].tokenid
                /\ k \in r.unanswered => k \in q.unanswered
    PROVE  BoxOK(r, c, box)
  BY DEF BoxOK, MsgOK

\* The first message is handled; nothing more is said about a command that was
\* answered.
LEMMA BoxTail ==
    ASSUME NEW q, NEW r, NEW c, NEW box \in Seq(Message), box # << >>, BoxOK(q, c, box),
           \A k \in Cmds :
                InTable(q, k) /\ q.cmd[k].c = c /\ (Head(box).type = "R" => k # Head(box).of) =>
                /\ InTable(r, k) /\ r.cmd[k].c = c /\ r.cmd[k].tokenid = q.cmd[k].tokenid
                /\ k \in r.unanswered => k \in q.unanswered
    PROVE  BoxOK(r, c, Tail(box))
<1> DEFINE t == Tail(box)
<1>0. Len(box) \in Nat /\ 1 \in 1..Len(box) /\ Head(box) = box[1]
  OBVIOUS
<1>1. Len(t) = Len(box) - 1 /\ \A i \in 1..Len(t) : t[i] = box[i + 1]
  OBVIOUS
<1> HIDE DEF t
<1>2. \A i \in 1..Len(t) : i + 1 \in 1..Len(box) /\ 1 < i + 1
  BY <1>0, <1>1
<1>3. ASSUME NEW i \in 1..Len(t)
      PROVE  /\ MsgOK(r, t[i], c)
             /\ t[i].type = "R" => t[i].of \notin r.unanswered
  <2>1. PICK m : m = t[i] /\ m = box[i + 1]
    BY <1>1
  <2>2. MsgOK(q, m, c) /\ (m.type = "R" => m.of \notin q.unanswered)
    BY <1>2, <2>1 DEF BoxOK
  <2>3. Head(box).type = "R" /\ m.type # "Hello" => m.of # Head(box).of
    BY <1>0, <1>2, <2>1 DEF BoxOK, LastOK
  <2> QED BY <2>1, <2>2, <2>3 DEF MsgOK
<1>4. LastOK(t)
  <2> SUFFICES ASSUME NEW i \in 1..Len(t), NEW j \in 1..Len(t), i < j, t[i].type = "R", t[j].type # "Hello"
               PROVE  t[i].of # t[j].of
    BY DEF LastOK
  <2>1. i + 1 < j + 1
    BY <1>0, <1>1
  <2> QED BY <1>1, <1>2, <2>1 DEF BoxOK, LastOK
<1> QED BY <1>3, <1>4 DEF BoxOK, t

\* A peer sends a message: a reply to a command that it did not answer yet.
LEMMA BoxAppend ==
    ASSUME NEW q, NEW r, NEW c, NEW box \in Seq(Message), NEW m \in Message, BoxOK(q, c, box),
           r.cmd = q.cmd, r.handlers = q.handlers, r.unanswered \subseteq q.unanswered,
           MsgOK(q, m, c), m.type # "Hello" => m.of \in q.unanswered,
           m.type = "R" => m.of \notin r.unanswered
    PROVE  BoxOK(r, c, Append(box, m))
<1> DEFINE t == Append(box, m)
<1>1. /\ Len(box) \in Nat /\ Len(t) = Len(box) + 1 /\ t[Len(box) + 1] = m
      /\ \A i \in 1..Len(box) : t[i] = box[i]
  OBVIOUS
<1> HIDE DEF t
<1>2. \A i \in 1..Len(t) : i \in 1..Len(box) \/ i = Len(box) + 1
  BY <1>1
<1>3. \A k : InTable(r, k) <=> InTable(q, k)
  BY DEF InTable
<1>4. ASSUME NEW i \in 1..Len(t)
      PROVE  /\ MsgOK(r, t[i], c)
             /\ t[i].type = "R" => t[i].of \notin r.unanswered
  <2>1. PICK n : n = t[i] /\ MsgOK(q, n, c) /\ (n.type = "R" => n.of \notin r.unanswered)
    BY <1>1, <1>2 DEF BoxOK
  <2> QED BY <1>3, <2>1 DEF MsgOK
<1>5. LastOK(t)
  <2> SUFFICES ASSUME NEW i \in 1..Len(t), NEW j \in 1..Len(t), i < j, t[i].type = "R", t[j].type # "Hello"
               PROVE  t[i].of # t[j].of
    BY DEF LastOK
  <2>1. i \in 1..Len(box)
    BY <1>1
  <2>2. CASE j \in 1..Len(box)
    BY <1>1, <2>1, <2>2 DEF BoxOK, LastOK
  <2>3. CASE j = Len(box) + 1
    BY <1>1, <2>1, <2>3 DEF BoxOK
  <2> QED BY <1>2, <2>2, <2>3
<1> QED BY <1>4, <1>5 DEF BoxOK, t

-----------------------------------------------------------------------------
(* Parts of the inductive invariant.                                          *)

\* The life of the other commands goes on.
LEMMA CommandsKept ==
    ASSUME NEW q, NEW r, NEW k \in Cmds, NEW then, NEW after, OnlyCmd(q, r, k),
           \A l \in Cmds : CmdOK(q, l, then), \A l \in Cmds : l # k => (after = l <=> then = l),
           CmdOK(r, k, after)
    PROVE  \A l \in Cmds : CmdOK(r, l, after)
<1> SUFFICES ASSUME NEW l \in Cmds, l # k PROVE CmdOK(r, l, after)
  OBVIOUS
<1>1. CmdOK(q, l, then) /\ (after = l <=> then = l)
  OBVIOUS
<1>2. r.cmd[l] = q.cmd[l] /\ (InTable(r, l) <=> InTable(q, l)) /\ (l \in r.unanswered <=> l \in q.unanswered)
  BY DEF OnlyCmd
<1> QED BY <1>1, <1>2 DEF CmdOK

\* Outside of channel_closed() no entry belongs to a closed channel.
Open == \A k \in Cmds : InTable(p, k) => state[p.cmd[k].c] # "Disconnected"

\* The invariant outside of channel_closed().
LEMMA IdleOpen ==
    ASSUME IInv, Idle
    PROVE  Open /\ Then = NULL /\ \A k \in Cmds : k # NULL /\ CmdOK(p, k, NULL)
<1>1. Then = NULL /\ loop = NULL
  BY DEF Then, Idle
<1>2. Open
  BY <1>1 DEF IInv, ClosedAhead, Open
<1> QED BY <1>1, <1>2, ConstantAssumption DEF IInv, Commands

\* Then nothing has to be before the loop.
LEMMA OpenAhead ==
    ASSUME Open'
    PROVE  ClosedAhead'
  BY DEF Open, ClosedAhead

\* No redirection is new, and the channels stay in the states in which they
\* wait for it.
LEMMA RedirectsKept ==
    ASSUME Redirects,
           \A l \in Cmds : IsRedirect(p', l) =>
                /\ IsRedirect(p, l) /\ p'.cmd[l].c = p.cmd[l].c
                /\ state'[p.cmd[l].c] \in {"RedirectSent", "Disconnected"}
    PROVE  Redirects'
<1>1. \A l \in Cmds : IsRedirect(p', l) => state'[p'.cmd[l].c] \in {"RedirectSent", "Disconnected"}
  OBVIOUS
<1>2. \A l, m \in Cmds : IsRedirect(p', l) /\ IsRedirect(p', m) /\ p'.cmd[l].c = p'.cmd[m].c => l = m
  BY DEF Redirects
<1> QED BY <1>1, <1>2 DEF Redirects

\* The messages stay as they are, and the table keeps the commands they are
\* about.
LEMMA MailKept ==
    ASSUME Mail, inq' = inq,
           \A d \in Chans : state'[d] = "Disconnected" => inq[d] = << >>,
           \A l \in Cmds : InTable(p, l) /\ inq[p.cmd[l].c] # << >> =>
                /\ InTable(p', l) /\ p'.cmd[l].c = p.cmd[l].c /\ p'.cmd[l].tokenid = p.cmd[l].tokenid
                /\ l \in p'.unanswered => l \in p.unanswered,
           \A l \in p'.unanswered : state'[p'.cmd[l].c] # "Disconnected" => InTable(p', l)
    PROVE  Mail'
<1>1. ASSUME NEW d \in Chans PROVE BoxOK(p', d, inq'[d])
  <2>1. CASE inq[d] = << >>
    BY <2>1, BoxEmpty
  <2>2. CASE inq[d] # << >>
    <3>1. BoxOK(p, d, inq[d])
      BY DEF Mail
    <3>2. \A l \in Cmds : InTable(p, l) /\ p.cmd[l].c = d =>
              /\ InTable(p', l) /\ p'.cmd[l].c = d /\ p'.cmd[l].tokenid = p.cmd[l].tokenid
              /\ l \in p'.unanswered => l \in p.unanswered
      BY <2>2
    <3>3. BoxOK(p', d, inq[d])
      BY <3>1, <3>2, BoxMoves
    <3> QED BY <3>3
  <2> QED BY <2>1, <2>2
<1> QED BY <1>1 DEF Mail

\* The conclusion of every proof about a step.
LEMMA Whole ==
    ASSUME p' \in ProtocolRec, state' \in [Chans -> States], list' \in [Chans -> BOOLEAN],
           inq' \in [Chans -> Seq(Message)], hello' \in [Chans -> BOOLEAN], LoopOK', TableOK(p'),
           \A k \in Cmds : CmdOK(p', k, Then'), ClosedAhead', Redirects', Mail', broken' = {}
    PROVE  IInv'
  BY DEF IInv, TypeOK, Commands

-----------------------------------------------------------------------------
(* Sending commands.                                                          *)

\* protocol_send_command() outside of channel_closed(); a redirection changes
\* the state of the channel.
LEMMA SentKeeps ==
    ASSUME IInv, Idle, NEW k \in New, NEW c \in Chans, NEW h \in {"client", "redirect"},
           HasToken(p, c), p' = SendCommand(p, k, c, h),
           inq' = inq, list' = list, hello' = hello, loop' = loop, broken' = broken,
           h = "client" => state' = state,
           h = "redirect" => state[c] = "Connected" /\ state' = [state EXCEPT ![c] = "RedirectSent"]
    PROVE  IInv'
<1>0. /\ p \in ProtocolRec /\ state \in [Chans -> States] /\ list \in [Chans -> BOOLEAN]
      /\ inq \in [Chans -> Seq(Message)] /\ hello \in [Chans -> BOOLEAN] /\ TableOK(p)
      /\ Redirects /\ Mail /\ broken = {} /\ loop = NULL
  BY DEF IInv, TypeOK, Idle
<1>1. Open /\ k \in Cmds /\ (\A l \in Cmds : l # NULL /\ CmdOK(p, l, NULL)) /\ p.cmd[k].st = "new"
  BY IdleOpen DEF New
<1>2. ~InTable(p, k) /\ k \notin p.unanswered
  BY <1>1 DEF CmdOK
<1>3. /\ state' \in [Chans -> States]
      /\ \A d \in Chans : state'[d] = "Disconnected" <=> state[d] = "Disconnected"
      /\ \A d \in Chans : state[d] = "RedirectSent" => state'[d] = "RedirectSent"
      /\ h = "redirect" => state'[c] = "RedirectSent"
  BY <1>0 DEF States
<1>4. LoopOK' /\ Then' = NULL
  BY <1>0 DEF LoopOK, Then
<1>5. CASE CanSend(c)
  <2>1. /\ p' \in ProtocolRec /\ TableOK(p') /\ InTable(p', k) /\ OnlyCmd(p, p', k)
        /\ IsCmd(p'.cmd[k], "sent", c, h, 0, "none")
        /\ p'.unanswered = p.unanswered \cup {k}
    BY <1>0, <1>1, <1>2, <1>5, SendFacts
  <2>2. state[c] # "Disconnected"
    BY <1>5 DEF CanSend
  <2>3. \A l \in Cmds : CmdOK(p', l, NULL)
    <3>1. CmdOK(p', k, NULL)
      BY <1>1, <2>1 DEF CmdOK, IsCmd
    <3> QED BY <1>1, <2>1, <3>1, CommandsKept
  <2>4. \A l \in Cmds : l # k => p'.cmd[l] = p.cmd[l] /\ (InTable(p', l) <=> InTable(p, l))
    BY <2>1 DEF OnlyCmd
  <2>5. p'.cmd[k].c = c /\ p'.cmd[k].handler = h
    BY <2>1 DEF IsCmd
  <2>6. \A l \in Cmds : InTable(p, l) => p.cmd[l].c \in Chans
    BY <1>0, HomeFacts
  <2>7. Open'
    BY <1>1, <1>3, <2>2, <2>4, <2>5, <2>6 DEF Open
  <2>8. Redirects'
    <3>1. \A l \in Cmds : l # k => (IsRedirect(p', l) <=> IsRedirect(p, l))
      BY <2>4 DEF IsRedirect
    <3>2. IsRedirect(p', k) => h = "redirect"
      BY <2>5 DEF IsRedirect
    <3>3. ASSUME NEW l \in Cmds, IsRedirect(p', l)
          PROVE  state'[p'.cmd[l].c] \in {"RedirectSent", "Disconnected"}
      <4>1. CASE l = k
        BY <1>3, <2>5, <3>2, <3>3, <4>1
      <4>2. CASE l # k
        BY <1>0, <1>3, <2>4, <2>6, <3>1, <3>3, <4>2 DEF Redirects, IsRedirect
      <4> QED BY <4>1, <4>2
    <3>4. ASSUME NEW l \in Cmds, NEW m \in Cmds, IsRedirect(p', l), IsRedirect(p', m), l # m,
                 p'.cmd[l].c = p'.cmd[m].c
          PROVE  FALSE
      <4>1. CASE l # k /\ m # k
        BY <1>0, <2>4, <3>1, <3>4, <4>1 DEF Redirects
      <4>2. CASE l = k
        <5>1. h = "redirect" /\ state[c] = "Connected" /\ IsRedirect(p, m) /\ p.cmd[m].c = c
          BY <2>4, <2>5, <3>1, <3>2, <3>4, <4>2
        <5> QED BY <1>0, <5>1 DEF Redirects
      <4>3. CASE m = k
        <5>1. h = "redirect" /\ state[c] = "Connected" /\ IsRedirect(p, l) /\ p.cmd[l].c = c
          BY <2>4, <2>5, <3>1, <3>2, <3>4, <4>3
        <5> QED BY <1>0, <5>1 DEF Redirects
      <4> QED BY <3>4, <4>1, <4>2, <4>3
    <3> QED BY <3>3, <3>4 DEF Redirects
  <2>9. Mail'
    <3>2. ASSUME NEW l \in p'.unanswered, state'[p'.cmd[l].c] # "Disconnected" PROVE InTable(p', l)
      <4>0. l \in Cmds
        BY <2>1, RecFields
      <4>1. CASE l = k
        BY <2>1, <4>1
      <4>2. CASE l # k
        <5>1. l \in p.unanswered /\ p.cmd[l].c \in Chans
          BY <1>1, <2>1, <4>0, <4>2 DEF CmdOK
        <5> QED BY <1>0, <1>3, <2>4, <3>2, <4>0, <4>2, <5>1 DEF Mail
      <4> QED BY <4>1, <4>2
    <3>3. \A d \in Chans : state'[d] = "Disconnected" => inq'[d] = << >>
      BY <1>0, <1>3 DEF Mail
    <3> QED BY <1>0, <1>2, <2>1, <2>4, <3>2, <3>3, MailKept
  <2> QED BY <1>0, <1>3, <1>4, <2>1, <2>3, <2>7, <2>8, <2>9, OpenAhead, Whole
<1>6. CASE ~CanSend(c)
  <2>1. SameTable(p, p', k) /\ IsCmd(p'.cmd[k], "failed", c, h, 0, "none")
    BY <1>0, <1>1, <1>2, <1>6, SendFailFacts
  <2>2. /\ p' \in ProtocolRec /\ TableOK(p') /\ OnlyCmd(p, p', k) /\ p'.handlers = p.handlers
        /\ p'.unanswered = p.unanswered /\ ~InTable(p', k)
    BY <1>2, <2>1 DEF SameTable
  <2>3. \A l \in Cmds : CmdOK(p', l, NULL)
    <3>1. CmdOK(p', k, NULL)
      BY <1>1, <1>2, <2>1, <2>2 DEF CmdOK, IsCmd
    <3> QED BY <1>1, <2>2, <3>1, CommandsKept
  <2>4. \A l \in Cmds : InTable(p', l) => p'.cmd[l] = p.cmd[l] /\ InTable(p, l)
    BY <2>2 DEF OnlyCmd
  <2>5. \A l \in Cmds : InTable(p, l) => p'.cmd[l] = p.cmd[l] /\ InTable(p', l) /\ p.cmd[l].c \in Chans
    BY <1>0, <1>2, <2>2, HomeFacts DEF OnlyCmd
  <2>6. Open'
    BY <1>1, <1>3, <2>4, <2>5 DEF Open
  <2>7. Redirects'
    <3>1. ASSUME NEW l \in Cmds, IsRedirect(p', l)
          PROVE  /\ IsRedirect(p, l) /\ p'.cmd[l].c = p.cmd[l].c
                 /\ state'[p.cmd[l].c] \in {"RedirectSent", "Disconnected"}
      <4>1. IsRedirect(p, l) /\ p'.cmd[l] = p.cmd[l] /\ p.cmd[l].c \in Chans
        BY <2>4, <2>5, <3>1 DEF IsRedirect
      <4> QED BY <1>0, <1>3, <4>1 DEF Redirects
    <3> QED BY <1>0, <3>1, RedirectsKept
  <2>8. Mail'
    <3>2. ASSUME NEW l \in p'.unanswered, state'[p'.cmd[l].c] # "Disconnected" PROVE InTable(p', l)
      <4>1. l \in Cmds /\ l # k /\ p'.cmd[l] = p.cmd[l] /\ p.cmd[l].c \in Chans
        BY <1>1, <1>2, <2>2, RecFields DEF OnlyCmd, CmdOK
      <4> QED BY <1>0, <1>3, <2>2, <2>5, <3>2, <4>1 DEF Mail
    <3>3. \A d \in Chans : state'[d] = "Disconnected" => inq'[d] = << >>
      BY <1>0, <1>3 DEF Mail
    <3> QED BY <1>0, <2>2, <2>5, <3>2, <3>3, MailKept
  <2> QED BY <1>0, <1>3, <1>4, <2>2, <2>3, <2>6, <2>7, <2>8, OpenAhead, Whole
<1> QED BY <1>5, <1>6

\* Send and SendRedirect.
LEMMA SendKeeps ==
    ASSUME IInv, NEW k \in Cmds, NEW c \in Chans, Send(k, c) \/ SendRedirect(k, c)
    PROVE  IInv'
<1>1. CASE Send(k, c)
  BY <1>1, SentKeeps DEF Send
<1>2. CASE SendRedirect(k, c)
  BY <1>2, SentKeeps DEF SendRedirect
<1> QED BY <1>1, <1>2

\* The event that reports a command that could not be sent.
LEMMA SendCommandFailedKeeps ==
    ASSUME IInv, NEW k \in Cmds, SendCommandFailed(k)
    PROVE  IInv'
<1>0. /\ p \in ProtocolRec /\ state \in [Chans -> States] /\ list \in [Chans -> BOOLEAN]
      /\ inq \in [Chans -> Seq(Message)] /\ hello \in [Chans -> BOOLEAN] /\ TableOK(p)
      /\ Redirects /\ Mail /\ broken = {} /\ loop = NULL
  BY DEF IInv, TypeOK, SendCommandFailed, Idle
<1>1. Open /\ (\A l \in Cmds : l # NULL /\ CmdOK(p, l, NULL)) /\ p.cmd[k].st = "failed"
  BY IdleOpen DEF SendCommandFailed
<1>2. ~InTable(p, k) /\ k \notin p.unanswered /\ p.cmd[k].calls = 0
  BY <1>1 DEF CmdOK
<1>3. /\ p' = Called(p, k, "closed") /\ state' = state /\ list' = list /\ inq' = inq
      /\ hello' = hello /\ loop' = loop /\ broken' = broken
  BY DEF SendCommandFailed
<1>4. LoopOK' /\ Then' = NULL
  BY <1>0, <1>3 DEF LoopOK, Then
<1>5. SameTable(p, p', k) /\ IsCmd(p'.cmd[k], "done", p.cmd[k].c, p.cmd[k].handler, p.cmd[k].calls + 1, "closed")
  BY <1>0, <1>3, CalledFacts
<1>6. /\ p' \in ProtocolRec /\ TableOK(p') /\ OnlyCmd(p, p', k)
      /\ p'.unanswered = p.unanswered /\ ~InTable(p', k)
  BY <1>2, <1>5 DEF SameTable
<1>7. \A l \in Cmds : CmdOK(p', l, NULL)
  <2>1. CmdOK(p', k, NULL)
    BY <1>1, <1>2, <1>5, <1>6 DEF CmdOK, IsCmd
  <2> QED BY <1>1, <1>6, <2>1, CommandsKept
<1>8. \A l \in Cmds : InTable(p', l) <=> InTable(p, l)
  BY <1>2, <1>6 DEF OnlyCmd
<1>9. \A l \in Cmds : InTable(p, l) => p'.cmd[l] = p.cmd[l]
  BY <1>2, <1>6 DEF OnlyCmd
<1>10. Open'
  BY <1>1, <1>3, <1>8, <1>9 DEF Open
<1>11. Redirects'
  <2>1. \A l \in Cmds : IsRedirect(p', l) =>
          /\ IsRedirect(p, l) /\ p'.cmd[l].c = p.cmd[l].c
          /\ state'[p.cmd[l].c] \in {"RedirectSent", "Disconnected"}
    BY <1>0, <1>3, <1>8, <1>9 DEF Redirects, IsRedirect
  <2> QED BY <1>0, <2>1, RedirectsKept
<1>12. Mail'
  <2>1. \A l \in p'.unanswered : l \in Cmds /\ l # k /\ p'.cmd[l] = p.cmd[l]
    BY <1>2, <1>6, RecFields DEF OnlyCmd
  <2>2. \A l \in p'.unanswered : state'[p'.cmd[l].c] # "Disconnected" => InTable(p', l)
    BY <1>0, <1>3, <1>6, <1>8, <2>1 DEF Mail
  <2>3. \A d \in Chans : state'[d] = "Disconnected" => inq[d] = << >>
    BY <1>0, <1>3 DEF Mail
  <2> QED BY <1>0, <1>3, <1>6, <1>8, <1>9, <2>2, <2>3, MailKept
<1> QED BY <1>0, <1>3, <1>4, <1>6, <1>7, <1>10, <1>11, <1>12, OpenAhead, Whole

\* The handshake, and messages that are no replies: a channel that is not
\* closed goes on, and not from the state in which it waits for a redirection.
LEMMA StateKeeps ==
    ASSUME IInv, Idle, NEW c \in Chans, state' \in [Chans -> States],
           \A d \in Chans : state'[d] = "Disconnected" <=> state[d] = "Disconnected",
           \A d \in Chans : state[d] = "RedirectSent" => state'[d] = "RedirectSent",
           list' \in [Chans -> BOOLEAN], p' = p, hello' = hello, loop' = loop, broken' = broken,
           inq' = inq \/ (inq[c] # << >> /\ Head(inq[c]).type # "R" /\ inq' = [inq EXCEPT ![c] = Tail(@)])
    PROVE  IInv'
<1>0. /\ p \in ProtocolRec /\ state \in [Chans -> States]
      /\ inq \in [Chans -> Seq(Message)] /\ hello \in [Chans -> BOOLEAN] /\ TableOK(p)
      /\ Redirects /\ Mail /\ broken = {} /\ loop = NULL
  BY DEF IInv, TypeOK, Idle
<1>1. Open /\ (\A l \in Cmds : l # NULL /\ CmdOK(p, l, NULL))
  BY IdleOpen
<1>2. \A d \in Chans : state'[d] = "Disconnected" <=> state[d] = "Disconnected"
  OBVIOUS
<1>3. LoopOK' /\ Then' = NULL
  BY <1>0 DEF LoopOK, Then
<1>4. \A l \in Cmds : InTable(p, l) => p.cmd[l].c \in Chans
  BY <1>0, HomeFacts
<1>5. Open'
  BY <1>1, <1>2, <1>4 DEF Open
<1>6. Redirects'
  <2>1. ASSUME NEW l \in Cmds, IsRedirect(p, l)
        PROVE  state'[p.cmd[l].c] \in {"RedirectSent", "Disconnected"}
    <3>1. p.cmd[l].c \in Chans /\ state[p.cmd[l].c] \in {"RedirectSent", "Disconnected"}
      BY <1>0, <1>4, <2>1 DEF Redirects, IsRedirect
    <3> QED BY <1>2, <3>1
  <2> QED BY <1>0, <2>1, RedirectsKept
<1>7. /\ inq' \in [Chans -> Seq(Message)] /\ \A d \in Chans : d # c => inq'[d] = inq[d]
  <2>1. inq[c] \in Seq(Message) /\ (inq[c] # << >> => Tail(inq[c]) \in Seq(Message))
    BY <1>0
  <2> QED BY <1>0, <2>1
<1>8. Mail'
  <2>1. BoxOK(p, c, inq'[c])
    <3>1. CASE inq' = inq
      BY <1>0, <3>1 DEF Mail
    <3>2. CASE inq[c] # << >> /\ Head(inq[c]).type # "R" /\ inq' = [inq EXCEPT ![c] = Tail(@)]
      <4>1. BoxOK(p, c, inq[c]) /\ inq[c] \in Seq(Message) /\ inq'[c] = Tail(inq[c])
        BY <1>0, <3>2 DEF Mail
      <4>2. PICK box \in Seq(Message) : box = inq[c]
        BY <4>1
      <4>3. BoxOK(p, c, Tail(box))
        BY <3>2, <4>1, <4>2, BoxTail
      <4> QED BY <4>1, <4>2, <4>3
    <3> QED BY <3>1, <3>2
  <2>2. \A d \in Chans : BoxOK(p', d, inq'[d])
    BY <1>0, <1>7, <2>1 DEF Mail
  <2>3. \A d \in Chans : state'[d] = "Disconnected" => inq'[d] = << >>
    BY <1>0, <1>2, <1>7 DEF Mail
  <2>4. ASSUME NEW l \in p'.unanswered, state'[p'.cmd[l].c] # "Disconnected" PROVE InTable(p', l)
    <3>1. l \in Cmds /\ p.cmd[l].c \in Chans
      BY <1>0, <1>1, RecFields DEF CmdOK
    <3> QED BY <1>0, <1>2, <2>4, <3>1 DEF Mail
  <2> QED BY <2>2, <2>3, <2>4 DEF Mail
<1> QED BY <1>0, <1>1, <1>2, <1>3, <1>5, <1>6, <1>7, <1>8, OpenAhead, Whole

\* Hello is sent.
LEMMA SendHelloKeeps ==
    ASSUME IInv, NEW c \in Chans, SendHello(c)
    PROVE  IInv'
<1>1. state \in [Chans -> States] /\ list \in [Chans -> BOOLEAN]
  BY DEF IInv, TypeOK
<1>2. /\ state' \in [Chans -> States]
      /\ \A d \in Chans : state'[d] = "Disconnected" <=> state[d] = "Disconnected"
      /\ \A d \in Chans : state[d] = "RedirectSent" => state'[d] = "RedirectSent"
  BY <1>1 DEF SendHello, States
<1> QED BY <1>1, <1>2, StateKeeps DEF SendHello

\* Hello is received.
LEMMA HandleHelloKeeps ==
    ASSUME IInv, NEW c \in Chans, HandleHello(c)
    PROVE  IInv'
<1>1. state \in [Chans -> States] /\ list \in [Chans -> BOOLEAN]
  BY DEF IInv, TypeOK
<1>2. /\ state' \in [Chans -> States]
      /\ \A d \in Chans : state'[d] = "Disconnected" <=> state[d] = "Disconnected"
      /\ \A d \in Chans : state[d] = "RedirectSent" => state'[d] = "RedirectSent"
  BY <1>1 DEF HandleHello, States
<1>3. list' \in [Chans -> BOOLEAN]
  BY <1>1 DEF HandleHello
<1>4. Idle /\ inq[c] # << >> /\ Head(inq[c]).type # "R" /\ inq' = [inq EXCEPT ![c] = Tail(@)]
  BY DEF HandleHello, Handling, Consumed
<1> QED BY <1>2, <1>3, <1>4, StateKeeps DEF HandleHello

-----------------------------------------------------------------------------
(* The peers.                                                                 *)

\* A peer sends m: Hello, or about a command that it did not answer.  It
\* answers the commands that leave unanswered.
LEMMA PeerKeeps ==
    ASSUME IInv, Idle, NEW c \in Chans, NEW m \in Message, state[c] # "Disconnected",
           p' \in ProtocolRec, p'.cmd = p.cmd, p'.handlers = p.handlers,
           p'.unanswered \subseteq p.unanswered, MsgOK(p, m, c),
           m.type # "Hello" => m.of \in p.unanswered, m.type = "R" => m.of \notin p'.unanswered,
           PeerSends(c, m), state' = state, list' = list, hello' \in [Chans -> BOOLEAN],
           loop' = loop, broken' = broken
    PROVE  IInv'
<1>0. /\ p \in ProtocolRec /\ state \in [Chans -> States] /\ list \in [Chans -> BOOLEAN]
      /\ inq \in [Chans -> Seq(Message)] /\ TableOK(p)
      /\ Redirects /\ Mail /\ broken = {} /\ loop = NULL
  BY DEF IInv, TypeOK, Idle
<1>1. Open /\ (\A l \in Cmds : l # NULL /\ CmdOK(p, l, NULL))
  BY IdleOpen
<1>2. LoopOK' /\ Then' = NULL
  BY <1>0 DEF LoopOK, Then
<1>3. \A l : InTable(p', l) <=> InTable(p, l)
  BY DEF InTable
<1>4. TableOK(p')
  BY <1>0, <1>3 DEF TableOK
<1>5. \A l \in Cmds : CmdOK(p', l, NULL)
  BY <1>1, <1>3 DEF CmdOK
<1>6. Open'
  BY <1>1, <1>3 DEF Open
<1>7. Redirects'
  <2>1. \A l \in Cmds : IsRedirect(p', l) =>
          /\ IsRedirect(p, l) /\ p'.cmd[l].c = p.cmd[l].c
          /\ state'[p.cmd[l].c] \in {"RedirectSent", "Disconnected"}
    BY <1>0, <1>3 DEF Redirects, IsRedirect
  <2> QED BY <1>0, <2>1, RedirectsKept
<1>8. inq[c] \in Seq(Message) /\ Append(inq[c], m) \in Seq(Message)
  BY <1>0
<1>9. /\ inq' \in [Chans -> Seq(Message)] /\ inq'[c] = Append(inq[c], m)
      /\ \A d \in Chans : d # c => inq'[d] = inq[d]
  BY <1>0, <1>8 DEF PeerSends
<1>10. Mail'
  <2>1. BoxOK(p', c, Append(inq[c], m))
    <3>1. PICK box \in Seq(Message) : box = inq[c]
      BY <1>8
    <3>2. BoxOK(p, c, box)
      BY <1>0, <3>1 DEF Mail
    <3>3. BoxOK(p', c, Append(box, m))
      BY <3>2, BoxAppend
    <3> QED BY <3>1, <3>3
  <2>2. ASSUME NEW d \in Chans, d # c PROVE BoxOK(p', d, inq[d])
    <3>1. BoxOK(p, d, inq[d])
      BY <1>0 DEF Mail
    <3> QED BY <1>3, <3>1, BoxMoves
  <2>3. \A d \in Chans : BoxOK(p', d, inq'[d])
    BY <1>9, <2>1, <2>2
  <2>4. \A d \in Chans : state'[d] = "Disconnected" => inq'[d] = << >>
    BY <1>0, <1>9 DEF Mail
  <2>5. \A l \in p'.unanswered : state'[p'.cmd[l].c] # "Disconnected" => InTable(p', l)
    BY <1>0, <1>3 DEF Mail
  <2> QED BY <2>3, <2>4, <2>5 DEF Mail
<1> QED BY <1>0, <1>2, <1>4, <1>5, <1>6, <1>7, <1>9, <1>10, OpenAhead, Whole

\* Hello of the peer.
LEMMA PeerHelloKeeps ==
    ASSUME IInv, NEW c \in Chans, PeerHello(c)
    PROVE  IInv'
<1>0. p \in ProtocolRec /\ hello \in [Chans -> BOOLEAN] /\ 0 \in 0..TokenMod - 1
  BY ConstantAssumption DEF IInv, TypeOK
<1>1. PICK m \in Message : m = [type |-> "Hello", tokenid |-> 0, error |-> FALSE, of |-> NULL]
  BY <1>0 DEF Message
<1>2. m.type = "Hello" /\ MsgOK(p, m, c)
  BY <1>1 DEF MsgOK
<1>3. hello' \in [Chans -> BOOLEAN] /\ PeerSends(c, m)
  BY <1>0, <1>1 DEF PeerHello
<1> QED BY <1>0, <1>2, <1>3, PeerKeeps DEF PeerHello

\* What a peer may still say about a command is about an entry of the table.
LEMMA UnansweredFacts ==
    ASSUME IInv, NEW k \in p.unanswered, state[p.cmd[k].c] # "Disconnected"
    PROVE  k \in Cmds /\ p.cmd[k].c \in Chans /\ InTable(p, k) /\ p.cmd[k].tokenid \in 0..TokenMod - 1
<1>1. p \in ProtocolRec /\ k \in Cmds
  BY RecFields DEF IInv, TypeOK
<1>2. p.cmd[k].c \in Chans /\ InTable(p, k)
  BY <1>1 DEF IInv, Commands, CmdOK, Mail
<1> QED BY <1>1, <1>2, RecFields, CmdFields

\* A progress message.
LEMMA PeerProgressKeeps ==
    ASSUME IInv, NEW k \in Cmds, PeerProgress(k)
    PROVE  IInv'
<1>1. /\ Idle /\ k \in p.unanswered /\ state[p.cmd[k].c] # "Disconnected"
      /\ p' = [p EXCEPT !.progressed = p.progressed \cup {k}]
      /\ state' = state /\ list' = list /\ hello' = hello /\ loop' = loop /\ broken' = broken
  BY DEF PeerProgress
<1>2. PICK c \in Chans : c = p.cmd[k].c /\ InTable(p, k) /\ p.cmd[k].tokenid \in 0..TokenMod - 1
  BY <1>1, UnansweredFacts
<1>3. PICK m \in Message : m = [type |-> "P", tokenid |-> p.cmd[k].tokenid, error |-> FALSE, of |-> k]
  BY <1>2 DEF Message
<1>4. m.type = "P" /\ m.of = k /\ MsgOK(p, m, c)
  BY <1>2, <1>3 DEF MsgOK
<1>5. p \in ProtocolRec /\ hello' \in [Chans -> BOOLEAN]
  BY <1>1 DEF IInv, TypeOK
<1>6. p.progressed \cup {k} \in SUBSET Cmds
  BY <1>5, RecFields
<1>7. p' \in ProtocolRec /\ p'.cmd = p.cmd /\ p'.handlers = p.handlers /\ p'.unanswered = p.unanswered
  BY <1>1, <1>5, <1>6 DEF ProtocolRec
<1>8. PeerSends(c, m)
  BY <1>2, <1>3 DEF PeerProgress
<1> QED BY <1>1, <1>2, <1>4, <1>5, <1>7, <1>8, PeerKeeps

\* A reply.
LEMMA PeerReplyKeeps ==
    ASSUME IInv, NEW k \in Cmds, PeerReply(k)
    PROVE  IInv'
<1>1. /\ Idle /\ k \in p.unanswered /\ state[p.cmd[k].c] # "Disconnected"
      /\ p' = [p EXCEPT !.unanswered = p.unanswered \ {k}]
      /\ state' = state /\ list' = list /\ loop' = loop /\ broken' = broken
  BY DEF PeerReply
<1>2. PICK c \in Chans : c = p.cmd[k].c /\ InTable(p, k) /\ p.cmd[k].tokenid \in 0..TokenMod - 1
  BY <1>1, UnansweredFacts
<1>3. PICK error \in BOOLEAN :
        /\ PeerSends(c, [type |-> "R", tokenid |-> p.cmd[k].tokenid, error |-> error, of |-> k])
        /\ hello' = [hello EXCEPT ![c] = @ \/ (p.cmd[k].handler = "redirect" /\ ~error)]
  BY <1>2 DEF PeerReply
<1>4. PICK m \in Message : m = [type |-> "R", tokenid |-> p.cmd[k].tokenid, error |-> error, of |-> k]
  BY <1>2 DEF Message
<1>5. m.type = "R" /\ m.of = k /\ MsgOK(p, m, c)
  BY <1>2, <1>4 DEF MsgOK
<1>6. p \in ProtocolRec /\ hello \in [Chans -> BOOLEAN]
  BY DEF IInv, TypeOK
<1>7. hello' \in [Chans -> BOOLEAN]
  BY <1>3, <1>6
<1>8. p.unanswered \ {k} \in SUBSET Cmds
  BY <1>6, RecFields
<1>9. p' \in ProtocolRec /\ p'.cmd = p.cmd /\ p'.handlers = p.handlers /\ p'.unanswered = p.unanswered \ {k}
  BY <1>1, <1>6, <1>8 DEF ProtocolRec
<1>10. PeerSends(c, m)
  BY <1>3, <1>4
<1> QED BY <1>1, <1>2, <1>5, <1>7, <1>9, <1>10, PeerKeeps

-----------------------------------------------------------------------------
(* Messages are handled.                                                      *)

\* channel_closed() begins: all entries of the channel are before its loop.
LEMMA ClosedStart ==
    ASSUME p' \in ProtocolRec, TableOK(p'), NEW c \in Chans, NEW k \in Cmds \cup {NULL},
           loop' = ClosedLoop(c, k),
           \A l \in Cmds : InTable(p', l) /\ state'[p'.cmd[l].c] = "Disconnected" => p'.cmd[l].c = c
    PROVE  ClosedAhead' /\ LoopOK' /\ Then' = k
<1>1. 0 \in Buckets /\ HashSize \in Nat
  BY ConstantAssumption DEF Buckets
<1>2. loop' \in LoopRec /\ loop'.c = c /\ loop'.bucket = 0 /\ loop'.at = NULL /\ loop'.then = k
  BY <1>1 DEF ClosedLoop, LoopRec
<1>3. loop' # NULL
  BY <1>2, NullAssumption DEF LoopRec, Buckets
<1>4. LoopOK' /\ Then' = k
  BY <1>2, <1>3 DEF LoopOK, Then
<1>5. AtIndex' = 0
  BY <1>2 DEF AtIndex, Upto
<1>6. ASSUME NEW l \in Cmds, InTable(p', l) PROVE Ahead(l)'
  <2>1. HomeOf(p'.cmd, l) \in Buckets /\ l \in ToSet(p'.handlers[HomeOf(p'.cmd, l)])
    BY <1>6, HomeFacts
  <2>2. CASE HomeOf(p'.cmd, l) = 0
    <3>1. p'.handlers[0] \in Seq(Cmds) /\ l \in ToSet(p'.handlers[0])
      BY <1>1, <2>1, <2>2, RecFields
    <3>2. Pos(p'.handlers[0], l) \in 1..Len(p'.handlers[0])
      BY <3>1, PosFacts
    <3>3. Pos(p'.handlers[0], l) > 0
      BY <3>1, <3>2
    <3> QED BY <1>2, <1>5, <2>2, <3>3 DEF Ahead
  <2>3. CASE HomeOf(p'.cmd, l) # 0
    <3>1. HomeOf(p'.cmd, l) > 0
      BY <1>1, <2>1, <2>3 DEF Buckets
    <3> QED BY <1>2, <3>1 DEF Ahead
  <2> QED BY <2>2, <2>3
<1>7. ClosedAhead'
  BY <1>2, <1>3, <1>6 DEF ClosedAhead
<1> QED BY <1>4, <1>7

\* The channel is closed for any other reason than a message.
LEMMA ChannelCloseKeeps ==
    ASSUME IInv, NEW c \in Chans, ChannelClose(c)
    PROVE  IInv'
<1>0. /\ p \in ProtocolRec /\ state \in [Chans -> States] /\ list \in [Chans -> BOOLEAN]
      /\ inq \in [Chans -> Seq(Message)] /\ hello \in [Chans -> BOOLEAN] /\ TableOK(p)
      /\ Redirects /\ Mail /\ broken = {} /\ loop = NULL /\ Idle
  BY DEF IInv, TypeOK, ChannelClose, Idle
<1>1. Open /\ (\A l \in Cmds : l # NULL /\ CmdOK(p, l, NULL))
  BY <1>0, IdleOpen
<1>2. /\ p' = p /\ list' = list /\ hello' = hello /\ broken' = broken
      /\ state' = [state EXCEPT ![c] = "Disconnected"]
      /\ inq' = [inq EXCEPT ![c] = << >>] /\ loop' = ClosedLoop(c, NULL)
  BY DEF ChannelClose, StartClose
<1>3. /\ state' \in [Chans -> States] /\ state'[c] = "Disconnected"
      /\ \A d \in Chans : d # c => state'[d] = state[d]
  BY <1>0, <1>2 DEF States
<1>4. /\ inq' \in [Chans -> Seq(Message)] /\ inq'[c] = << >>
      /\ \A d \in Chans : d # c => inq'[d] = inq[d]
  BY <1>0, <1>2
<1>5. \A l \in Cmds : InTable(p, l) => p.cmd[l].c \in Chans
  BY <1>0, HomeFacts
<1>6. ClosedAhead' /\ LoopOK' /\ Then' = NULL
  <2>1. \A l \in Cmds : InTable(p', l) /\ state'[p'.cmd[l].c] = "Disconnected" => p'.cmd[l].c = c
    BY <1>1, <1>2, <1>3, <1>5 DEF Open
  <2>2. p' \in ProtocolRec /\ TableOK(p')
    BY <1>0, <1>2
  <2> QED BY <1>2, <2>1, <2>2, ClosedStart
<1>7. Redirects'
  <2>1. ASSUME NEW l \in Cmds, IsRedirect(p, l)
        PROVE  state'[p.cmd[l].c] \in {"RedirectSent", "Disconnected"}
    <3>1. p.cmd[l].c \in Chans /\ state[p.cmd[l].c] \in {"RedirectSent", "Disconnected"}
      BY <1>0, <1>5, <2>1 DEF Redirects, IsRedirect
    <3> QED BY <1>3, <3>1
  <2> QED BY <1>0, <1>2, <2>1, RedirectsKept
<1>8. Mail'
  <2>1. \A d \in Chans : BoxOK(p', d, inq'[d])
    BY <1>0, <1>2, <1>4, BoxEmpty DEF Mail
  <2>2. \A d \in Chans : state'[d] = "Disconnected" => inq'[d] = << >>
    BY <1>0, <1>3, <1>4 DEF Mail
  <2>3. ASSUME NEW l \in p'.unanswered, state'[p'.cmd[l].c] # "Disconnected" PROVE InTable(p', l)
    <3>1. l \in Cmds /\ p.cmd[l].c \in Chans
      BY <1>0, <1>1, <1>2, RecFields DEF CmdOK
    <3> QED BY <1>0, <1>2, <1>3, <2>3, <3>1 DEF Mail
  <2> QED BY <2>1, <2>2, <2>3 DEF Mail
<1> QED BY <1>0, <1>1, <1>2, <1>3, <1>4, <1>6, <1>7, <1>8, Whole

\* The first message finds the command that it is about.
LEMMA HeadFacts ==
    ASSUME IInv, NEW c \in Chans, Handling(c, {"R", "P"})
    PROVE  /\ Idle /\ inq[c] # << >> /\ Head(inq[c]).type \in {"R", "P"} /\ state[c] # "Disconnected"
           /\ Entry(c) \in Cmds /\ Entry(c) = Head(inq[c]).of /\ Origin(c) = "own"
           /\ InTable(p, Entry(c)) /\ p.cmd[Entry(c)].c = c /\ Entry(c) # NULL
           /\ Head(inq[c]).type = "R" => Entry(c) \notin p.unanswered
<1>1. /\ Idle /\ inq[c] # << >> /\ Head(inq[c]).type \in {"R", "P"}
      /\ p \in ProtocolRec /\ TableOK(p) /\ Mail /\ inq[c] \in Seq(Message)
  BY DEF IInv, TypeOK, Handling
<1>2. PICK m \in Message : m = Head(inq[c]) /\ m = inq[c][1] /\ 1 \in 1..Len(inq[c])
  BY <1>1
<1>3. /\ m.of \in Cmds /\ InTable(p, m.of) /\ p.cmd[m.of].c = c /\ p.cmd[m.of].tokenid = m.tokenid
      /\ m.type = "R" => m.of \notin p.unanswered
  BY <1>1, <1>2 DEF Mail, BoxOK, MsgOK
<1>4. m.tokenid \in 0..TokenMod - 1
  BY DEF Message
<1>5. Find(p, c, m.tokenid) = m.of
  BY <1>1, <1>3, <1>4, FindFacts
<1>6. Entry(c) = m.of
  BY <1>2, <1>5 DEF Entry
<1>7. state[c] # "Disconnected"
  BY <1>1 DEF Mail
<1>8. m.of # NULL
  BY <1>3, ConstantAssumption
<1> QED BY <1>1, <1>2, <1>3, <1>6, <1>7, <1>8 DEF Origin

\* A reply takes its command k out of the table.  The channel goes on, in
\* another state if k was a redirection, or channel_closed() begins.
LEMMA AnswerKeeps ==
    ASSUME IInv, NEW c \in Chans, Handling(c, {"R"}), NEW k \in Cmds, k = Entry(c),
           p' \in ProtocolRec, TableOK(p'), OnlyCmd(p, p', k), ~InTable(p', k),
           p'.unanswered = p.unanswered, CmdOK(p', k, Then'),
           state' \in [Chans -> States], \A d \in Chans : d # c => state'[d] = state[d],
           state'[c] \in {state[c], "Disconnected"} \/ p.cmd[k].handler = "redirect",
           inq' \in [Chans -> Seq(Message)], \A d \in Chans : d # c => inq'[d] = inq[d],
           inq'[c] = << >> \/ (state'[c] # "Disconnected" /\ inq'[c] = Tail(inq[c])),
           (loop' = NULL /\ state'[c] # "Disconnected") \/ loop' \in {ClosedLoop(c, NULL), ClosedLoop(c, k)},
           list' = list, hello' = hello, broken' = broken
    PROVE  IInv'
<1>0. /\ p \in ProtocolRec /\ list \in [Chans -> BOOLEAN]
      /\ inq \in [Chans -> Seq(Message)] /\ hello \in [Chans -> BOOLEAN] /\ TableOK(p)
      /\ Redirects /\ Mail /\ broken = {} /\ loop = NULL /\ Idle
  BY DEF IInv, TypeOK, Handling, Idle
<1>1. Open /\ (\A l \in Cmds : l # NULL /\ CmdOK(p, l, NULL))
  BY <1>0, IdleOpen
<1>2. Handling(c, {"R", "P"}) /\ Head(inq[c]).type = "R"
  BY DEF Handling
<1>3. /\ inq[c] # << >> /\ k = Head(inq[c]).of /\ InTable(p, k) /\ p.cmd[k].c = c /\ k \notin p.unanswered
      /\ state[c] # "Disconnected"
  BY <1>2, HeadFacts
<1>4. \A l \in Cmds : l # k => p'.cmd[l] = p.cmd[l] /\ (InTable(p', l) <=> InTable(p, l))
  BY DEF OnlyCmd
<1>5. \A l \in Cmds : InTable(p, l) => p.cmd[l].c \in Chans
  BY <1>0, HomeFacts
<1>6. \A l \in Cmds : InTable(p', l) => l # k /\ InTable(p, l) /\ p'.cmd[l] = p.cmd[l]
                                       /\ state[p.cmd[l].c] # "Disconnected"
  BY <1>1, <1>4 DEF Open
<1>7. ClosedAhead' /\ LoopOK' /\ Then' \in {NULL, k}
  <2>1. CASE loop' = NULL /\ state'[c] # "Disconnected"
    <3>1. Open'
      BY <1>5, <1>6, <2>1 DEF Open
    <3>2. LoopOK' /\ Then' = NULL
      BY <2>1 DEF LoopOK, Then
    <3> QED BY <3>1, <3>2, OpenAhead
  <2>2. CASE loop' \in {ClosedLoop(c, NULL), ClosedLoop(c, k)}
    <3>1. \A l \in Cmds : InTable(p', l) /\ state'[p'.cmd[l].c] = "Disconnected" => p'.cmd[l].c = c
      BY <1>5, <1>6
    <3>2. PICK x \in Cmds \cup {NULL} : x \in {NULL, k} /\ loop' = ClosedLoop(c, x)
      BY <2>2
    <3>3. ClosedAhead' /\ LoopOK' /\ Then' = x
      BY <3>1, <3>2, ClosedStart
    <3> QED BY <3>2, <3>3
  <2> QED BY <2>1, <2>2
<1>8. \A l \in Cmds : CmdOK(p', l, Then')
  <2>1. PICK x : x = Then' /\ x \in {NULL, k}
    BY <1>7
  <2>2. CmdOK(p', k, x) /\ \A l \in Cmds : l # k => (x = l <=> NULL = l)
    BY <1>1, <2>1
  <2>3. \A l \in Cmds : CmdOK(p', l, x)
    BY ZenonT(30), <1>1, <2>2, CommandsKept
  <2> QED BY <2>1, <2>3
<1>9. Redirects'
  <2>1. ASSUME NEW l \in Cmds, IsRedirect(p', l)
        PROVE  /\ IsRedirect(p, l) /\ p'.cmd[l].c = p.cmd[l].c
               /\ state'[p.cmd[l].c] \in {"RedirectSent", "Disconnected"}
    <3>1. l # k /\ IsRedirect(p, l) /\ p'.cmd[l] = p.cmd[l] /\ p.cmd[l].c \in Chans
      BY <1>5, <1>6, <2>1 DEF IsRedirect
    <3>2. state[p.cmd[l].c] \in {"RedirectSent", "Disconnected"}
      BY <1>0, <3>1 DEF Redirects
    <3>3. CASE p.cmd[l].c # c
      BY <3>1, <3>2, <3>3
    <3>4. CASE p.cmd[l].c = c
      <4>1. ~IsRedirect(p, k)
        BY <1>0, <1>3, <3>1, <3>4 DEF Redirects
      <4>2. p.cmd[k].handler # "redirect"
        BY <1>3, <4>1 DEF IsRedirect
      <4> QED BY <3>1, <3>2, <3>4, <4>2
    <3> QED BY <3>3, <3>4
  <2> QED BY <1>0, <2>1, RedirectsKept
<1>10. Mail'
  <2>1. BoxOK(p', c, inq'[c])
    <3>1. CASE inq'[c] = << >>
      BY <3>1, BoxEmpty
    <3>2. CASE inq'[c] = Tail(inq[c])
      <4>1. PICK box \in Seq(Message) : box = inq[c] /\ BoxOK(p, c, box)
        BY <1>0 DEF Mail
      <4>2. \A l \in Cmds : InTable(p, l) /\ p.cmd[l].c = c /\ (Head(box).type = "R" => l # Head(box).of) =>
              /\ InTable(p', l) /\ p'.cmd[l].c = c /\ p'.cmd[l].tokenid = p.cmd[l].tokenid
              /\ l \in p'.unanswered => l \in p.unanswered
        BY <1>2, <1>3, <1>4, <4>1
      <4>3. BoxOK(p', c, Tail(box))
        BY <1>3, <4>1, <4>2, BoxTail
      <4> QED BY <3>2, <4>1, <4>3
    <3> QED BY <3>1, <3>2
  <2>2. ASSUME NEW d \in Chans, d # c PROVE BoxOK(p', d, inq[d])
    <3>1. BoxOK(p, d, inq[d])
      BY <1>0 DEF Mail
    <3>2. \A l \in Cmds : InTable(p, l) /\ p.cmd[l].c = d =>
            /\ InTable(p', l) /\ p'.cmd[l].c = d /\ p'.cmd[l].tokenid = p.cmd[l].tokenid
            /\ l \in p'.unanswered => l \in p.unanswered
      BY <1>3, <1>4, <2>2
    <3> QED BY <3>1, <3>2, BoxMoves
  <2>3. \A d \in Chans : BoxOK(p', d, inq'[d])
    BY <2>1, <2>2
  <2>4. \A d \in Chans : state'[d] = "Disconnected" => inq'[d] = << >>
    BY <1>0 DEF Mail
  <2>5. ASSUME NEW l \in p'.unanswered, state'[p'.cmd[l].c] # "Disconnected" PROVE InTable(p', l)
    <3>1. l \in Cmds /\ l # k /\ p'.cmd[l] = p.cmd[l] /\ p.cmd[l].c \in Chans
      BY <1>0, <1>1, <1>3, <1>4, RecFields DEF CmdOK
    <3>2. state[p.cmd[l].c] # "Disconnected"
      BY <1>3, <2>5, <3>1
    <3> QED BY <1>0, <1>4, <3>1, <3>2 DEF Mail
  <2> QED BY <2>3, <2>4, <2>5 DEF Mail
<1> QED BY <1>0, <1>7, <1>8, <1>9, <1>10, Whole

\* Messages of a channel after one was handled, and after the channel closed.
LEMMA InboxTypes ==
    ASSUME inq \in [Chans -> Seq(Message)], state \in [Chans -> States], NEW c \in Chans, inq[c] # << >>
    PROVE  /\ Consumed(c) => /\ inq' \in [Chans -> Seq(Message)] /\ inq'[c] = Tail(inq[c])
                             /\ \A d \in Chans : d # c => inq'[d] = inq[d]
           /\ StartClose(c) => /\ inq' \in [Chans -> Seq(Message)] /\ inq'[c] = << >>
                               /\ \A d \in Chans : d # c => inq'[d] = inq[d]
                               /\ state' \in [Chans -> States] /\ state'[c] = "Disconnected"
                               /\ \A d \in Chans : d # c => state'[d] = state[d]
                               /\ loop' = ClosedLoop(c, NULL)
<1>1. inq[c] \in Seq(Message) /\ Tail(inq[c]) \in Seq(Message)
  OBVIOUS
<1>2. Consumed(c) => /\ inq' \in [Chans -> Seq(Message)] /\ inq'[c] = Tail(inq[c])
                     /\ \A d \in Chans : d # c => inq'[d] = inq[d]
  BY <1>1 DEF Consumed
<1>3. StartClose(c) => /\ inq' \in [Chans -> Seq(Message)] /\ inq'[c] = << >>
                       /\ \A d \in Chans : d # c => inq'[d] = inq[d]
  BY DEF StartClose
<1>4. StartClose(c) => /\ state' \in [Chans -> States] /\ state'[c] = "Disconnected"
                       /\ \A d \in Chans : d # c => state'[d] = state[d]
                       /\ loop' = ClosedLoop(c, NULL)
  BY DEF StartClose, States
<1> QED BY <1>2, <1>3, <1>4

\* The command that a reply is taken for, and its life until then.
LEMMA TakenEntry ==
    ASSUME IInv, NEW c \in Chans, Answered(c), NEW k \in Cmds, k = Entry(c)
    PROVE  /\ Taken(p, k) \in ProtocolRec /\ TableOK(Taken(p, k)) /\ OnlyCmd(p, Taken(p, k), k)
           /\ ~InTable(Taken(p, k), k) /\ Taken(p, k).cmd = p.cmd
           /\ Taken(p, k).unanswered = p.unanswered /\ k \notin p.unanswered /\ p.cmd[k].c = c
           /\ p.cmd[k].handler # "null" => p.cmd[k].st = "sent" /\ p.cmd[k].calls = 0
           /\ p.cmd[k].st \in {"sent", "done"} /\ CmdOK(p, k, NULL) /\ k # NULL /\ loop = NULL
           /\ p.cmd[k].handler = "redirect" => state[c] = "RedirectSent"
<1>1. Handling(c, {"R", "P"}) /\ Head(inq[c]).type = "R" /\ Idle /\ p \in ProtocolRec /\ TableOK(p) /\ Redirects
  BY DEF Answered, Handling, IInv, TypeOK
<1>2. InTable(p, k) /\ p.cmd[k].c = c /\ k \notin p.unanswered /\ state[c] # "Disconnected" /\ k # NULL
  BY <1>1, HeadFacts
<1>3. /\ Taken(p, k) \in ProtocolRec /\ TableOK(Taken(p, k))
      /\ \A l \in Cmds : InTable(Taken(p, k), l) <=> InTable(p, l) /\ l # k
      /\ Taken(p, k).cmd = p.cmd /\ Taken(p, k).unanswered = p.unanswered
  BY <1>1, <1>2, TakenFacts
<1>4. OnlyCmd(p, Taken(p, k), k)
  BY <1>3 DEF OnlyCmd
<1>5. CmdOK(p, k, NULL) /\ p.cmd[k].st \in {"new", "sent", "failed", "done", "lost"}
  BY <1>1, IdleOpen, RecFields, CmdFields
<1>6. p.cmd[k].st \in {"sent", "done"} /\ (p.cmd[k].handler # "null" => p.cmd[k].st = "sent")
  BY <1>2, <1>5 DEF CmdOK
<1>7. p.cmd[k].st = "sent" => p.cmd[k].calls = 0
  BY <1>5 DEF CmdOK
<1>8. p.cmd[k].handler = "redirect" => state[c] = "RedirectSent"
  BY <1>1, <1>2 DEF Redirects, IsRedirect
<1> QED BY <1>1, <1>2, <1>3, <1>4, <1>5, <1>6, <1>7, <1>8 DEF Idle

\* A reply to a command of a client.
LEMMA HandleReplyKeeps ==
    ASSUME IInv, NEW c \in Chans, HandleReply(c)
    PROVE  IInv'
<1>0. /\ state \in [Chans -> States] /\ inq \in [Chans -> Seq(Message)] /\ p \in ProtocolRec
      /\ Answered(c) /\ Handling(c, {"R"}) /\ inq[c] # << >>
  BY DEF HandleReply, Answered, Handling, IInv, TypeOK
<1>1. PICK k \in Cmds : k = Entry(c) /\ Origin(c) = "own" /\ state[c] # "Disconnected"
  <2>1. Handling(c, {"R", "P"})
    BY <1>0 DEF Handling
  <2> QED BY <2>1, HeadFacts
<1>2. PICK q \in ProtocolRec : q = Taken(p, k) /\ TableOK(q) /\ OnlyCmd(p, q, k) /\ ~InTable(q, k)
                               /\ q.cmd = p.cmd /\ q.unanswered = p.unanswered
  BY <1>0, <1>1, TakenEntry
<1>3. /\ k \notin p.unanswered /\ p.cmd[k].handler = "client" /\ p.cmd[k].calls = 0
      /\ p.cmd[k].c = c /\ loop = NULL /\ k # NULL
  BY <1>0, <1>1, TakenEntry DEF HandleReply
<1>4. p' = Called(q, k, "own") /\ list' = list /\ hello' = hello /\ broken' = broken
  BY <1>1, <1>2 DEF HandleReply
<1>5. SameTable(q, p', k) /\ IsCmd(p'.cmd[k], "done", c, "client", 1, "own")
  BY <1>2, <1>3, <1>4, CalledFacts
<1>6. /\ p' \in ProtocolRec /\ TableOK(p') /\ OnlyCmd(p, p', k) /\ ~InTable(p', k)
      /\ p'.unanswered = p.unanswered
  BY <1>2, <1>5 DEF SameTable, OnlyCmd
<1>7. \A then : then # k => CmdOK(p', k, then)
  BY <1>3, <1>5, <1>6 DEF CmdOK, IsCmd
<1>8. CASE Consumed(c) /\ UNCHANGED <<state, loop>>
  <2>1. Then' # k
    BY <1>3, <1>8 DEF Then
  <2> QED BY <1>0, <1>1, <1>3, <1>4, <1>6, <1>7, <1>8, <2>1, InboxTypes, AnswerKeeps
<1>9. CASE StartClose(c)
  <2>1. loop' = ClosedLoop(c, NULL)
    BY <1>9 DEF StartClose
  <2>2. Then' # k
    BY <1>3, <2>1 DEF Then, ClosedLoop
  <2> QED BY <1>0, <1>1, <1>3, <1>4, <1>6, <1>7, <1>9, <2>1, <2>2, InboxTypes, AnswerKeeps
<1> QED BY <1>8, <1>9 DEF HandleReply

\* The late reply to a command that was given up.
LEMMA HandleLateReplyKeeps ==
    ASSUME IInv, NEW c \in Chans, HandleLateReply(c)
    PROVE  IInv'
<1>0. /\ state \in [Chans -> States] /\ inq \in [Chans -> Seq(Message)] /\ p \in ProtocolRec
      /\ Answered(c) /\ Handling(c, {"R"}) /\ inq[c] # << >>
  BY DEF HandleLateReply, Answered, Handling, IInv, TypeOK
<1>1. PICK k \in Cmds : k = Entry(c) /\ Origin(c) = "own" /\ state[c] # "Disconnected"
  <2>1. Handling(c, {"R", "P"})
    BY <1>0 DEF Handling
  <2> QED BY <2>1, HeadFacts
<1>2. /\ p' = Taken(p, k) /\ Consumed(c) /\ state' = state /\ list' = list /\ hello' = hello
      /\ loop' = loop /\ broken' = broken /\ p.cmd[k].handler = "null"
  BY <1>1 DEF HandleLateReply
<1>3. /\ p' \in ProtocolRec /\ TableOK(p') /\ OnlyCmd(p, p', k) /\ ~InTable(p', k)
      /\ p'.cmd = p.cmd /\ p'.unanswered = p.unanswered
      /\ CmdOK(p, k, NULL) /\ loop = NULL /\ k # NULL /\ p.cmd[k].st \in {"sent", "done"}
  BY <1>0, <1>1, <1>2, TakenEntry
<1>4. Then' = NULL
  BY <1>2, <1>3 DEF Then
<1>5. CmdOK(p', k, Then')
  BY <1>2, <1>3, <1>4 DEF CmdOK
<1> QED BY <1>0, <1>1, <1>2, <1>3, <1>5, InboxTypes, AnswerKeeps

\* The reply to a redirection.
LEMMA HandleRedirectedKeeps ==
    ASSUME IInv, NEW c \in Chans, HandleRedirected(c)
    PROVE  IInv'
<1>0. /\ state \in [Chans -> States] /\ inq \in [Chans -> Seq(Message)] /\ p \in ProtocolRec
      /\ Answered(c) /\ Handling(c, {"R"}) /\ inq[c] # << >>
  BY DEF HandleRedirected, Answered, Handling, IInv, TypeOK
<1>1. PICK k \in Cmds : k = Entry(c) /\ Origin(c) = "own" /\ state[c] # "Disconnected"
  <2>1. Handling(c, {"R", "P"})
    BY <1>0 DEF Handling
  <2> QED BY <2>1, HeadFacts
<1>2. PICK q \in ProtocolRec : q = Taken(p, k) /\ TableOK(q) /\ OnlyCmd(p, q, k) /\ ~InTable(q, k)
                               /\ q.cmd = p.cmd /\ q.unanswered = p.unanswered
  BY <1>0, <1>1, TakenEntry
<1>3. /\ k \notin p.unanswered /\ p.cmd[k].handler = "redirect" /\ p.cmd[k].calls = 0 /\ p.cmd[k].st = "sent"
      /\ p.cmd[k].c = c /\ loop = NULL /\ k # NULL /\ state[c] = "RedirectSent"
  BY <1>0, <1>1, TakenEntry DEF HandleRedirected
<1>4. list' = list /\ hello' = hello /\ broken' = broken
  BY <1>3 DEF HandleRedirected
<1>5. CASE /\ Consumed(c) /\ ~Head(inq[c]).error /\ state' = [state EXCEPT ![c] = "HelloSent"]
           /\ p' = [Taken(p, Entry(c)) EXCEPT !.cmd[Entry(c)].got = Origin(c)]
           /\ loop' = ClosedLoop(c, Entry(c))
  <2>1. /\ state' = [state EXCEPT ![c] = "HelloSent"] /\ loop' = ClosedLoop(c, k)
        /\ p' = WithGot(q, k, "own")
    BY <1>1, <1>2, <1>5 DEF WithGot
  <2>2. SameTable(q, p', k) /\ IsCmd(p'.cmd[k], "sent", c, "redirect", 0, "own")
    BY <1>2, <1>3, <2>1, GotFacts
  <2>3. /\ p' \in ProtocolRec /\ TableOK(p') /\ OnlyCmd(p, p', k) /\ ~InTable(p', k)
        /\ p'.unanswered = p.unanswered
    BY <1>2, <2>2 DEF SameTable, OnlyCmd
  <2>4. Then' = k
    <3>1. loop' \in [c : Chans, bucket : Nat, at : Cmds \cup {NULL}, then : Cmds \cup {NULL}] /\ loop'.then = k
      BY <2>1 DEF ClosedLoop
    <3>2. loop' # NULL
      BY <3>1, NullAssumption
    <3> QED BY <3>1, <3>2 DEF Then
  <2>5. CmdOK(p', k, Then')
    BY <1>3, <2>2, <2>3, <2>4 DEF CmdOK, IsCmd
  <2>6. /\ state' \in [Chans -> States] /\ state'[c] = "HelloSent"
        /\ \A d \in Chans : d # c => state'[d] = state[d]
    BY <1>0, <2>1 DEF States
  <2> QED BY <1>0, <1>1, <1>3, <1>4, <1>5, <2>1, <2>3, <2>5, <2>6, InboxTypes, AnswerKeeps
<1>6. CASE /\ Consumed(c) /\ Head(inq[c]).error /\ state' = [state EXCEPT ![c] = "Connected"]
           /\ p' = Called(Taken(p, Entry(c)), Entry(c), Origin(c)) /\ UNCHANGED loop
  <2>1. /\ state' = [state EXCEPT ![c] = "Connected"] /\ loop' = loop
        /\ p' = Called(q, k, "own")
    BY <1>1, <1>2, <1>6
  <2>2. SameTable(q, p', k) /\ IsCmd(p'.cmd[k], "done", c, "redirect", 1, "own")
    BY <1>2, <1>3, <2>1, CalledFacts
  <2>3. /\ p' \in ProtocolRec /\ TableOK(p') /\ OnlyCmd(p, p', k) /\ ~InTable(p', k)
        /\ p'.unanswered = p.unanswered
    BY <1>2, <2>2 DEF SameTable, OnlyCmd
  <2>4. Then' = NULL
    BY <1>3, <2>1 DEF Then
  <2>5. CmdOK(p', k, Then')
    BY <1>3, <2>2, <2>3, <2>4 DEF CmdOK, IsCmd
  <2>6. /\ state' \in [Chans -> States] /\ state'[c] = "Connected"
        /\ \A d \in Chans : d # c => state'[d] = state[d]
    BY <1>0, <2>1 DEF States
  <2> QED BY <1>0, <1>1, <1>3, <1>4, <1>6, <2>1, <2>3, <2>5, <2>6, InboxTypes, AnswerKeeps
<1>7. CASE StartClose(c) /\ p' = Lost(Taken(p, Entry(c)), Entry(c))
  <2>1. SameTable(q, p', k) /\ IsCmd(p'.cmd[k], "lost", c, "redirect", 0, p.cmd[k].got)
    BY <1>1, <1>2, <1>3, <1>7, LostFacts
  <2>2. /\ p' \in ProtocolRec /\ TableOK(p') /\ OnlyCmd(p, p', k) /\ ~InTable(p', k)
        /\ p'.unanswered = p.unanswered
    BY <1>2, <2>1 DEF SameTable, OnlyCmd
  <2>3. loop' = ClosedLoop(c, NULL)
    BY <1>7 DEF StartClose
  <2>4. Then' # k
    BY <1>3, <2>3 DEF Then, ClosedLoop
  <2>5. p.cmd[k].got # "other"
    BY <1>0, <1>1, TakenEntry DEF CmdOK
  <2>6. CmdOK(p', k, Then')
    BY <1>3, <2>1, <2>2, <2>4, <2>5 DEF CmdOK, IsCmd
  <2> QED BY <1>0, <1>1, <1>3, <1>4, <1>7, <2>2, <2>3, <2>6, InboxTypes, AnswerKeeps
<1> QED BY <1>5, <1>6, <1>7 DEF HandleRedirected

\* handle_protocol_message() for replies and progress: a peer that follows the
\* protocol is never cut off.
LEMMA HandleTokenKeeps ==
    ASSUME IInv, NEW c \in Chans, HandleToken(c)
    PROVE  IInv'
<1>1. Entry(c) # NULL
  BY HeadFacts DEF HandleToken
<1>2. ASSUME HandleProgress(c) PROVE IInv'
  <2>1. /\ Idle /\ inq[c] # << >> /\ Head(inq[c]).type # "R" /\ inq' = [inq EXCEPT ![c] = Tail(@)]
        /\ p' = p /\ state' = state /\ list' = list /\ hello' = hello /\ loop' = loop /\ broken' = broken
    BY <1>2 DEF HandleProgress, Handling, Consumed, Takes
  <2>2. state \in [Chans -> States] /\ list \in [Chans -> BOOLEAN]
    BY DEF IInv, TypeOK
  <2> QED BY <2>1, <2>2, StateKeeps
<1> QED BY <1>1, <1>2, HandleReplyKeeps, HandleLateReplyKeeps, HandleRedirectedKeeps DEF HandleToken

-----------------------------------------------------------------------------
(* The loop of channel_closed().                                              *)

\* Where the loop is.
LEMMA LoopFacts ==
    ASSUME IInv, ~Idle
    PROVE  /\ loop \in LoopRec /\ loop # NULL /\ Then = loop.then
           /\ loop.c \in Chans /\ loop.bucket \in Buckets /\ loop.then \in Cmds \cup {NULL}
           /\ Bucket \in Seq(Cmds) /\ NoRepeat(Bucket)
           /\ AtIndex \in 0..Len(Bucket) /\ (loop.at # NULL => Bucket[AtIndex] = loop.at /\ AtIndex # 0)
           /\ \A k \in Cmds : k # NULL /\ CmdOK(p, k, loop.then)
<1>1. loop # NULL /\ loop \in LoopRec /\ p \in ProtocolRec /\ TableOK(p)
      /\ (loop.at # NULL => loop.at \in ToSet(p.handlers[loop.bucket])) /\ Commands
  BY DEF IInv, LoopOK, TypeOK, Idle
<1>2. loop.c \in Chans /\ loop.bucket \in Buckets /\ loop.then \in Cmds \cup {NULL}
  BY <1>1 DEF LoopRec
<1>3. Bucket \in Seq(Cmds) /\ NoRepeat(Bucket)
  BY <1>1, <1>2, RecFields DEF Bucket, TableOK
<1>4. Then = loop.then /\ \A k \in Cmds : CmdOK(p, k, loop.then)
  BY <1>1 DEF Then, Commands
<1>5. CASE loop.at = NULL
  <2>1. AtIndex = 0
    BY <1>5 DEF AtIndex, Upto
  <2> QED BY <1>1, <1>2, <1>3, <1>4, <1>5, <2>1, ConstantAssumption
<1>6. CASE loop.at # NULL
  <2>1. AtIndex = Pos(Bucket, loop.at) /\ loop.at \in ToSet(Bucket)
    BY <1>1, <1>6 DEF AtIndex, Upto, Bucket
  <2>2. AtIndex \in 1..Len(Bucket) /\ Bucket[AtIndex] = loop.at
    BY <1>3, <2>1, PosFacts
  <2> QED BY <1>1, <1>2, <1>3, <1>4, <2>2, ConstantAssumption
<1> QED BY <1>5, <1>6

\* What is before the loop in its bucket.
LEMMA AheadHere ==
    ASSUME NEW k, loop.bucket \in Buckets, HomeOf(p.cmd, k) = loop.bucket
    PROVE  Ahead(k) <=> Pos(Bucket, k) > AtIndex
<1>1. PICK b \in Int : b = loop.bucket /\ b = HomeOf(p.cmd, k)
  BY DEF Buckets
<1>2. ~(HomeOf(p.cmd, k) > loop.bucket)
  BY <1>1
<1> QED BY <1>2 DEF Ahead, Bucket

\* A step of the loop that changes nothing but the loop.
LEMMA LoopOnlyKeeps ==
    ASSUME IInv, ~Idle, p' = p, state' = state, list' = list, inq' = inq, hello' = hello, broken' = broken,
           loop' \in LoopRec, loop'.c = loop.c, loop'.then = loop.then,
           loop'.at # NULL => loop'.at \in ToSet(p.handlers[loop'.bucket]),
           \A k \in Cmds : InTable(p, k) /\ p.cmd[k].c = loop.c /\ Ahead(k) => Ahead(k)'
    PROVE  IInv'
<1>0. /\ p \in ProtocolRec /\ state \in [Chans -> States] /\ list \in [Chans -> BOOLEAN]
      /\ inq \in [Chans -> Seq(Message)] /\ hello \in [Chans -> BOOLEAN] /\ TableOK(p)
      /\ Redirects /\ Mail /\ broken = {} /\ ClosedAhead
  BY DEF IInv, TypeOK
<1>1. \A k \in Cmds : CmdOK(p, k, loop.then)
  BY LoopFacts
<1>2. loop' # NULL
  BY NullAssumption DEF LoopRec, Buckets
<1>3. LoopOK' /\ Then' = loop.then
  BY <1>2 DEF LoopOK, Then
<1>4. ClosedAhead'
  BY <1>0, <1>2 DEF ClosedAhead
<1>5. Redirects' /\ Mail'
  BY <1>0 DEF Redirects, Mail
<1> QED BY <1>0, <1>1, <1>3, <1>4, <1>5, Whole

\* The next bucket.
LEMMA LoopNextBucketKeeps ==
    ASSUME IInv, LoopNextBucket
    PROVE  IInv'
<1>0. ~Idle /\ HashSize \in Nat /\ p \in ProtocolRec /\ TableOK(p)
  BY ConstantAssumption DEF LoopNextBucket, IInv, TypeOK
<1>1. /\ loop \in LoopRec /\ loop.c \in Chans /\ loop.bucket \in Buckets /\ loop.then \in Cmds \cup {NULL}
      /\ Bucket \in Seq(Cmds) /\ AtIndex = Len(Bucket) /\ loop.bucket < HashSize - 1
  BY <1>0, LoopFacts DEF LoopNextBucket
<1>2. loop' = [loop EXCEPT !.bucket = loop.bucket + 1, !.at = NULL] /\ loop.bucket + 1 \in Buckets
  BY <1>0, <1>1 DEF LoopNextBucket, Buckets
<1>3. /\ loop' \in LoopRec /\ loop'.c = loop.c /\ loop'.then = loop.then /\ loop'.at = NULL
      /\ loop'.bucket = loop.bucket + 1
  BY <1>1, <1>2 DEF LoopRec
<1>4. AtIndex' = 0 /\ p' = p
  BY <1>3 DEF AtIndex, Upto, LoopNextBucket
<1>5. ASSUME NEW k \in Cmds, InTable(p, k), Ahead(k) PROVE Ahead(k)'
  <2>1. HomeOf(p.cmd, k) \in Buckets /\ k \in ToSet(p.handlers[HomeOf(p.cmd, k)])
    BY <1>0, <1>5, HomeFacts
  <2>2. PICK h \in Buckets : h = HomeOf(p.cmd, k)
    BY <2>1
  <2>3. p.handlers[h] \in Seq(Cmds) /\ Pos(p.handlers[h], k) \in 1..Len(p.handlers[h])
    BY <1>0, <2>1, <2>2, RecFields, PosFacts
  <2>4. h > loop.bucket
    <3>1. CASE h = loop.bucket
      <4>1. Pos(Bucket, k) \in 1..Len(Bucket)
        BY <2>3, <3>1 DEF Bucket
      <4>2. Pos(Bucket, k) > AtIndex
        BY <1>1, <1>5, <2>2, <3>1, AheadHere
      <4> QED BY <1>1, <4>1, <4>2
    <3>2. CASE h # loop.bucket
      BY <1>5, <2>2, <3>2 DEF Ahead
    <3> QED BY <3>1, <3>2
  <2>5. Pos(p.handlers[h], k) > 0
    BY <2>3
  <2>6. CASE h = loop.bucket + 1
    <3>1. HomeOf(p'.cmd, k) = loop'.bucket /\ Pos(p'.handlers[loop'.bucket], k) > AtIndex'
      BY <1>3, <1>4, <2>2, <2>5, <2>6
    <3> QED BY <3>1 DEF Ahead
  <2>7. CASE h # loop.bucket + 1
    <3>1. HomeOf(p'.cmd, k) > loop'.bucket
      BY <1>0, <1>1, <1>3, <1>4, <2>2, <2>4, <2>7 DEF Buckets
    <3> QED BY <3>1 DEF Ahead
  <2> QED BY <2>6, <2>7
<1> QED BY <1>0, <1>3, <1>5, LoopOnlyKeeps DEF LoopNextBucket

\* An entry of another channel.
LEMMA LoopSkipKeeps ==
    ASSUME IInv, LoopSkip
    PROVE  IInv'
<1>0. ~Idle /\ p \in ProtocolRec /\ TableOK(p)
  BY DEF LoopSkip, IInv, TypeOK
<1>1. /\ loop \in LoopRec /\ loop.c \in Chans /\ loop.bucket \in Buckets /\ loop.then \in Cmds \cup {NULL}
      /\ Bucket \in Seq(Cmds) /\ NoRepeat(Bucket) /\ AtIndex \in 0..Len(Bucket) /\ AtIndex < Len(Bucket)
      /\ \A k \in Cmds : k # NULL
  BY <1>0, LoopFacts DEF LoopSkip
<1>2. PICK i \in 1..Len(Bucket) : i = AtIndex + 1
  BY <1>1
<1>3. PICK k \in Cmds : k = Bucket[i] /\ k \in ToSet(Bucket) /\ Pos(Bucket, k) = i
  BY <1>1, PosUnique
<1>4. loop' = [loop EXCEPT !.at = k] /\ p.cmd[k].c # loop.c /\ p' = p
  BY <1>2, <1>3 DEF LoopSkip
<1>5. /\ loop' \in LoopRec /\ loop'.c = loop.c /\ loop'.then = loop.then /\ loop'.at = k
      /\ loop'.bucket = loop.bucket
  BY <1>1, <1>4 DEF LoopRec
<1>6. AtIndex' = i /\ Bucket' = Bucket
  BY <1>1, <1>3, <1>4, <1>5 DEF AtIndex, Upto, Bucket
<1>7. ASSUME NEW l \in Cmds, InTable(p, l), p.cmd[l].c = loop.c, Ahead(l) PROVE Ahead(l)'
  <2>1. HomeOf(p.cmd, l) \in Buckets /\ l \in ToSet(p.handlers[HomeOf(p.cmd, l)])
    BY <1>0, <1>7, HomeFacts
  <2>2. CASE HomeOf(p.cmd, l) = loop.bucket
    <3>1. l \in ToSet(Bucket)
      BY <2>1, <2>2 DEF Bucket
    <3>2. Pos(Bucket, l) \in 1..Len(Bucket) /\ Bucket[Pos(Bucket, l)] = l
      BY <1>1, <3>1, PosFacts
    <3>3. Pos(Bucket, l) > AtIndex
      BY <1>1, <1>7, <2>2, AheadHere
    <3>4. Pos(Bucket, l) # i
      BY <1>3, <1>4, <1>7, <3>2
    <3>5. Pos(Bucket, l) > i
      BY <1>1, <1>2, <3>2, <3>3, <3>4
    <3> QED BY <1>4, <1>5, <1>6, <2>2, <3>5 DEF Ahead, Bucket
  <2>3. CASE HomeOf(p.cmd, l) # loop.bucket
    BY <1>4, <1>5, <1>7, <2>3 DEF Ahead
  <2> QED BY <2>2, <2>3
<1>8. loop'.at \in ToSet(p.handlers[loop'.bucket])
  BY <1>3, <1>5 DEF Bucket
<1> QED BY <1>0, <1>5, <1>7, <1>8, LoopOnlyKeeps DEF LoopSkip

\* At the end of the loop the table has no entry of a closed channel.
LEMMA LoopEndOpen ==
    ASSUME IInv, ~Idle, AtIndex = Len(Bucket), loop.bucket = HashSize - 1
    PROVE  Open
<1> SUFFICES ASSUME NEW k \in Cmds, InTable(p, k), state[p.cmd[k].c] = "Disconnected" PROVE FALSE
  BY DEF Open
<1>1. Ahead(k) /\ p \in ProtocolRec /\ TableOK(p) /\ HashSize \in Nat
  BY ConstantAssumption DEF IInv, ClosedAhead, TypeOK
<1>2. HomeOf(p.cmd, k) \in Buckets /\ k \in ToSet(p.handlers[HomeOf(p.cmd, k)])
  BY <1>1, HomeFacts
<1>3. loop.bucket \in Buckets /\ Bucket \in Seq(Cmds)
  BY LoopFacts
<1>4. ~(HomeOf(p.cmd, k) > loop.bucket)
  BY <1>1, <1>2 DEF Buckets
<1>5. HomeOf(p.cmd, k) = loop.bucket
  BY <1>1, <1>4 DEF Ahead
<1>6. Pos(Bucket, k) > AtIndex
  BY <1>1, <1>3, <1>5, AheadHere
<1>7. k \in ToSet(Bucket)
  BY <1>2, <1>5 DEF Bucket
<1>8. Pos(Bucket, k) \in 1..Len(Bucket)
  BY <1>3, <1>7, PosFacts
<1> QED BY <1>6, <1>8

\* The end of channel_closed(), and of redirect_done().
LEMMA LoopEndKeeps ==
    ASSUME IInv, LoopEnd
    PROVE  IInv'
<1>0. /\ p \in ProtocolRec /\ state \in [Chans -> States] /\ list \in [Chans -> BOOLEAN]
      /\ inq \in [Chans -> Seq(Message)] /\ hello \in [Chans -> BOOLEAN] /\ TableOK(p)
      /\ Redirects /\ Mail /\ broken = {} /\ ~Idle
  BY DEF IInv, TypeOK, LoopEnd
<1>1. /\ state' = state /\ inq' = inq /\ hello' = hello /\ broken' = broken /\ loop' = NULL
      /\ list' \in [Chans -> BOOLEAN]
  BY <1>0 DEF LoopEnd
<1>2. Open
  BY <1>0, LoopEndOpen DEF LoopEnd
<1>3. LoopOK' /\ Then' = NULL
  BY <1>1 DEF LoopOK, Then
<1>4. /\ loop.then \in Cmds \cup {NULL} /\ \A k \in Cmds : k # NULL /\ CmdOK(p, k, loop.then)
  BY <1>0, LoopFacts
<1>5. \A d \in Chans : state'[d] = "Disconnected" => inq[d] = << >>
  BY <1>0, <1>1 DEF Mail
<1>6. CASE loop.then = NULL
  <2>1. p' = p
    BY <1>6 DEF LoopEnd
  <2>2. Open' /\ Redirects' /\ Mail'
    BY <1>0, <1>1, <1>2, <2>1 DEF Open, Redirects, Mail
  <2> QED BY <1>0, <1>1, <1>3, <1>4, <1>6, <2>1, <2>2, OpenAhead, Whole
<1>7. CASE loop.then # NULL
  <2>1. PICK k \in Cmds : k = loop.then /\ k # NULL
    BY <1>4, <1>7
  <2>2. PICK what \in {"none", "own", "closed"} : what = p.cmd[k].got
    <3>1. p.cmd[k].got \in {"none", "own", "other", "closed"} /\ p.cmd[k].got # "other"
      BY <1>0, <1>4, RecFields, CmdFields DEF CmdOK
    <3> QED BY <3>1
  <2>3. p' = Called(p, k, what)
    BY <1>7, <2>1, <2>2 DEF LoopEnd
  <2>4. p.cmd[k].st = "sent" /\ ~InTable(p, k) /\ p.cmd[k].calls = 0
    BY <1>4, <2>1 DEF CmdOK
  <2>5. SameTable(p, p', k) /\ IsCmd(p'.cmd[k], "done", p.cmd[k].c, p.cmd[k].handler, 0 + 1, what)
    BY <1>0, <2>3, <2>4, CalledFacts
  <2>6. /\ p' \in ProtocolRec /\ TableOK(p') /\ OnlyCmd(p, p', k)
        /\ p'.unanswered = p.unanswered /\ ~InTable(p', k)
    BY <2>4, <2>5 DEF SameTable
  <2>7. p.cmd[k].c \in Chans
    BY <1>4, <2>4 DEF CmdOK
  <2>8. \A l \in Cmds : CmdOK(p', l, NULL)
    <3>1. CmdOK(p', k, NULL)
      BY <2>1, <2>2, <2>5, <2>6, <2>7 DEF CmdOK, IsCmd
    <3>2. \A l \in Cmds : l # k => (NULL = l <=> loop.then = l)
      BY <1>4, <2>1
    <3>3. PICK then : then = loop.then
      OBVIOUS
    <3> QED BY <1>4, <2>6, <3>1, <3>2, <3>3, CommandsKept
  <2>9. \A l \in Cmds : InTable(p', l) <=> InTable(p, l)
    BY <2>4, <2>6 DEF OnlyCmd
  <2>10. \A l \in Cmds : InTable(p, l) => p'.cmd[l] = p.cmd[l]
    BY <2>4, <2>6 DEF OnlyCmd
  <2>11. Open'
    BY <1>1, <1>2, <2>9, <2>10 DEF Open
  <2>12. Redirects'
    <3>1. \A l \in Cmds : IsRedirect(p', l) =>
            /\ IsRedirect(p, l) /\ p'.cmd[l].c = p.cmd[l].c
            /\ state'[p.cmd[l].c] \in {"RedirectSent", "Disconnected"}
      BY <1>0, <1>1, <2>9, <2>10 DEF Redirects, IsRedirect
    <3> QED BY <1>0, <3>1, RedirectsKept
  <2>13. Mail'
    <3>1. \A l \in p'.unanswered : l \in Cmds /\ p'.cmd[l].c = p.cmd[l].c
      BY <2>5, <2>6, RecFields DEF OnlyCmd, IsCmd
    <3>2. \A l \in p'.unanswered : state'[p'.cmd[l].c] # "Disconnected" => InTable(p', l)
      BY <1>0, <1>1, <2>6, <2>9, <3>1 DEF Mail
    <3> QED BY <1>0, <1>1, <1>5, <2>6, <2>9, <2>10, <3>2, MailKept
  <2> QED BY <1>0, <1>1, <1>3, <2>6, <2>8, <2>11, <2>12, <2>13, OpenAhead, Whole
<1> QED BY <1>6, <1>7

\* What is left of the table when the handler of k has returned: k is done, the
\* other entries are there, and the entries it added are of an open channel.
AfterCall(q, k) ==
    /\ q \in ProtocolRec /\ TableOK(q)
    /\ InTable(q, k) /\ q.cmd[k].c = loop.c /\ q.cmd[k].tokenid = p.cmd[k].tokenid
    /\ q.cmd[k].st = "done" /\ q.cmd[k].calls = 1 /\ q.cmd[k].got # "other"
    /\ k \in q.unanswered <=> k \in p.unanswered
    /\ \A l \in Cmds : l # k => CmdOK(q, l, loop.then)
    /\ \A l \in Cmds : l # k /\ InTable(p, l) =>
          InTable(q, l) /\ q.cmd[l] = p.cmd[l] /\ (l \in q.unanswered => l \in p.unanswered)
    /\ \A l \in Cmds : InTable(q, l) /\ ~InTable(p, l) =>
          q.cmd[l].c = loop.c /\ q.cmd[l].handler = "client" /\ state[loop.c] # "Disconnected"
    /\ \A l \in q.unanswered : state[q.cmd[l].c] # "Disconnected" => InTable(q, l)
    /\ Grows(p, q)
    /\ state[loop.c] = "Disconnected" => q.handlers = p.handlers

\* The handler of k was called, if it was not given up before.
LEMMA ReportedFacts ==
    ASSUME IInv, ~Idle, NEW k \in Cmds, InTable(p, k), p.cmd[k].c = loop.c,
           NEW q, q = IF p.cmd[k].handler = "null" THEN p ELSE Called(p, k, "closed")
    PROVE  AfterCall(q, k) /\ \A l \in Cmds : l # k => q.cmd[l] = p.cmd[l] /\ (InTable(q, l) <=> InTable(p, l))
<1>0. /\ p \in ProtocolRec /\ TableOK(p) /\ Mail
  BY DEF IInv, TypeOK
<1>1. CmdOK(p, k, loop.then) /\ (\A l \in Cmds : CmdOK(p, l, loop.then)) /\ loop.c \in Chans
  BY LoopFacts
<1>2. p.cmd[k].st \in {"sent", "done"}
  <2>1. p.cmd[k].st \in {"new", "sent", "failed", "done", "lost"}
    BY <1>0, RecFields, CmdFields
  <2> QED BY <1>1, <2>1 DEF CmdOK
<1>3. Grows(p, p)
  BY DEF Grows
<1>4. CASE p.cmd[k].handler = "null"
  <2>1. q = p /\ p.cmd[k].st = "done"
    BY <1>1, <1>2, <1>4 DEF CmdOK
  <2>2. p.cmd[k].calls = 1 /\ p.cmd[k].got # "other"
    BY <1>1, <2>1 DEF CmdOK
  <2>3. \A l \in p.unanswered : state[p.cmd[l].c] # "Disconnected" => InTable(p, l)
    BY <1>0 DEF Mail
  <2> QED BY <1>0, <1>1, <1>3, <2>1, <2>2, <2>3 DEF AfterCall
<1>5. CASE p.cmd[k].handler # "null"
  <2>1. q = Called(p, k, "closed") /\ p.cmd[k].st = "sent"
    BY <1>1, <1>2, <1>5 DEF CmdOK
  <2>2. p.cmd[k].calls = 0
    BY <1>1, <2>1 DEF CmdOK
  <2>3. /\ SameTable(p, q, k) /\ IsCmd(q.cmd[k], "done", p.cmd[k].c, p.cmd[k].handler, 0 + 1, "closed")
        /\ q.cmd[k].tokenid = p.cmd[k].tokenid
    BY <1>0, <2>1, <2>2, CalledFacts
  <2>4. /\ q \in ProtocolRec /\ TableOK(q) /\ OnlyCmd(p, q, k) /\ InTable(q, k)
        /\ q.handlers = p.handlers /\ q.unanswered = p.unanswered
    BY <2>3 DEF SameTable
  <2>5. \A l \in Cmds : l # k => q.cmd[l] = p.cmd[l] /\ (InTable(q, l) <=> InTable(p, l))
    BY <2>4 DEF OnlyCmd
  <2>6. q.cmd[k].c = loop.c /\ q.cmd[k].st = "done" /\ q.cmd[k].calls = 1 /\ q.cmd[k].got # "other"
    BY <2>3 DEF IsCmd
  <2>7. ASSUME NEW l \in Cmds, l # k PROVE CmdOK(q, l, loop.then)
    BY <1>1, <2>4, <2>5, <2>7 DEF CmdOK
  <2>8. ASSUME NEW l \in q.unanswered, state[q.cmd[l].c] # "Disconnected" PROVE InTable(q, l)
    <3>1. l \in Cmds /\ l \in p.unanswered
      BY <1>0, <2>4, RecFields
    <3>2. CASE l = k
      BY <2>4, <3>2
    <3>3. CASE l # k
      BY <1>0, <2>5, <2>8, <3>1, <3>3 DEF Mail
    <3> QED BY <3>2, <3>3
  <2>9. Grows(p, q)
    BY <2>4 DEF Grows
  <2>10. \A l \in Cmds : InTable(q, l) => InTable(p, l)
    BY <2>5
  <2> QED BY <2>3, <2>4, <2>5, <2>6, <2>7, <2>8, <2>9, <2>10 DEF AfterCall
<1> QED BY <1>4, <1>5

\* The handler of k sends a command on the channel.
LEMMA CallbackFacts ==
    ASSUME IInv, ~Idle, NEW k \in Cmds, InTable(p, k), NEW q, AfterCall(q, k),
           \A l \in Cmds : l # k => q.cmd[l] = p.cmd[l] /\ (InTable(q, l) <=> InTable(p, l)),
           NEW n \in New, HasToken(q, loop.c), NEW r, r = SendCommand(q, n, loop.c, "client")
    PROVE  AfterCall(r, k)
<1>0. /\ p \in ProtocolRec /\ TableOK(p) /\ n \in Cmds /\ p.cmd[n].st = "new"
  BY DEF IInv, TypeOK, New
<1>1. /\ loop.c \in Chans /\ CmdOK(p, n, loop.then)
  BY <1>0, LoopFacts
<1>2. ~InTable(p, n) /\ n \notin p.unanswered /\ n # loop.then /\ n # k
  BY <1>0, <1>1 DEF CmdOK
<1>3. q \in ProtocolRec /\ TableOK(q) /\ ~InTable(q, n) /\ q.cmd[n].st = "new"
  BY <1>0, <1>2 DEF AfterCall
<1>4. n \notin q.unanswered
  <2>1. CmdOK(q, n, loop.then)
    BY <1>0, <1>2 DEF AfterCall
  <2> QED BY <1>3, <2>1 DEF CmdOK
<1>5. CASE CanSend(loop.c)
  <2>1. /\ r \in ProtocolRec /\ TableOK(r) /\ Grows(q, r) /\ InTable(r, n) /\ OnlyCmd(q, r, n)
        /\ IsCmd(r.cmd[n], "sent", loop.c, "client", 0, "none") /\ r.unanswered = q.unanswered \cup {n}
    <3>1. PICK c \in Chans : c = loop.c
      BY <1>1
    <3> QED BY <1>0, <1>3, <1>5, <3>1, SendFacts
  <2>2. state[loop.c] # "Disconnected"
    BY <1>5 DEF CanSend
  <2>3. \A l \in Cmds : l # n => /\ r.cmd[l] = q.cmd[l] /\ (InTable(r, l) <=> InTable(q, l))
                                 /\ (l \in r.unanswered <=> l \in q.unanswered)
    BY <2>1 DEF OnlyCmd
  <2>4. r.cmd[n].c = loop.c /\ r.cmd[n].handler = "client"
    BY <2>1 DEF IsCmd
  <2>5. CmdOK(r, n, loop.then)
    BY <1>1, <1>2, <2>1 DEF CmdOK, IsCmd
  <2>6. ASSUME NEW l \in Cmds, l # k PROVE CmdOK(r, l, loop.then)
    <3>1. CASE l = n
      BY <2>5, <3>1
    <3>2. CASE l # n
      <4>1. CmdOK(q, l, loop.then)
        BY <2>6 DEF AfterCall
      <4> QED BY <2>3, <3>2, <4>1 DEF CmdOK
    <3> QED BY <3>1, <3>2
  <2>7. ASSUME NEW l \in r.unanswered, state[r.cmd[l].c] # "Disconnected" PROVE InTable(r, l)
    <3>1. l \in Cmds
      BY <2>1, RecFields
    <3> QED BY <2>1, <2>3, <2>7, <3>1 DEF AfterCall
  <2>8. Grows(p, r)
    BY <2>1 DEF AfterCall, Grows
  <2>9. /\ InTable(r, k) /\ r.cmd[k] = q.cmd[k] /\ (k \in r.unanswered <=> k \in p.unanswered)
    BY <1>2, <2>3 DEF AfterCall
  <2>10. /\ q.cmd[k].c = loop.c /\ q.cmd[k].tokenid = p.cmd[k].tokenid
         /\ q.cmd[k].st = "done" /\ q.cmd[k].calls = 1 /\ q.cmd[k].got # "other"
    BY DEF AfterCall
  <2>11. \A l \in Cmds : l # k /\ InTable(p, l) =>
          InTable(r, l) /\ r.cmd[l] = p.cmd[l] /\ (l \in r.unanswered => l \in p.unanswered)
    BY <1>2, <2>3 DEF AfterCall
  <2>12. \A l \in Cmds : InTable(r, l) /\ ~InTable(p, l) =>
          r.cmd[l].c = loop.c /\ r.cmd[l].handler = "client" /\ state[loop.c] # "Disconnected"
    BY <2>2, <2>3, <2>4 DEF AfterCall
  <2> QED BY <2>1, <2>2, <2>6, <2>7, <2>8, <2>9, <2>10, <2>11, <2>12 DEF AfterCall
<1>6. CASE ~CanSend(loop.c)
  <2>1. SameTable(q, r, n) /\ IsCmd(r.cmd[n], "failed", loop.c, "client", 0, "none")
    <3>1. PICK c \in Chans : c = loop.c
      BY <1>1
    <3> QED BY <1>0, <1>3, <1>6, <3>1, SendFailFacts
  <2>2. /\ r \in ProtocolRec /\ TableOK(r) /\ OnlyCmd(q, r, n) /\ r.handlers = q.handlers
        /\ r.unanswered = q.unanswered /\ ~InTable(r, n)
    BY <1>3, <2>1 DEF SameTable
  <2>3. \A l \in Cmds : l # n => r.cmd[l] = q.cmd[l] /\ (InTable(r, l) <=> InTable(q, l))
    BY <2>2 DEF OnlyCmd
  <2>5. CmdOK(r, n, loop.then)
    BY <1>1, <1>2, <1>4, <2>1, <2>2 DEF CmdOK, IsCmd
  <2>6. ASSUME NEW l \in Cmds, l # k PROVE CmdOK(r, l, loop.then)
    <3>1. CASE l = n
      BY <2>5, <3>1
    <3>2. CASE l # n
      <4>1. CmdOK(q, l, loop.then)
        BY <2>6 DEF AfterCall
      <4> QED BY <2>2, <2>3, <3>2, <4>1 DEF CmdOK
    <3> QED BY <3>1, <3>2
  <2>7. ASSUME NEW l \in r.unanswered, state[r.cmd[l].c] # "Disconnected" PROVE InTable(r, l)
    <3>1. l \in Cmds /\ l # n
      BY <1>4, <2>2, RecFields
    <3> QED BY <2>2, <2>3, <2>7, <3>1 DEF AfterCall
  <2>8. Grows(p, r)
    BY <2>2 DEF AfterCall, Grows
  <2>9. /\ InTable(r, k) /\ r.cmd[k] = q.cmd[k] /\ (k \in r.unanswered <=> k \in p.unanswered)
    BY <1>2, <2>2, <2>3 DEF AfterCall
  <2>10. /\ q.cmd[k].c = loop.c /\ q.cmd[k].tokenid = p.cmd[k].tokenid
         /\ q.cmd[k].st = "done" /\ q.cmd[k].calls = 1 /\ q.cmd[k].got # "other"
         /\ state[loop.c] = "Disconnected" => r.handlers = p.handlers
    BY <2>2 DEF AfterCall
  <2>11. \A l \in Cmds : l # k /\ InTable(p, l) =>
          InTable(r, l) /\ r.cmd[l] = p.cmd[l] /\ (l \in r.unanswered => l \in p.unanswered)
    BY <1>2, <2>2, <2>3 DEF AfterCall
  <2>12. \A l \in Cmds : InTable(r, l) /\ ~InTable(p, l) =>
          r.cmd[l].c = loop.c /\ r.cmd[l].handler = "client" /\ state[loop.c] # "Disconnected"
    BY <2>2, <2>3 DEF AfterCall
  <2> QED BY <2>2, <2>6, <2>7, <2>8, <2>9, <2>10, <2>11, <2>12 DEF AfterCall
<1> QED BY <1>5, <1>6

\* The entry that the loop looks at.
LEMMA CurrentFacts ==
    ASSUME IInv, ~Idle, AtIndex < Len(Bucket), NEW k, k = Bucket[AtIndex + 1]
    PROVE  /\ k \in Cmds /\ InTable(p, k) /\ k \in ToSet(Bucket)
           /\ AtIndex + 1 \in 1..Len(Bucket) /\ Pos(Bucket, k) = AtIndex + 1
<1>1. Bucket \in Seq(Cmds) /\ NoRepeat(Bucket) /\ AtIndex \in 0..Len(Bucket) /\ loop.bucket \in Buckets
  BY LoopFacts
<1>2. PICK i \in 1..Len(Bucket) : i = AtIndex + 1
  BY <1>1
<1>3. k \in Cmds /\ k \in ToSet(Bucket) /\ Pos(Bucket, k) = i
  BY <1>1, <1>2, PosUnique
<1> QED BY <1>1, <1>2, <1>3 DEF InTable, Bucket

\* The handler of k has returned; q is the Protocol object then.
LEMMA CalledEntry ==
    ASSUME ~ReenterOther, IInv, LoopCall
    PROVE  \E k \in Cmds, q \in ProtocolRec :
              /\ k = Bucket[AtIndex + 1] /\ p.cmd[k].c = loop.c /\ AfterCall(q, k)
              /\ IF state[loop.c] # "Disconnected"
                 THEN p' = Kept(q, k) /\ loop' = [loop EXCEPT !.at = k]
                 ELSE p' = Unlinked(q, k) /\ loop' = loop
<1>0. ~Idle /\ AtIndex < Len(Bucket)
  BY DEF LoopCall
<1>1. PICK k \in Cmds : k = Bucket[AtIndex + 1] /\ InTable(p, k)
  BY <1>0, CurrentFacts
<1>2. p.cmd[k].c = loop.c
  BY <1>1 DEF LoopCall
<1>3. PICK q \in IF p.cmd[k].handler = "null" THEN {p} ELSE Callback(Reported(k), k) :
        IF state[loop.c] # "Disconnected"
        THEN p' = Kept(q, k) /\ loop' = [loop EXCEPT !.at = k]
        ELSE p' = Unlinked(q, k) /\ loop' = loop
  BY <1>1 DEF LoopCall
<1>4. PICK s : s = Reported(k)
  OBVIOUS
<1>5. AfterCall(s, k) /\ \A l \in Cmds : l # k => s.cmd[l] = p.cmd[l] /\ (InTable(s, l) <=> InTable(p, l))
  BY <1>0, <1>1, <1>2, <1>4, ReportedFacts DEF Reported
<1>6. q = s \/ \E n \in New : HasToken(s, loop.c) /\ q = SendCommand(s, n, loop.c, "client")
  <2>1. CASE p.cmd[k].handler = "null"
    BY <1>3, <1>4, <2>1 DEF Reported
  <2>2. CASE p.cmd[k].handler # "null"
    <3>1. q \in Callback(s, k)
      BY <1>3, <1>4, <2>2
    <3>2. s.cmd[k].c = loop.c
      BY <1>5 DEF AfterCall
    <3> QED BY <3>1, <3>2 DEF Callback
  <2> QED BY <2>1, <2>2
<1>7. AfterCall(q, k)
  BY <1>0, <1>1, <1>5, <1>6, CallbackFacts
<1>8. q \in ProtocolRec
  BY <1>7 DEF AfterCall
<1> QED BY <1>1, <1>2, <1>3, <1>7, <1>8

\* What the step leaves of the commands, the redirections and the messages: r is
\* q with the entry of k given up, or without it if the channel is closed.
LEMMA GivenUp ==
    ASSUME IInv, ~Idle, NEW k \in Cmds, InTable(p, k), p.cmd[k].c = loop.c, NEW q, AfterCall(q, k),
           p' \in ProtocolRec, TableOK(p'), OnlyCmd(q, p', k), p'.unanswered = q.unanswered,
           p'.cmd[k].st = "done", p'.cmd[k].c = loop.c, p'.cmd[k].calls = 1, p'.cmd[k].got # "other",
           p'.cmd[k].tokenid = q.cmd[k].tokenid,
           InTable(p', k) => p'.cmd[k].handler = "null",
           ~InTable(p', k) => state[loop.c] = "Disconnected",
           state' = state, inq' = inq
    PROVE  (\A l \in Cmds : CmdOK(p', l, loop.then)) /\ Redirects' /\ Mail'
<1>0. Redirects /\ Mail /\ loop.c \in Chans /\ CmdOK(p, k, loop.then)
  BY LoopFacts DEF IInv
<1>1. k # loop.then
  BY <1>0 DEF CmdOK
<1>2. \A l \in Cmds : l # k => /\ p'.cmd[l] = q.cmd[l] /\ (InTable(p', l) <=> InTable(q, l))
                               /\ (l \in p'.unanswered <=> l \in q.unanswered)
  BY DEF OnlyCmd
<1>3. ASSUME NEW l \in Cmds PROVE CmdOK(p', l, loop.then)
  <2>1. CASE l = k
    BY <1>0, <1>1, <2>1 DEF CmdOK
  <2>2. CASE l # k
    <3>1. CmdOK(q, l, loop.then)
      BY <2>2 DEF AfterCall
    <3> QED BY <1>2, <2>2, <3>1 DEF CmdOK
  <2> QED BY <2>1, <2>2
<1>4. Redirects'
  <2>1. ASSUME NEW l \in Cmds, IsRedirect(p', l)
        PROVE  /\ IsRedirect(p, l) /\ p'.cmd[l].c = p.cmd[l].c
               /\ state'[p.cmd[l].c] \in {"RedirectSent", "Disconnected"}
    <3>1. l # k /\ InTable(q, l) /\ q.cmd[l].handler = "redirect" /\ p'.cmd[l] = q.cmd[l]
      BY <1>2, <2>1 DEF IsRedirect
    <3>2. InTable(p, l)
      BY <3>1 DEF AfterCall
    <3>3. q.cmd[l] = p.cmd[l]
      BY <3>1, <3>2 DEF AfterCall
    <3> QED BY <1>0, <3>1, <3>2, <3>3 DEF IsRedirect, Redirects
  <2> QED BY <1>0, <2>1, RedirectsKept
<1>5. Mail'
  <2>1. ASSUME NEW l \in Cmds, InTable(p, l), inq[p.cmd[l].c] # << >>
        PROVE  /\ InTable(p', l) /\ p'.cmd[l].c = p.cmd[l].c /\ p'.cmd[l].tokenid = p.cmd[l].tokenid
               /\ l \in p'.unanswered => l \in p.unanswered
    <3>1. CASE l = k
      <4>1. state[loop.c] # "Disconnected"
        BY <1>0, <2>1, <3>1 DEF Mail
      <4>2. InTable(p', k)
        BY <4>1
      <4>3. q.cmd[k].tokenid = p.cmd[k].tokenid /\ (k \in q.unanswered <=> k \in p.unanswered)
        BY DEF AfterCall
      <4> QED BY <3>1, <4>2, <4>3
    <3>2. CASE l # k
      BY <1>2, <2>1, <3>2 DEF AfterCall
    <3> QED BY <3>1, <3>2
  <2>2. ASSUME NEW l \in p'.unanswered, state'[p'.cmd[l].c] # "Disconnected" PROVE InTable(p', l)
    <3>1. l \in Cmds
      BY RecFields
    <3>2. CASE l = k
      BY <2>2, <3>2
    <3>3. CASE l # k
      BY <1>2, <2>2, <3>1, <3>3 DEF AfterCall
    <3> QED BY <3>2, <3>3
  <2>3. \A d \in Chans : state'[d] = "Disconnected" => inq[d] = << >>
    BY <1>0 DEF Mail
  <2> QED BY <1>0, <2>1, <2>2, <2>3, MailKept
<1> QED BY <1>3, <1>4, <1>5

\* The loop stays before entry i that is unlinked.
LEMMA UnlinkedAhead ==
    ASSUME IInv, ~Idle, AtIndex < Len(Bucket), NEW k \in Cmds, k = Bucket[AtIndex + 1],
           p' \in ProtocolRec, loop' = loop, p'.handlers[loop.bucket] = RemoveAt(Bucket, AtIndex + 1)
    PROVE  /\ AtIndex' = AtIndex /\ LoopOK'
           /\ \A l \in Cmds : l # k /\ InTable(p, l) /\ p'.cmd[l] = p.cmd[l] /\ Ahead(l) => Ahead(l)'
<1>1. /\ Bucket \in Seq(Cmds) /\ NoRepeat(Bucket) /\ AtIndex \in 0..Len(Bucket) /\ loop.bucket \in Buckets
      /\ loop \in LoopRec /\ loop # NULL /\ (loop.at # NULL => Bucket[AtIndex] = loop.at /\ AtIndex # 0)
      /\ p \in ProtocolRec /\ TableOK(p)
  BY LoopFacts DEF IInv, TypeOK
<1>2. PICK i \in 1..Len(Bucket) : i = AtIndex + 1 /\ k = Bucket[i] /\ Pos(Bucket, k) = i
  BY CurrentFacts
<1>3. Bucket' = RemoveAt(Bucket, i)
  BY <1>2 DEF Bucket
<1>4. ToSet(Bucket') = ToSet(Bucket) \ {k}
  <2>1. PICK s \in Seq(Cmds) : s = Bucket /\ NoRepeat(s)
    BY <1>1
  <2>2. ToSet(RemoveAt(s, i)) = ToSet(s) \ {s[i]}
    BY <1>2, <2>1, RemoveAtMembers
  <2> QED BY <1>2, <1>3, <2>1, <2>2
<1>5. ASSUME NEW l \in ToSet(Bucket), l # k
      PROVE  Pos(Bucket', l) = IF Pos(Bucket, l) < i THEN Pos(Bucket, l) ELSE Pos(Bucket, l) - 1
  <2>1. PICK s \in Seq(Cmds) : s = Bucket /\ NoRepeat(s)
    BY <1>1
  <2>2. Pos(RemoveAt(s, i), l) = IF Pos(s, l) < i THEN Pos(s, l) ELSE Pos(s, l) - 1
    BY <1>2, <1>5, <2>1, RemovedPos
  <2> QED BY <1>3, <2>1, <2>2
<1>6. AtIndex' = AtIndex /\ LoopOK'
  <2>1. CASE loop.at = NULL
    BY <1>1, <2>1 DEF AtIndex, Upto, LoopOK
  <2>2. CASE loop.at # NULL
    <3>1. AtIndex \in 1..Len(Bucket) /\ Bucket[AtIndex] = loop.at /\ AtIndex # i
      BY <1>1, <1>2, <2>2
    <3>2. loop.at \in ToSet(Bucket) /\ Pos(Bucket, loop.at) = AtIndex
      BY <1>1, <3>1, PosUnique
    <3>3. loop.at # k
      BY <1>2, <3>1, <3>2
    <3>4. Pos(Bucket', loop.at) = AtIndex
      BY <1>1, <1>2, <1>5, <3>2, <3>3
    <3>5. AtIndex' = Pos(Bucket', loop.at)
      BY <2>2 DEF AtIndex, Upto
    <3>6. loop.at \in ToSet(p'.handlers[loop.bucket])
      BY <1>4, <3>2, <3>3 DEF Bucket
    <3> QED BY <1>1, <3>4, <3>5, <3>6 DEF LoopOK
  <2> QED BY <2>1, <2>2
<1>7. ASSUME NEW l \in Cmds, l # k, InTable(p, l), p'.cmd[l] = p.cmd[l], Ahead(l) PROVE Ahead(l)'
  <2>1. HomeOf(p.cmd, l) \in Buckets /\ l \in ToSet(p.handlers[HomeOf(p.cmd, l)])
    BY <1>1, <1>7, HomeFacts
  <2>2. HomeOf(p'.cmd, l) = HomeOf(p.cmd, l)
    BY <1>7 DEF HomeOf
  <2>3. CASE HomeOf(p.cmd, l) = loop.bucket
    <3>1. l \in ToSet(Bucket)
      BY <2>1, <2>3 DEF Bucket
    <3>2. Pos(Bucket, l) \in 1..Len(Bucket) /\ Bucket[Pos(Bucket, l)] = l
      BY <1>1, <3>1, PosFacts
    <3>3. Pos(Bucket, l) > AtIndex
      BY <1>1, <1>7, <2>3, AheadHere
    <3>4. Pos(Bucket, l) # i
      BY <1>2, <1>7, <3>2
    <3>5. Pos(Bucket', l) > AtIndex
      BY <1>1, <1>2, <1>5, <1>7, <3>1, <3>2, <3>3, <3>4
    <3> QED BY <1>6, <2>2, <2>3, <3>5 DEF Ahead, Bucket
  <2>4. CASE HomeOf(p.cmd, l) # loop.bucket
    BY <1>7, <2>2, <2>4 DEF Ahead
  <2> QED BY <2>3, <2>4
<1> QED BY <1>6, <1>7

\* channel_closed() gives up an entry.
LEMMA LoopCallKeeps ==
    ASSUME ~ReenterOther, IInv, LoopCall
    PROVE  IInv'
<1>0. /\ p \in ProtocolRec /\ state \in [Chans -> States] /\ list \in [Chans -> BOOLEAN]
      /\ inq \in [Chans -> Seq(Message)] /\ hello \in [Chans -> BOOLEAN] /\ TableOK(p)
      /\ broken = {} /\ ClosedAhead /\ ~Idle /\ AtIndex < Len(Bucket)
  BY DEF IInv, TypeOK, LoopCall
<1>1. state' = state /\ list' = list /\ inq' = inq /\ hello' = hello /\ broken' = broken
  BY DEF LoopCall
<1>2. PICK k \in Cmds, q \in ProtocolRec :
        /\ k = Bucket[AtIndex + 1] /\ p.cmd[k].c = loop.c /\ AfterCall(q, k)
        /\ IF state[loop.c] # "Disconnected"
           THEN p' = Kept(q, k) /\ loop' = [loop EXCEPT !.at = k]
           ELSE p' = Unlinked(q, k) /\ loop' = loop
  BY CalledEntry
<1>3. InTable(p, k) /\ k \in ToSet(Bucket) /\ AtIndex + 1 \in 1..Len(Bucket) /\ Pos(Bucket, k) = AtIndex + 1
  BY <1>0, <1>2, CurrentFacts
<1>4. /\ loop \in LoopRec /\ loop # NULL /\ Then = loop.then /\ loop.c \in Chans /\ loop.bucket \in Buckets
      /\ k # NULL
  BY <1>0, LoopFacts
<1>5. /\ TableOK(q) /\ InTable(q, k) /\ q.cmd[k].c = loop.c /\ q.cmd[k].st = "done" /\ q.cmd[k].calls = 1
      /\ q.cmd[k].got # "other" /\ Grows(p, q)
  BY <1>2 DEF AfterCall
<1>6. CASE state[loop.c] # "Disconnected"
  <2>1. p' = Kept(q, k) /\ loop' = [loop EXCEPT !.at = k]
    BY <1>2, <1>6
  <2>2. /\ SameTable(q, p', k) /\ p'.cmd[k].tokenid = q.cmd[k].tokenid
        /\ IsCmd(p'.cmd[k], q.cmd[k].st, q.cmd[k].c, "null", q.cmd[k].calls, q.cmd[k].got)
    BY <1>2, <1>5, <2>1, KeptFacts
  <2>3. /\ p' \in ProtocolRec /\ TableOK(p') /\ OnlyCmd(q, p', k) /\ p'.unanswered = q.unanswered
        /\ p'.handlers = q.handlers /\ InTable(p', k)
    BY <1>5, <2>2 DEF SameTable
  <2>4. /\ p'.cmd[k].st = "done" /\ p'.cmd[k].c = loop.c /\ p'.cmd[k].calls = 1 /\ p'.cmd[k].got # "other"
        /\ p'.cmd[k].handler = "null"
    BY <1>5, <2>2 DEF IsCmd
  <2>5. (\A l \in Cmds : CmdOK(p', l, loop.then)) /\ Redirects' /\ Mail'
    BY <1>0, <1>1, <1>2, <1>3, <2>2, <2>3, <2>4, GivenUp
  <2>6. loop' \in LoopRec /\ loop'.then = loop.then /\ loop'.at = k /\ loop'.bucket = loop.bucket
    BY <1>4, <2>1 DEF LoopRec
  <2>7. loop' # NULL
    BY <2>6, NullAssumption DEF LoopRec, Buckets
  <2>8. k \in ToSet(p'.handlers[loop'.bucket])
    BY <1>3, <1>4, <1>5, <2>3, <2>6 DEF Grows, Bucket
  <2>9. LoopOK' /\ Then' = loop.then
    BY <2>6, <2>7, <2>8 DEF LoopOK, Then
  <2>10. Open'
    <3> SUFFICES ASSUME NEW l \in Cmds, InTable(p', l), state[p'.cmd[l].c] = "Disconnected" PROVE FALSE
      BY <1>1 DEF Open
    <3>1. l # k /\ InTable(q, l) /\ p'.cmd[l] = q.cmd[l]
      BY <1>6, <2>3, <2>4 DEF OnlyCmd
    <3>2. InTable(p, l) /\ q.cmd[l] = p.cmd[l]
      BY <1>2, <3>1 DEF AfterCall
    <3> QED BY <1>0, <1>6, <3>1, <3>2 DEF ClosedAhead
  <2> QED BY <1>0, <1>1, <2>3, <2>5, <2>9, <2>10, OpenAhead, Whole
<1>7. CASE state[loop.c] = "Disconnected"
  <2>1. p' = Unlinked(q, k) /\ loop' = loop /\ q.handlers = p.handlers
    BY <1>2, <1>7 DEF AfterCall
  <2>2. Unlinked(q, k) = Taken(q, k) /\ HomeOf(q.cmd, k) = loop.bucket
    <3>1. PICK i \in 1..Len(q.handlers[loop.bucket]) : i = AtIndex + 1 /\ k = q.handlers[loop.bucket][i]
      BY <1>2, <1>3, <2>1 DEF Bucket
    <3>2. AtIndex \in Nat /\ Upto(q.handlers[loop.bucket], loop.at) = AtIndex
      BY <1>0, <2>1, LoopFacts DEF AtIndex, Bucket
    <3>3. Upto(q.handlers[loop.bucket], loop.at) = i - 1
      BY <3>1, <3>2
    <3> QED BY <1>4, <1>5, <3>1, <3>3, UnlinkedTakes
  <2>3. /\ p' \in ProtocolRec /\ TableOK(p') /\ p'.cmd = q.cmd /\ p'.unanswered = q.unanswered
        /\ \A l \in Cmds : InTable(p', l) <=> InTable(q, l) /\ l # k
        /\ p'.handlers[loop.bucket] = RemoveAt(q.handlers[loop.bucket], Pos(q.handlers[loop.bucket], k))
    BY <1>4, <1>5, <2>1, <2>2, TakenFacts
  <2>4. p'.handlers[loop.bucket] = RemoveAt(Bucket, AtIndex + 1)
    BY <1>3, <2>1, <2>3 DEF Bucket
  <2>5. OnlyCmd(q, p', k)
    BY <2>3 DEF OnlyCmd
  <2>6. (\A l \in Cmds : CmdOK(p', l, loop.then)) /\ Redirects' /\ Mail'
    BY <1>0, <1>1, <1>2, <1>3, <1>5, <1>7, <2>3, <2>5, GivenUp
  <2>7. /\ AtIndex' = AtIndex /\ LoopOK'
        /\ \A l \in Cmds : l # k /\ InTable(p, l) /\ p'.cmd[l] = p.cmd[l] /\ Ahead(l) => Ahead(l)'
    BY <1>0, <1>2, <2>1, <2>3, <2>4, UnlinkedAhead
  <2>8. Then' = loop.then
    BY <1>4, <2>1 DEF Then
  <2>9. ClosedAhead'
    <3> SUFFICES ASSUME NEW l \in Cmds, InTable(p', l), state[p'.cmd[l].c] = "Disconnected"
                 PROVE  loop' # NULL /\ loop'.c = p'.cmd[l].c /\ Ahead(l)'
      BY <1>1 DEF ClosedAhead
    <3>1. l # k /\ InTable(q, l) /\ p'.cmd[l] = q.cmd[l]
      BY <2>3
    <3>2. InTable(p, l) /\ q.cmd[l] = p.cmd[l]
      BY <1>2, <1>7, <3>1 DEF AfterCall
    <3>3. loop.c = p.cmd[l].c /\ Ahead(l)
      BY <1>0, <3>1, <3>2 DEF ClosedAhead
    <3> QED BY <1>4, <2>1, <2>7, <3>1, <3>2, <3>3
  <2> QED BY <1>0, <1>1, <2>3, <2>6, <2>7, <2>8, <2>9, Whole
<1> QED BY <1>6, <1>7

-----------------------------------------------------------------------------
(* The invariant holds.                                                       *)

\* At the start nothing was sent.
LEMMA InitIInv ==
    ASSUME Init
    PROVE  IInv
<1> DEFINE x == [st |-> "new", c |-> NULL, tokenid |-> 0, handler |-> "null", calls |-> 0, got |-> "none"]
<1>1. /\ p.tokenid = 1 % TokenMod /\ p.handlers = [b \in Buckets |-> << >>]
      /\ p.cmd = [k \in Cmds |-> x] /\ p.unanswered = {} /\ p.progressed = {}
      /\ p = [tokenid |-> p.tokenid, handlers |-> p.handlers, cmd |-> p.cmd,
              unanswered |-> p.unanswered, progressed |-> p.progressed]
  BY DEF Init
<1>2. 0 \in 0..TokenMod - 1 /\ 1 % TokenMod \in 0..TokenMod - 1
  BY ConstantAssumption, ModRange
<1>3. x \in Command
  BY <1>2 DEF Command
<1>4. /\ \A k \in Cmds : p.cmd[k].st = "new" /\ p.cmd[k].calls = 0 /\ p.cmd[k].got = "none"
      /\ \A b \in Buckets : p.handlers[b] = << >>
  BY <1>1
<1>5. p.handlers \in [Buckets -> Seq(Cmds)] /\ p.cmd \in [Cmds -> Command]
  BY <1>1, <1>3
<1> HIDE DEF x
<1>6. p \in ProtocolRec
  BY <1>1, <1>2, <1>5 DEF ProtocolRec
<1>7. /\ state \in [Chans -> States] /\ list \in [Chans -> BOOLEAN] /\ inq \in [Chans -> Seq(Message)]
      /\ hello \in [Chans -> BOOLEAN] /\ loop = NULL /\ broken = {} /\ \A c \in Chans : inq[c] = << >>
  BY DEF Init, States
<1>8. \A k : ~InTable(p, k)
  <2>1. \A b \in Buckets : \A k : k \notin ToSet(p.handlers[b])
    BY <1>4 DEF ToSet
  <2> QED BY <2>1 DEF InTable
<1>9. TableOK(p)
  <2>1. \A b \in Buckets : NoRepeat(p.handlers[b])
    BY <1>4 DEF NoRepeat
  <2>2. \A b \in Buckets : \A k : k \notin ToSet(p.handlers[b])
    BY <1>4 DEF ToSet
  <2> QED BY <1>8, <2>1, <2>2 DEF TableOK
<1>10. Then = NULL /\ LoopOK
  BY <1>7 DEF Then, LoopOK
<1>11. \A k \in Cmds : k # NULL
  BY ConstantAssumption
<1>12. Commands
  <2>1. ASSUME NEW k \in Cmds PROVE CmdOK(p, k, NULL)
    BY <1>1, <1>4, <1>8, <1>11 DEF CmdOK
  <2> QED BY <1>10, <2>1 DEF Commands
<1>13. ClosedAhead /\ Redirects
  BY <1>8 DEF ClosedAhead, Redirects, IsRedirect
<1>14. Mail
  BY <1>1, <1>7, BoxEmpty DEF Mail
<1> QED BY <1>6, <1>7, <1>9, <1>10, <1>12, <1>13, <1>14 DEF IInv, TypeOK

\* Nothing happens.
LEMMA StutterKeeps ==
    ASSUME IInv, UNCHANGED vars
    PROVE  IInv'
<1>0. /\ p' = p /\ state' = state /\ list' = list /\ inq' = inq /\ hello' = hello /\ loop' = loop
      /\ broken' = broken
  BY DEF vars
<1>1. LoopOK' /\ Then' = Then
  BY <1>0 DEF IInv, LoopOK, Then
<1>2. ClosedAhead' /\ Redirects' /\ Mail'
  BY <1>0 DEF IInv, ClosedAhead, Ahead, AtIndex, Bucket, Redirects, Mail
<1> QED BY <1>0, <1>1, <1>2, Whole DEF IInv, TypeOK, Commands

\* Every step keeps the invariant, if handlers send on the channel that is
\* closed only.
LEMMA NextIInv ==
    ASSUME ~ReenterOther, IInv, [Next]_vars
    PROVE  IInv'
<1>1. ASSUME NEW k \in Cmds, NEW c \in Chans, Send(k, c) \/ SendRedirect(k, c) PROVE IInv'
  BY <1>1, SendKeeps
<1>2. ASSUME NEW k \in Cmds, SendCommandFailed(k) \/ PeerProgress(k) \/ PeerReply(k) PROVE IInv'
  BY <1>2, SendCommandFailedKeeps, PeerProgressKeeps, PeerReplyKeeps
<1>3. ASSUME NEW c \in Chans,
             SendHello(c) \/ ChannelClose(c) \/ HandleHello(c) \/ HandleToken(c) \/ PeerHello(c)
      PROVE  IInv'
  BY <1>3, SendHelloKeeps, ChannelCloseKeeps, HandleHelloKeeps, HandleTokenKeeps, PeerHelloKeeps
<1>4. ASSUME Loop PROVE IInv'
  BY <1>4, LoopNextBucketKeeps, LoopEndKeeps, LoopSkipKeeps, LoopCallKeeps DEF Loop
<1>5. ASSUME UNCHANGED vars PROVE IInv'
  BY <1>5, StutterKeeps
<1> QED BY <1>1, <1>2, <1>3, <1>4, <1>5 DEF Next

\* A command is in the table once, or not at all.
LEMMA EntriesFacts ==
    ASSUME p \in ProtocolRec, TableOK(p), NEW k \in Cmds
    PROVE  Entries(k) = 1 <=> InTable(p, k)
<1> DEFINE places == UNION {{b} \X {i \in 1..Len(p.handlers[b]) : p.handlers[b][i] = k} : b \in Buckets}
<1>1. CASE InTable(p, k)
  <2>1. PICK h \in Buckets : h = HomeOf(p.cmd, k) /\ k \in ToSet(p.handlers[h])
    BY <1>1, HomeFacts
  <2>2. \A b \in Buckets : p.handlers[b] \in Seq(Cmds) /\ NoRepeat(p.handlers[b])
    BY RecFields DEF TableOK
  <2>3. PICK j \in 1..Len(p.handlers[h]) : p.handlers[h][j] = k
    BY <2>1, <2>2, PosFacts
  <2>4. ASSUME NEW b \in Buckets, NEW i \in 1..Len(p.handlers[b]), p.handlers[b][i] = k
        PROVE  b = h /\ i = j
    <3>1. k \in ToSet(p.handlers[b])
      BY <2>2, <2>4, ToSetSeq
    <3>2. b = h
      BY <2>1, <3>1 DEF TableOK
    <3> QED BY <2>2, <2>3, <2>4, <3>2 DEF NoRepeat
  <2>5. places = {<<h, j>>}
    <3>1. <<h, j>> \in places
      BY <2>3
    <3>2. ASSUME NEW x \in places PROVE x = <<h, j>>
      <4>1. PICK b \in Buckets : x \in {b} \X {i \in 1..Len(p.handlers[b]) : p.handlers[b][i] = k}
        BY <3>2
      <4>2. PICK i \in 1..Len(p.handlers[b]) : x = <<b, i>> /\ p.handlers[b][i] = k
        BY <4>1
      <4> QED BY <2>4, <4>2
    <3> HIDE DEF places
    <3> QED BY <3>1, <3>2
  <2> HIDE DEF places
  <2>6. Cardinality(places) = 1
    BY <2>5, FS_Singleton
  <2> QED BY <1>1, <2>6 DEF Entries, places
<1>2. CASE ~InTable(p, k)
  <2>1. \A b \in Buckets : \A i \in 1..Len(p.handlers[b]) : p.handlers[b][i] # k
    BY <1>2, RecFields, ToSetSeq DEF InTable
  <2>2. places = {}
    BY <2>1
  <2> HIDE DEF places
  <2>3. Cardinality(places) = 0
    BY <2>2, FS_EmptySet
  <2> QED BY <1>2, <2>3 DEF Entries, places
<1> QED BY <1>1, <1>2

\* The invariant says where every command is.
LEMMA AccountedFromInv ==
    ASSUME IInv
    PROVE  CommandAccounted
<1>0. TypeOK /\ p \in ProtocolRec /\ TableOK(p)
  BY DEF IInv, TypeOK
<1>1. ASSUME NEW k \in Cmds
      PROVE  /\ p.cmd[k].calls <= 1
             /\ Waiting(k) => Entries(k) = 1 /\ p.cmd[k].handler # "null"
             /\ Entries(k) = 1 /\ ~Waiting(k) => p.cmd[k].handler = "null" /\ p.cmd[k].calls = 1
             /\ Entries(k) = 1 /\ Idle => state[p.cmd[k].c] # "Disconnected"
  <2>1. CmdOK(p, k, Then) /\ k # NULL
    BY ConstantAssumption DEF IInv, Commands
  <2>2. p.cmd[k].st \in {"new", "sent", "failed", "done", "lost"}
    BY <1>0, RecFields, CmdFields
  <2>3. Entries(k) = 1 <=> InTable(p, k)
    BY <1>0, EntriesFacts
  <2>4. p.cmd[k].calls \in {0, 1}
    BY <2>1, <2>2 DEF CmdOK
  <2>5. Waiting(k) <=> p.cmd[k].st = "sent" /\ Then # k
    BY <2>1 DEF Waiting, Then
  <2>6. Waiting(k) => InTable(p, k) /\ p.cmd[k].handler # "null"
    BY <2>1, <2>5 DEF CmdOK
  <2>7. InTable(p, k) /\ ~Waiting(k) => p.cmd[k].handler = "null" /\ p.cmd[k].calls = 1
    BY <2>1, <2>2, <2>5 DEF CmdOK
  <2>8. InTable(p, k) /\ Idle => state[p.cmd[k].c] # "Disconnected"
    BY IdleOpen DEF Open
  <2> QED BY <2>3, <2>4, <2>6, <2>7, <2>8
<1> QED BY <1>0, <1>1 DEF CommandAccounted

\* It says that no reply was taken for the reply to another command.
LEMMA RepliesFromInv ==
    ASSUME IInv
    PROVE  RepliesSound
  BY DEF IInv, Commands, CmdOK, RepliesSound, RightReply, NoProtocolError

\* protocol_send_command(), handle_protocol_message(), redirect_done() and
\* channel_closed(): a command that was sent is in the table of reply handlers
\* once until its handler is called or redirect_done() throws, the handler is
\* called once, and no entry outlives its channel; for any channels, commands, size of the table and
\* range of tokens, as long as no handler that channel_closed() calls sends a
\* command on another channel.
THEOREM AccountedCorrect ==
    ASSUME ~ReenterOther
    PROVE  Spec => []CommandAccounted
<1>1. Init => IInv
  BY InitIInv
<1>2. IInv /\ [Next]_vars => IInv'
  BY NextIInv
<1>3. IInv => CommandAccounted
  BY AccountedFromInv
<1> QED BY <1>1, <1>2, <1>3, PTL DEF Spec

\* find_reply_handler() with tokens that wrap and are used again: a reply never
\* reaches the handler of another command, and a peer that follows the protocol
\* is never cut off for an unexpected reply, nor does the assertion of
\* redirect_done() fail; under the same condition.
THEOREM RepliesCorrect ==
    ASSUME ~ReenterOther
    PROVE  Spec => []RepliesSound
<1>1. Init => IInv
  BY InitIInv
<1>2. IInv /\ [Next]_vars => IInv'
  BY NextIInv
<1>3. IInv => RepliesSound
  BY RepliesFromInv
<1> QED BY <1>1, <1>2, <1>3, PTL DEF Spec
=============================================================================

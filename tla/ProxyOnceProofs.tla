-------------------------- MODULE ProxyOnceProofs --------------------------
(* Proofs about Proxy, continued: every command of a client is in one place,  *)
(* and is answered once.                                                      *)
EXTENDS ProxyProofs, FiniteSetTheorems, FunctionTheorems

-----------------------------------------------------------------------------
(* Counting the messages about a command.                                     *)

\* A command, and what answers it.
Cmd == {"C"}
Rep == {"R", "N"}

\* The positions of a queue where there is one.
At(q, types, k) == {i \in 1..Len(q) : q[i].type \in types /\ q[i].id = k}

\* The positions are finite in number.
LEMMA CountType ==
    ASSUME NEW q \in Seq(Message), NEW types, NEW k
    PROVE  /\ IsFiniteSet(At(q, types, k)) /\ Count(q, types, k) = Cardinality(At(q, types, k))
           /\ Count(q, types, k) \in Nat
<1>1. Len(q) \in Nat /\ At(q, types, k) \in SUBSET (1..Len(q))
  BY DEF At
<1>2. IsFiniteSet(1..Len(q))
  BY <1>1, FS_Interval
<1>3. IsFiniteSet(At(q, types, k))
  BY <1>1, <1>2, FS_Subset
<1> QED
  BY <1>3, FS_CardinalityType DEF Count, At

\* Moving all positions changes none of their number.
LEMMA ShiftCount ==
    ASSUME NEW S, S \subseteq Nat, IsFiniteSet(S), NEW n \in Nat
    PROVE  LET T == {i + n : i \in S} IN IsFiniteSet(T) /\ Cardinality(T) = Cardinality(S)
<1> DEFINE T == {i + n : i \in S}
           f == [i \in S |-> i + n]
<1>1. f \in [S -> T]
  OBVIOUS
<1>2. \A i, j \in S : f[i] = f[j] => i = j
  OBVIOUS
<1>3. \A t \in T : \E i \in S : f[i] = t
  OBVIOUS
<1>4. f \in Bijection(S, T)
  BY <1>1, <1>2, <1>3, Fun_IsBij
<1>5. ExistsBijection(S, T)
  BY <1>4 DEF ExistsBijection
<1> QED
  BY <1>5, FS_Bijection

\* The messages of two queues, one behind the other.
LEMMA CountConcat ==
    ASSUME NEW p \in Seq(Message), NEW q \in Seq(Message), NEW types, NEW k
    PROVE  Count(p \o q, types, k) = Count(p, types, k) + Count(q, types, k)
<1> DEFINE n == Len(p)
           S == At(p, types, k)
           T == At(q, types, k)
           U == {i + n : i \in T}
<1>1. /\ n \in Nat /\ Len(q) \in Nat /\ p \o q \in Seq(Message) /\ Len(p \o q) = n + Len(q)
      /\ \A i \in 1..(n + Len(q)) : (p \o q)[i] = IF i <= n THEN p[i] ELSE q[i - n]
  OBVIOUS
<1>2. S \subseteq 1..n /\ T \subseteq 1..Len(q)
  BY DEF At
<1>3. At(p \o q, types, k) = S \cup U
  <2>1. ASSUME NEW i \in At(p \o q, types, k) PROVE i \in S \cup U
    <3>1. i \in 1..(n + Len(q)) /\ (p \o q)[i].type \in types /\ (p \o q)[i].id = k
      BY <1>1, <2>1 DEF At
    <3>2. CASE i <= n
      BY <1>1, <3>1, <3>2 DEF At
    <3>3. CASE i > n
      <4>1. i - n \in 1..Len(q) /\ (p \o q)[i] = q[i - n] /\ i = (i - n) + n
        BY <1>1, <3>1, <3>3
      <4>2. i - n \in T
        BY <3>1, <4>1 DEF At
      <4> QED
        BY <4>1, <4>2
    <3> QED
      BY <1>1, <3>1, <3>2, <3>3
  <2>2. ASSUME NEW i \in S PROVE i \in At(p \o q, types, k)
    BY <1>1, <2>2 DEF At
  <2>3. ASSUME NEW j \in T PROVE j + n \in At(p \o q, types, k)
    <3>1. j \in 1..Len(q) /\ q[j].type \in types /\ q[j].id = k
      BY <2>3 DEF At
    <3>2. j + n \in 1..(n + Len(q)) /\ ~(j + n <= n) /\ (j + n) - n = j
      BY <1>1, <3>1
    <3>3. (p \o q)[j + n] = q[j]
      BY <1>1, <3>2
    <3> QED
      BY <1>1, <3>1, <3>2, <3>3 DEF At
  <2> QED
    BY <2>1, <2>2, <2>3
<1>4. S \cap U = {}
  BY <1>1, <1>2
<1>5. /\ IsFiniteSet(S) /\ IsFiniteSet(T) /\ Count(p, types, k) = Cardinality(S) /\ Count(q, types, k) = Cardinality(T)
      /\ Cardinality(S) \in Nat /\ Cardinality(T) \in Nat
  BY CountType
<1>6. T \subseteq Nat
  BY <1>1, <1>2
<1>7. Count(p \o q, types, k) = Cardinality(At(p \o q, types, k))
  BY <1>1, CountType
<1> HIDE DEF S, T
<1>8. IsFiniteSet(U) /\ Cardinality(U) = Cardinality(T)
  BY <1>1, <1>5, <1>6, ShiftCount
<1> HIDE DEF U
<1>9. Cardinality(S \cup U) = Cardinality(S) + Cardinality(U) - Cardinality({})
  BY <1>4, <1>5, <1>8, FS_Union
<1> QED
  BY <1>3, <1>5, <1>7, <1>8, <1>9, FS_EmptySet

\* What one message adds to the count.
Match(m, types, k) == IF m.type \in types /\ m.id = k THEN 1 ELSE 0

\* A queue of one message counts it or not, and an empty one counts nothing.
LEMMA CountOne ==
    ASSUME NEW m \in Message, NEW types, NEW k
    PROVE  Count(<<m>>, types, k) = Match(m, types, k) /\ Count(<< >>, types, k) = 0
<1>1. Count(<< >>, types, k) = 0
  <2>1. At(<< >>, types, k) = {}
    BY DEF At
  <2>2. << >> \in Seq(Message)
    OBVIOUS
  <2> QED
    BY <2>1, <2>2, CountType, FS_EmptySet
<1>2. <<m>> \in Seq(Message) /\ Len(<<m>>) = 1 /\ <<m>>[1] = m
  OBVIOUS
<1>3. Count(<<m>>, types, k) = Cardinality(At(<<m>>, types, k))
  BY <1>2, CountType
<1>4. At(<<m>>, types, k) = IF m.type \in types /\ m.id = k THEN {1} ELSE {}
  BY <1>2 DEF At
<1> QED
  BY <1>1, <1>3, <1>4, FS_EmptySet, FS_Singleton DEF Match

\* A queue that a message is appended to.
LEMMA CountAppend ==
    ASSUME NEW q \in Seq(Message), NEW m \in Message, NEW types, NEW k
    PROVE  Count(Append(q, m), types, k) = Count(q, types, k) + Match(m, types, k)
<1> DEFINE p == <<m>>
<1>1. p \in Seq(Message) /\ Append(q, m) = q \o p
  OBVIOUS
<1>2. Count(p, types, k) = Match(m, types, k)
  BY CountOne
<1> HIDE DEF p
<1>3. Count(q \o p, types, k) = Count(q, types, k) + Count(p, types, k)
  BY <1>1, CountConcat
<1> QED
  BY <1>1, <1>2, <1>3

\* A queue whose first message is read.
LEMMA CountTail ==
    ASSUME NEW q \in Seq(Message), q # << >>, NEW types, NEW k
    PROVE  Count(q, types, k) = Match(Head(q), types, k) + Count(Tail(q), types, k)
<1> DEFINE p == <<Head(q)>>
           r == Tail(q)
<1>1. q = p \o r /\ Head(q) \in Message /\ r \in Seq(Message) /\ p \in Seq(Message)
  OBVIOUS
<1>2. Count(p, types, k) = Match(Head(q), types, k)
  BY <1>1, CountOne
<1> HIDE DEF p, r
<1>3. Count(p \o r, types, k) = Count(p, types, k) + Count(r, types, k)
  BY <1>1, CountConcat
<1>4. Count(q, types, k) = Count(p, types, k) + Count(r, types, k)
  BY <1>1, <1>3
<1> QED
  BY <1>2, <1>4 DEF r

\* Messages that are no command and no reply.
Quiet(q) == q \in Seq(Message) /\ \A k \in Nat : Count(q, Cmd, k) = 0 /\ Count(q, Rep, k) = 0

\* What the server writes on its own account.
LEMMA QuietMessages ==
    /\ Quiet(<< >>)
    /\ \A m \in Message : m.type \notin Cmd \cup Rep => Quiet(<<m>>)
    /\ \A m, n \in Message : {m.type, n.type} \cap (Cmd \cup Rep) = {} => Quiet(Append(<<m>>, n))
<1>1. Quiet(<< >>)
  <2>1. EOS \in Message
    BY EndMessages
  <2>2. \A k \in Nat : Count(<< >>, Cmd, k) = 0 /\ Count(<< >>, Rep, k) = 0
    BY <2>1, CountOne
  <2>3. << >> \in Seq(Message)
    OBVIOUS
  <2> QED
    BY <2>2, <2>3 DEF Quiet
<1>2. ASSUME NEW m \in Message, m.type \notin Cmd \cup Rep PROVE Quiet(<<m>>)
  BY <1>2, CountOne DEF Quiet, Match
<1>3. ASSUME NEW m \in Message, NEW n \in Message, {m.type, n.type} \cap (Cmd \cup Rep) = {}
      PROVE  Quiet(Append(<<m>>, n))
  <2> DEFINE q == <<m>>
  <2>1. Quiet(q)
    BY <1>2, <1>3
  <2> HIDE DEF q
  <2>2. Append(q, n) \in Seq(Message)
    BY <2>1, AppendEntries DEF Quiet
  <2>3. \A k \in Nat : Match(n, Cmd, k) = 0 /\ Match(n, Rep, k) = 0
    BY <1>3 DEF Match
  <2>4. Quiet(Append(q, n))
    BY <2>1, <2>2, <2>3, CountAppend DEF Quiet
  <2> QED
    BY <2>4 DEF q
<1> QED
  BY <1>1, <1>2, <1>3

\* No connection is closed.
Whole ==
    /\ s.state["H"] # "Disconnected" /\ s.state["T"] # "Disconnected"
    /\ client.state # "closed" /\ target.state # "closed"

\* A command is with the target, or was answered.
Pending(tg, k) == {m \in tg.pending : m.id = k}
Done(cl, k) == {i \in 1..Len(cl.done) : cl.done[i] = k}

\* Every command that was sent is in one place, or in none after a connection
\* was closed; the others are nowhere.
OnceInv ==
    /\ IsFiniteSet(target.pending)
    /\ \A k \in Nat : /\ k \in client.sent => Places(k) <= 1 /\ (Whole => Places(k) = 1)
                      /\ k \notin client.sent => Places(k) = 0

\* The parts of the sum.
Parts(c, o, i, h, tg, cl, k) ==
    Count(c, Cmd, k) + Count(o, Cmd, k) + Count(i, Rep, k) + Count(h, Rep, k)
      + Cardinality(Pending(tg, k)) + Cardinality(Done(cl, k))

\* The sum as the model states it, with the queues as parameters.
LEMMA PlacesParts == \A k : Places(k) = Parts(cq, tq, rq, hq, target, client, k)
  BY Zenon DEF Places, Parts, Pending, Done, Cmd, Rep

\* What they are.
LEMMA PendingDone ==
    /\ \A tg, k : IsFiniteSet(tg.pending) => IsFiniteSet(Pending(tg, k)) /\ Cardinality(Pending(tg, k)) \in Nat
    /\ \A cl, k : cl.done \in Seq(Nat) => IsFiniteSet(Done(cl, k)) /\ Cardinality(Done(cl, k)) \in Nat
<1>1. ASSUME NEW tg, NEW k, IsFiniteSet(tg.pending)
      PROVE  IsFiniteSet(Pending(tg, k)) /\ Cardinality(Pending(tg, k)) \in Nat
  <2>1. Pending(tg, k) \in SUBSET tg.pending
    BY DEF Pending
  <2> QED
    BY <1>1, <2>1, FS_Subset, FS_CardinalityType
<1>2. ASSUME NEW cl, NEW k, cl.done \in Seq(Nat)
      PROVE  IsFiniteSet(Done(cl, k)) /\ Cardinality(Done(cl, k)) \in Nat
  <2>1. Len(cl.done) \in Nat
    BY <1>2
  <2>2. IsFiniteSet(1..Len(cl.done))
    BY <2>1, FS_Interval
  <2>3. Done(cl, k) \in SUBSET (1..Len(cl.done))
    BY DEF Done
  <2>4. IsFiniteSet(Done(cl, k))
    BY <2>2, <2>3, FS_Subset
  <2> QED
    BY <2>4, FS_CardinalityType
<1> QED
  BY <1>1, <1>2

\* Each part is a number, and so is the sum.
LEMMA PartTypes ==
    ASSUME NEW c \in Seq(Message), NEW o \in Seq(Message), NEW i \in Seq(Message), NEW h \in Seq(Message),
           NEW tg, IsFiniteSet(tg.pending), NEW cl, cl.done \in Seq(Nat), NEW k \in Nat
    PROVE  Parts(c, o, i, h, tg, cl, k) \in Nat
<1>1. Count(c, Cmd, k) \in Nat /\ Count(o, Cmd, k) \in Nat /\ Count(i, Rep, k) \in Nat /\ Count(h, Rep, k) \in Nat
  BY CountType
<1>2. Cardinality(Pending(tg, k)) \in Nat /\ Cardinality(Done(cl, k)) \in Nat
  BY PendingDone
<1> QED
  BY SMTT(30), <1>1, <1>2 DEF Parts

\* The parts of the sum, now and after a step.
LEMMA PlacesNow ==
    ASSUME TypeOK, IsFiniteSet(target.pending), NEW k \in Nat
    PROVE  Places(k) \in Nat /\ Places(k) = Parts(cq, tq, rq, hq, target, client, k)
<1>1. cq \in Seq(Message) /\ hq \in Seq(Message) /\ tq \in Seq(Message) /\ rq \in Seq(Message) /\ client.done \in Seq(Nat)
  BY DEF TypeOK
<1> QED
  BY <1>1, PartTypes, PlacesParts

\* The same after a step.
LEMMA PlacesThen ==
    ASSUME TypeOK', IsFiniteSet(target'.pending), NEW k \in Nat
    PROVE  Places(k)' \in Nat /\ Places(k)' = Parts(cq', tq', rq', hq', target', client', k)
<1>1. cq' \in Seq(Message) /\ hq' \in Seq(Message) /\ tq' \in Seq(Message) /\ rq' \in Seq(Message) /\ client'.done \in Seq(Nat)
  BY DEF TypeOK
<1>2. Places(k)' = Parts(cq', tq', rq', hq', target', client', k)
  BY Zenon DEF Places, Parts, Pending, Done, Cmd, Rep
<1> QED
  BY <1>1, <1>2, PartTypes

\* What a step does that sends no command: it adds none to a place, and takes
\* none away unless it closes a connection.
Kept ==
    /\ client'.sent = client.sent /\ IsFiniteSet(target'.pending) /\ (Whole' => Whole)
    /\ \A k \in Nat : Places(k)' <= Places(k) /\ (Whole' => Places(k)' = Places(k))

\* Such a step keeps every command in its one place.
LEMMA KeptOnce ==
    ASSUME TypeOK, TypeOK', OnceInv, Kept
    PROVE  OnceInv'
<1>1. \A k \in Nat : Places(k) \in Nat /\ Places(k)' \in Nat
  BY PlacesNow, PlacesThen DEF OnceInv, Kept
<1>2. ASSUME NEW k \in Nat
      PROVE  /\ k \in client'.sent => Places(k)' <= 1 /\ (Whole' => Places(k)' = 1)
             /\ k \notin client'.sent => Places(k)' = 0
  <2>1. Places(k)' <= Places(k) /\ (Whole' => Places(k)' = Places(k) /\ Whole) /\ client'.sent = client.sent
    BY DEF Kept
  <2>2. /\ k \in client.sent => Places(k) <= 1 /\ (Whole => Places(k) = 1)
        /\ k \notin client.sent => Places(k) = 0
    BY DEF OnceInv
  <2> QED
    BY <1>1, <2>1, <2>2
<1> QED
  BY <1>2 DEF OnceInv, Kept

\* A closed channel stays closed.
StaysClosed(p, q) == \A c \in Chans : p.state[c] = "Disconnected" => q.state[c] = "Disconnected"

\* An event of the server: what it reads it writes.
LEMMA EventKept ==
    ASSUME IInv, TypeOK', OnceInv, NEW r, ServerOK(r), NEW ci \in Seq(Message), NEW ti \in Seq(Message),
           Becomes(r, ci, ti), client' = client, target'.pending = target.pending,
           target.state = "closed" => target'.state = "closed", StaysClosed(s, r),
           \A k \in Nat : Count(ci, Cmd, k) + Count(ti, Rep, k) + Count(r.out["H"], Rep, k) + Count(r.out["T"], Cmd, k)
                            = Count(cq, Cmd, k) + Count(rq, Rep, k)
    PROVE  Kept
<1>1. /\ s'.state = r.state /\ hq' = hq \o r.out["H"] /\ tq' = tq \o r.out["T"]
      /\ cq' = (IF r.state["H"] = "Disconnected" THEN << >> ELSE ci)
      /\ rq' = (IF r.state["T"] = "Disconnected" THEN << >> ELSE ti)
      /\ hq \in Seq(Message) /\ tq \in Seq(Message) /\ cq \in Seq(Message) /\ rq \in Seq(Message)
  BY BecomesDoes, InvParts
<1>2. r.out["H"] \in Seq(Message) /\ r.out["T"] \in Seq(Message)
  <2>1. r.out \in [Chans -> Seq(Message)]
    BY DEF ServerOK, Server
  <2> QED
    BY <2>1, TwoChans
<1>3. TypeOK /\ IsFiniteSet(target.pending) /\ IsFiniteSet(target'.pending) /\ client.done \in Seq(Nat)
  BY DEF IInv, TypeOK, OnceInv
<1>4. Whole' => Whole /\ r.state["H"] # "Disconnected" /\ r.state["T"] # "Disconnected"
  BY <1>1, TwoChans DEF Whole, StaysClosed
<1>5. ASSUME NEW k \in Nat
      PROVE  Places(k)' <= Places(k) /\ (Whole' => Places(k)' = Places(k))
  <2>1. /\ Count(hq', Rep, k) = Count(hq, Rep, k) + Count(r.out["H"], Rep, k)
        /\ Count(tq', Cmd, k) = Count(tq, Cmd, k) + Count(r.out["T"], Cmd, k)
    BY <1>1, <1>2, CountConcat
  <2>2. /\ Count(cq', Cmd, k) = IF r.state["H"] = "Disconnected" THEN 0 ELSE Count(ci, Cmd, k)
        /\ Count(rq', Rep, k) = IF r.state["T"] = "Disconnected" THEN 0 ELSE Count(ti, Rep, k)
    <3>1. Count(<< >>, Cmd, k) = 0 /\ Count(<< >>, Rep, k) = 0
      BY QuietMessages DEF Quiet
    <3> QED
      BY <1>1, <3>1
  <2>3. /\ Count(hq, Rep, k) \in Nat /\ Count(tq, Cmd, k) \in Nat /\ Count(cq, Cmd, k) \in Nat /\ Count(rq, Rep, k) \in Nat
        /\ Count(ci, Cmd, k) \in Nat /\ Count(ti, Rep, k) \in Nat
        /\ Count(r.out["H"], Rep, k) \in Nat /\ Count(r.out["T"], Cmd, k) \in Nat
    BY <1>1, <1>2, CountType
  <2>4. Count(ci, Cmd, k) + Count(ti, Rep, k) + Count(r.out["H"], Rep, k) + Count(r.out["T"], Cmd, k)
          = Count(cq, Cmd, k) + Count(rq, Rep, k)
    OBVIOUS
  <2>5. /\ Places(k) = Parts(cq, tq, rq, hq, target, client, k)
        /\ Places(k)' = Parts(cq', tq', rq', hq', target', client, k)
    <3>1. client' = client
      OBVIOUS
    <3> QED
      BY <1>3, <3>1, PlacesNow, PlacesThen
  <2>6. Pending(target', k) = Pending(target, k)
    BY Zenon DEF Pending
  <2>7. /\ Cardinality(Pending(target, k)) \in Nat
        /\ Cardinality(Done(client, k)) \in Nat
    BY <1>3, PendingDone
  <2> DEFINE pd == Cardinality(Pending(target, k))
             dn == Cardinality(Done(client, k))
             nc == Count(cq, Cmd, k)
             no == Count(tq, Cmd, k)
             ni == Count(rq, Rep, k)
             nh == Count(hq, Rep, k)
             nc2 == Count(cq', Cmd, k)
             no2 == Count(tq', Cmd, k)
             ni2 == Count(rq', Rep, k)
             nh2 == Count(hq', Rep, k)
             xc == Count(ci, Cmd, k)
             xi == Count(ti, Rep, k)
             oh == Count(r.out["H"], Rep, k)
             ot == Count(r.out["T"], Cmd, k)
             closedH == r.state["H"] = "Disconnected"
             closedT == r.state["T"] = "Disconnected"
  <2>8. Places(k) = nc + no + ni + nh + pd + dn /\ Places(k)' = nc2 + no2 + ni2 + nh2 + pd + dn
    BY Zenon, <2>5, <2>6 DEF Parts
  <2>9. /\ nc \in Nat /\ no \in Nat /\ ni \in Nat /\ nh \in Nat /\ pd \in Nat /\ dn \in Nat
        /\ xc \in Nat /\ xi \in Nat /\ oh \in Nat /\ ot \in Nat
        /\ nh2 = nh + oh /\ no2 = no + ot /\ xc + xi + oh + ot = nc + ni
        /\ nc2 = (IF closedH THEN 0 ELSE xc) /\ ni2 = (IF closedT THEN 0 ELSE xi)
    BY <2>1, <2>2, <2>3, <2>4, <2>7
  <2>10. Whole' => ~closedH /\ ~closedT
    BY <1>4
  <2> HIDE DEF pd, dn, nc, no, ni, nh, nc2, no2, ni2, nh2, xc, xi, oh, ot, closedH, closedT
  <2>11. nc2 \in Nat /\ ni2 \in Nat /\ nc2 <= xc /\ ni2 <= xi
    BY <2>9
  <2>12. nc2 + no2 + ni2 + nh2 + pd + dn <= nc + no + ni + nh + pd + dn
    BY <2>9, <2>11
  <2>13. ~closedH /\ ~closedT => nc2 + no2 + ni2 + nh2 + pd + dn = nc + no + ni + nh + pd + dn
    BY <2>9, <2>11
  <2> QED
    BY <2>8, <2>10, <2>12, <2>13
<1> QED
  BY <1>3, <1>4, <1>5 DEF Kept

\* The same with queues and messages that are no command and no reply.
LEMMA QuietKept ==
    ASSUME IInv, TypeOK', OnceInv, NEW r, ServerOK(r), NEW ci \in Seq(Message), NEW ti \in Seq(Message),
           Becomes(r, ci, ti), client' = client, target'.pending = target.pending,
           target.state = "closed" => target'.state = "closed", StaysClosed(s, r),
           Quiet(r.out["H"]), Quiet(r.out["T"]),
           ci = cq \/ (cq # << >> /\ ci = Tail(cq) /\ Head(cq).type \notin Cmd),
           ti = rq \/ (rq # << >> /\ ti = Tail(rq) /\ Head(rq).type \notin Rep)
    PROVE  Kept
<1>1. cq \in Seq(Message) /\ rq \in Seq(Message)
  BY InvParts
<1>2. ASSUME NEW k \in Nat
      PROVE  Count(ci, Cmd, k) + Count(ti, Rep, k) + Count(r.out["H"], Rep, k) + Count(r.out["T"], Cmd, k)
               = Count(cq, Cmd, k) + Count(rq, Rep, k)
  <2>1. Count(r.out["H"], Rep, k) = 0 /\ Count(r.out["T"], Cmd, k) = 0
    BY DEF Quiet
  <2>2. Count(ci, Cmd, k) = Count(cq, Cmd, k) /\ Count(ci, Cmd, k) \in Nat
    <3>1. CASE ci = cq
      BY <1>1, <3>1, CountType
    <3>2. CASE cq # << >> /\ ci = Tail(cq) /\ Head(cq).type \notin Cmd
      <4>1. Match(Head(cq), Cmd, k) = 0
        BY <3>2 DEF Match
      <4>2. Count(cq, Cmd, k) = Match(Head(cq), Cmd, k) + Count(ci, Cmd, k)
        BY <1>1, <3>2, CountTail
      <4>3. Count(ci, Cmd, k) \in Nat
        BY CountType
      <4> QED
        BY <4>1, <4>2, <4>3
    <3> QED
      BY <3>1, <3>2
  <2>3. Count(ti, Rep, k) = Count(rq, Rep, k) /\ Count(ti, Rep, k) \in Nat
    <3>1. CASE ti = rq
      BY <1>1, <3>1, CountType
    <3>2. CASE rq # << >> /\ ti = Tail(rq) /\ Head(rq).type \notin Rep
      <4>1. Match(Head(rq), Rep, k) = 0
        BY <3>2 DEF Match
      <4>2. Count(rq, Rep, k) = Match(Head(rq), Rep, k) + Count(ti, Rep, k)
        BY <1>1, <3>2, CountTail
      <4>3. Count(ti, Rep, k) \in Nat
        BY CountType
      <4> QED
        BY <4>1, <4>2, <4>3
    <3> QED
      BY <3>1, <3>2
  <2> QED
    BY <2>1, <2>2, <2>3
<1> QED
  BY <1>2, EventKept

\* A message is written, and the server is as before.
LEMMA PutKept ==
    ASSUME IInv, TypeOK', OnceInv, Still, NEW c \in Chans, NEW n \in Message,
           NEW ci \in Seq(Message), NEW ti \in Seq(Message), Becomes(Put(s, c, n), ci, ti),
           \A k \in Nat : Count(ci, Cmd, k) + Count(ti, Rep, k) + Match(n, IF c = "H" THEN Rep ELSE Cmd, k)
                            = Count(cq, Cmd, k) + Count(rq, Rep, k)
    PROVE  Kept
<1> DEFINE r == Put(s, c, n)
<1>1. ServerOK(s) /\ Sent(s, << >>, << >>)
  BY InvParts
<1>2. ServerOK(r) /\ r.state = s.state
  BY <1>1, PutOK
<1>3. r.out[c] = <<n>> /\ r.out[Other(c)] = << >>
  <2>1. s \in Server /\ s.out \in [Chans -> Seq(Message)]
    BY <1>1 DEF ServerOK, Server
  <2>2. r.out = [s.out EXCEPT ![c] = Append(@, n)]
    BY <2>1, PutDoes
  <2>3. r.out[c] = Append(s.out[c], n) /\ r.out[Other(c)] = s.out[Other(c)]
    BY <2>1, <2>2, TwoChans DEF Other
  <2>4. s.out[c] = << >> /\ s.out[Other(c)] = << >>
    BY <1>1, TwoChans DEF Sent, Other
  <2> QED
    BY <2>3, <2>4
<1>4. Becomes(r, ci, ti)
  OBVIOUS
<1> HIDE DEF r
<1>5. ASSUME NEW k \in Nat
      PROVE  Count(ci, Cmd, k) + Count(ti, Rep, k) + Count(r.out["H"], Rep, k) + Count(r.out["T"], Cmd, k)
               = Count(cq, Cmd, k) + Count(rq, Rep, k)
  <2>1. \A types : Count(<<n>>, types, k) = Match(n, types, k) /\ Count(<< >>, types, k) = 0
    BY CountOne
  <2>2. Count(ci, Cmd, k) \in Nat /\ Count(ti, Rep, k) \in Nat /\ \A types : Match(n, types, k) \in Nat
    BY CountType DEF Match
  <2>3. Count(ci, Cmd, k) + Count(ti, Rep, k) + Match(n, IF c = "H" THEN Rep ELSE Cmd, k)
          = Count(cq, Cmd, k) + Count(rq, Rep, k)
    OBVIOUS
  <2>4. CASE c = "H"
    <3>1. Count(r.out["H"], Rep, k) = Match(n, Rep, k) /\ Count(r.out["T"], Cmd, k) = 0
      BY <1>3, <2>1, <2>4 DEF Other
    <3> QED
      BY <2>2, <2>3, <2>4, <3>1
  <2>5. CASE c = "T"
    <3>1. Count(r.out["T"], Cmd, k) = Match(n, Cmd, k) /\ Count(r.out["H"], Rep, k) = 0
      BY <1>3, <2>1, <2>5 DEF Other
    <3> QED
      BY <2>2, <2>3, <2>5, <3>1
  <2> QED
    BY <2>4, <2>5, TwoChans
<1>6. client' = client /\ target' = target /\ StaysClosed(s, r)
  BY <1>2 DEF Still, StaysClosed
<1> QED
  BY <1>2, <1>4, <1>5, <1>6, EventKept

\* A command is relayed or answered.
LEMMA CommandKept ==
    ASSUME IInv, TypeOK', OnceInv, Still, cq # << >>, Head(cq).type = "C",
           NEW c \in Chans, NEW n \in Message, n.type \in (IF c = "H" THEN Rep ELSE Cmd), n.id = Head(cq).id,
           Becomes(Put(s, c, n), Tail(cq), rq)
    PROVE  Kept
<1>1. cq \in Seq(Message) /\ rq \in Seq(Message) /\ Tail(cq) \in Seq(Message)
  BY InvParts, TailEntries
<1>2. ASSUME NEW k \in Nat
      PROVE  Count(Tail(cq), Cmd, k) + Count(rq, Rep, k) + Match(n, IF c = "H" THEN Rep ELSE Cmd, k)
               = Count(cq, Cmd, k) + Count(rq, Rep, k)
  <2>1. Count(cq, Cmd, k) = Match(Head(cq), Cmd, k) + Count(Tail(cq), Cmd, k)
    BY <1>1, CountTail
  <2>2. Match(n, IF c = "H" THEN Rep ELSE Cmd, k) = Match(Head(cq), Cmd, k) /\ Match(Head(cq), Cmd, k) \in Nat
    BY DEF Match, Cmd
  <2>3. Count(Tail(cq), Cmd, k) \in Nat /\ Count(rq, Rep, k) \in Nat
    BY <1>1, CountType
  <2> QED
    BY <2>1, <2>2, <2>3
<1> QED
  BY <1>1, <1>2, PutKept

\* A reply is relayed.
LEMMA ReplyKept ==
    ASSUME IInv, TypeOK', OnceInv, Still, rq # << >>, Head(rq).type \in Rep,
           NEW n \in Message, n.type \in Rep, n.id = Head(rq).id, Becomes(Put(s, "H", n), cq, Tail(rq))
    PROVE  Kept
<1>1. cq \in Seq(Message) /\ rq \in Seq(Message) /\ Tail(rq) \in Seq(Message)
  BY InvParts, TailEntries
<1>2. ASSUME NEW k \in Nat
      PROVE  Count(cq, Cmd, k) + Count(Tail(rq), Rep, k) + Match(n, Rep, k)
               = Count(cq, Cmd, k) + Count(rq, Rep, k)
  <2>1. Count(rq, Rep, k) = Match(Head(rq), Rep, k) + Count(Tail(rq), Rep, k)
    BY <1>1, CountTail
  <2>2. Match(n, Rep, k) = Match(Head(rq), Rep, k) /\ Match(Head(rq), Rep, k) \in Nat
    BY DEF Match
  <2>3. Count(Tail(rq), Rep, k) \in Nat /\ Count(cq, Cmd, k) \in Nat
    BY <1>1, CountType
  <2> QED
    BY <2>1, <2>2, <2>3
<1> QED
  BY ZenonT(30), <1>1, <1>2, PutKept, TwoChans

\* The host is closed.
LEMMA ClosesHostKept ==
    ASSUME IInv, TypeOK', OnceInv, Still, s.state["H"] # "Disconnected",
           NEW ci \in Seq(Message), ci = cq \/ (cq # << >> /\ ci = Tail(cq) /\ Head(cq).type \notin Cmd),
           Becomes(Closed(s, "H"), ci, rq)
    PROVE  Kept
<1> DEFINE r == Closed(s, "H")
<1>1. ServerOK(s) /\ Sent(s, << >>, << >>) /\ rq \in Seq(Message)
  BY InvParts
<1>2. /\ ServerOK(r) /\ r.state["T"] = (IF s.state["T"] = "none" THEN "none" ELSE "Disconnected")
      /\ r.out["H"] = <<EOS>> /\ r.out["T"] = (IF s.state["T"] = "none" THEN << >> ELSE <<EOS>>)
  BY <1>1, ClosedHost DEF Sent
<1>3. Becomes(r, ci, rq)
  OBVIOUS
<1> HIDE DEF r
<1>4. Quiet(r.out["H"]) /\ Quiet(r.out["T"])
  BY <1>2, QuietMessages, EndMessages DEF Cmd, Rep
<1>5. StaysClosed(s, r) /\ client' = client /\ target' = target
  BY <1>2, TwoChans DEF StaysClosed, Still
<1> QED
  BY <1>1, <1>2, <1>3, <1>4, <1>5, QuietKept

\* The target is closed, and the host with it.
LEMMA ClosesTargetKept ==
    ASSUME IInv, TypeOK', OnceInv, Still, TargetOpen(s),
           NEW ti \in Seq(Message), ti = rq \/ (rq # << >> /\ ti = Tail(rq) /\ Head(rq).type \notin Rep),
           Becomes(Closed(s, "T"), cq, ti)
    PROVE  Kept
<1> DEFINE r == Closed(s, "T")
<1>1. ServerOK(s) /\ Sent(s, << >>, << >>) /\ cq \in Seq(Message)
  BY InvParts
<1>2. /\ ServerOK(r) /\ r.state["H"] = "Disconnected" /\ r.state["T"] = "Disconnected"
      /\ r.out["H"] = (IF s.redirect = "sent" THEN Append(<<Failed>>, EOS) ELSE <<EOS>>) /\ r.out["T"] = <<EOS>>
  <2>1. s.proxy = "made"
    BY <1>1, Open
  <2> QED
    BY <1>1, <2>1, ClosedTarget DEF Sent
<1>3. Becomes(r, cq, ti)
  OBVIOUS
<1> HIDE DEF r
<1>4. Quiet(<<EOS>>) /\ Quiet(Append(<<Failed>>, EOS))
  BY QuietMessages, EndMessages DEF Cmd, Rep
<1>5. Quiet(r.out["H"]) /\ Quiet(r.out["T"])
  BY <1>2, <1>4
<1>6. StaysClosed(s, r) /\ client' = client /\ target' = target
  BY <1>2, TwoChans DEF StaysClosed, Still
<1> QED
  BY <1>1, <1>2, <1>3, <1>5, <1>6, QuietKept

\* handle_protocol_message() on the host.
LEMMA HandleHostKept ==
    ASSUME IInv, TypeOK', OnceInv, HandleHost
    PROVE  Kept
<1>1. cq # << >> /\ s.state["H"] # "Disconnected" /\ Still /\ Tail(cq) \in Seq(Message)
  BY HostCases
<1>2. CASE Head(cq).type = "EOS" /\ Becomes(Closed(s, "H"), Tail(cq), rq)
  BY <1>1, <1>2, ClosesHostKept DEF Cmd
<1>3. ASSUME NEW n \in Message, Head(cq).type = "C", n.id = Head(cq).id,
             \/ n.type \in {"R", "N"} /\ Becomes(Put(s, "H", n), Tail(cq), rq)
             \/ n.type = "C" /\ n.depth = 1 /\ TargetOpen(s) /\ Becomes(Put(s, "T", n), Tail(cq), rq)
      PROVE  Kept
  <2>1. CASE n.type \in {"R", "N"} /\ Becomes(Put(s, "H", n), Tail(cq), rq)
    BY <1>1, <1>3, <2>1, CommandKept, TwoChans DEF Rep
  <2>2. CASE n.type = "C" /\ Becomes(Put(s, "T", n), Tail(cq), rq)
    BY <1>1, <1>3, <2>2, CommandKept, TwoChans DEF Cmd
  <2> QED
    BY <1>3, <2>1, <2>2
<1>4. CASE /\ Head(cq).type = "redirect" /\ s.state["H"] = "Connected" /\ s.proxy = "made"
           /\ Becomes(LocatorRedirect(s), Tail(cq), rq)
  <2> DEFINE r == LocatorRedirect(s)
             n == Msg("redirect", s.tokenid, 0, 0)
  <2>1. ServerOK(s) /\ Sent(s, << >>, << >>) /\ AskOK(s, cq) /\ cq \in Seq(Message) /\ rq \in Seq(Message)
    BY InvParts
  <2>2. ~Lacks(cq, "redirect")
    BY <1>1, <1>4, <2>1, LacksTail
  <2>3. Is(s, "made", "Connected", "Connected", "no")
    BY <1>4, <2>1, <2>2 DEF AskOK, ServerOK, Mode, Is
  <2>4. /\ ServerOK(r) /\ Is(r, "made", "Connected", "RedirectSent", "sent") /\ s.tokenid \in Nat
        /\ r.out["H"] = << >> /\ r.out["T"] = <<n>>
    BY <2>1, <2>3, LocatorOK DEF Sent
  <2>5. n \in Message /\ n.type = "redirect"
    BY <2>4, MsgType DEF Types
  <2> HIDE DEF r, n
  <2>6. Quiet(r.out["H"]) /\ Quiet(r.out["T"])
    BY <2>4, <2>5, QuietMessages DEF Cmd, Rep
  <2>7. StaysClosed(s, r) /\ client' = client /\ target' = target
    BY <1>1, <2>3, <2>4, TwoChans DEF StaysClosed, Still, Is
  <2>8. Becomes(r, Tail(cq), rq) /\ Head(cq).type \notin Cmd
    BY <1>4 DEF r, Cmd
  <2> QED
    BY <1>1, <2>1, <2>4, <2>6, <2>7, <2>8, QuietKept
<1> QED
  BY <1>2, <1>3, <1>4, HostCases

\* A quiet message is written.
LEMMA PutQuiet ==
    ASSUME IInv, TypeOK', OnceInv, client' = client, target' = target, NEW n \in Message, n.type \notin Cmd \cup Rep,
           NEW ci \in Seq(Message), ci = cq \/ (cq # << >> /\ ci = Tail(cq) /\ Head(cq).type \notin Cmd),
           NEW ti \in Seq(Message), ti = rq \/ (rq # << >> /\ ti = Tail(rq) /\ Head(rq).type \notin Rep),
           Becomes(Put(s, "H", n), ci, ti)
    PROVE  Kept
<1> DEFINE r == Put(s, "H", n)
<1>1. ServerOK(s) /\ Sent(s, << >>, << >>) /\ cq \in Seq(Message) /\ rq \in Seq(Message)
  BY InvParts
<1>2. ServerOK(r) /\ r.state = s.state
  BY <1>1, PutOK, TwoChans
<1>3. r.out["H"] = <<n>> /\ r.out["T"] = << >>
  <2>1. s \in Server /\ s.out \in [Chans -> Seq(Message)]
    BY <1>1 DEF ServerOK, Server
  <2>2. r.out = [s.out EXCEPT !["H"] = Append(@, n)]
    BY <2>1, PutDoes, TwoChans
  <2>3. r.out["H"] = Append(s.out["H"], n) /\ r.out["T"] = s.out["T"]
    BY <2>1, <2>2, TwoChans
  <2> QED
    BY <1>1, <2>3 DEF Sent
<1>4. Becomes(r, ci, ti)
  OBVIOUS
<1> HIDE DEF r
<1>5. Quiet(r.out["H"]) /\ Quiet(r.out["T"])
  BY <1>3, QuietMessages
<1>6. StaysClosed(s, r)
  BY <1>2 DEF StaysClosed
<1> QED
  BY <1>1, <1>2, <1>4, <1>5, <1>6, QuietKept

\* command_redirect() before there is a proxy.
LEMMA HandleRedirectKept ==
    ASSUME IInv, TypeOK', OnceInv, HandleRedirect
    PROVE  Kept
<1>1. /\ cq # << >> /\ Head(cq).type = "redirect" /\ s.state["H"] = "Connected" /\ s.proxy = "none" /\ Still
      /\ \/ Becomes(Put(s, "H", Failed), Tail(cq), rq)
         \/ Becomes(Trying(s), Tail(cq), rq)
  BY DEF HandleRedirect, Still, Failed, Trying
<1>2. ServerOK(s) /\ Sent(s, << >>, << >>) /\ AskOK(s, cq) /\ cq \in Seq(Message) /\ rq \in Seq(Message)
  BY InvParts
<1>3. ~Lacks(cq, "redirect") /\ Tail(cq) \in Seq(Message) /\ Head(cq).type \notin Cmd
  BY <1>1, <1>2, LacksTail DEF Cmd
<1>4. client' = client /\ target' = target
  BY <1>1 DEF Still
<1>5. CASE Becomes(Put(s, "H", Failed), Tail(cq), rq)
  <2>1. Failed \in Message /\ Failed.type \notin Cmd \cup Rep
    BY EndMessages DEF Cmd, Rep
  <2> QED
    BY <1>1, <1>2, <1>3, <1>4, <1>5, <2>1, PutQuiet
<1>6. CASE Becomes(Trying(s), Tail(cq), rq)
  <2> DEFINE r == Trying(s)
  <2>1. Is(s, "none", "Connected", "none", "no")
    BY <1>1, <1>2, <1>3 DEF AskOK, ServerOK, Mode, Is
  <2>2. ServerOK(r) /\ Is(r, "none", "RedirectReceived", "none", "connect") /\ r.out = s.out
    BY <1>2, <2>1, TryingOK
  <2>3. Becomes(r, Tail(cq), rq)
    BY <1>6
  <2> HIDE DEF r
  <2>4. Quiet(r.out["H"]) /\ Quiet(r.out["T"])
    BY <1>2, <2>2, QuietMessages DEF Sent
  <2>5. StaysClosed(s, r)
    BY <2>1, TwoChans DEF StaysClosed, Is
  <2> QED
    BY <1>1, <1>2, <1>3, <1>4, <2>2, <2>3, <2>4, <2>5, QuietKept
<1> QED
  BY <1>1, <1>5, <1>6

\* handle_protocol_message() on the target.
LEMMA HandleTargetKept ==
    ASSUME IInv, TypeOK', OnceInv, HandleTarget
    PROVE  Kept
<1> DEFINE m == Head(rq)
<1>1. rq # << >> /\ s.state["T"] # "Disconnected" /\ Still /\ Becomes(TargetMessage(s, m), cq, Tail(rq))
  BY DEF HandleTarget, Still
<1>2. /\ ServerOK(s) /\ Sent(s, << >>, << >>) /\ rq \in Seq(Message) /\ cq \in Seq(Message)
      /\ MailOK(s, target, cq, tq, rq) /\ TargetOK(s, target, tq, rq)
  BY InvParts
<1>3. PICK g \in Int : TargetSide(s, target, tq, rq, g)
  BY InvParts
<1>4. m \in Message /\ Tail(rq) \in Seq(Message) /\ FromTarget(s, m)
  BY <1>1, <1>2, MailTail DEF MailOK
<1>5. TargetOpen(s) /\ s.proxy = "made" /\ s.state["H"] # "Disconnected"
  <2>1. s.state["T"] # "none"
    BY <1>1, <1>2 DEF TargetOK
  <2> QED
    BY <1>1, <1>2, <2>1, Open DEF TargetOpen
<1>6. client' = client /\ target' = target
  BY <1>1 DEF Still
<1>7. ASSUME NEW r, ServerOK(r), Becomes(r, cq, Tail(rq)), NEW n \in Message, n.type \notin Cmd \cup Rep,
             m.type \notin Rep, Sent(r, <<n>>, << >>)
      PROVE  Kept
  <2>1. Quiet(r.out["H"]) /\ Quiet(r.out["T"])
    BY <1>7, QuietMessages DEF Sent
  <2>2. StaysClosed(s, r)
    BY <1>1, <1>5, TwoChans DEF StaysClosed
  <2> QED
    BY <1>1, <1>2, <1>4, <1>6, <1>7, <2>1, <2>2, QuietKept
<1>8. CASE m.type = "EOS"
  <2>1. TargetMessage(s, m) = Closed(s, "T")
    BY <1>8 DEF TargetMessage
  <2> QED
    BY <1>1, <1>2, <1>4, <1>5, <1>8, <2>1, ClosesTargetKept DEF Rep
<1>9. CASE m.type = "Hello"
  <2>1. s.state["T"] = "HelloSent"
    BY <1>1, <1>2, <1>3, <1>5, <1>9, TargetReadHello
  <2>2. Is(s, "made", "HelloReceived", "HelloSent", "no") /\ m.gen \in Nat
    BY <1>2, <1>4, <2>1 DEF ServerOK, Mode, Is, Message
  <2> DEFINE r == ProxyConnected([s EXCEPT !.state["T"] = "Connected"], m.gen)
             n == Msg("Hello", 0, 0, m.gen)
  <2>3. n \in Message /\ n.type = "Hello"
    BY SMTT(30), <2>2, MsgType DEF Types
  <2>4. TargetMessage(s, m) = r
    BY <1>9, <2>1 DEF TargetMessage
  <2>5. ServerOK(r) /\ Sent(r, <<n>>, << >>)
    BY <1>2, <2>2, ConnectedOK
  <2> HIDE DEF r, n
  <2> QED
    BY <1>1, <1>7, <1>9, <2>3, <2>4, <2>5 DEF Cmd, Rep
<1>10. CASE m.type \in Answers
  <2>1. s.state["T"] = "RedirectSent"
    BY <1>1, <1>2, <1>3, <1>5, <1>10, TargetReadRefusal, TargetReadAcceptance DEF Answers
  <2>2. Is(s, "made", "Connected", "RedirectSent", "sent")
    BY <1>2, <2>1 DEF ServerOK, Mode, Is
  <2>3. m.depth = 0 /\ m.id = s.rtoken
    BY <1>4, <1>10, <2>1 DEF FromTarget
  <2>4. TargetMessage(s, m) = RedirectDone(s, m.type = "redirectFailed")
    BY <1>10, <2>2, <2>3 DEF TargetMessage, Answers, Is
  <2>5. CASE m.type = "redirectFailed"
    <3>1. ServerOK(RedirectDone(s, TRUE)) /\ Sent(RedirectDone(s, TRUE), <<Failed>>, << >>)
      BY <1>2, <2>2, RefusedOK
    <3>2. TargetMessage(s, m) = RedirectDone(s, TRUE)
      BY <2>4, <2>5
    <3> QED
      BY <1>1, <1>7, <2>5, <3>1, <3>2, EndMessages DEF Cmd, Rep
  <2>6. CASE m.type = "redirected"
    <3>1. ServerOK(RedirectDone(s, FALSE)) /\ Sent(RedirectDone(s, FALSE), <<Redirected>>, << >>)
      BY <1>2, <2>2, AcceptedOK
    <3>2. TargetMessage(s, m) = RedirectDone(s, FALSE)
      <4>1. (m.type = "redirectFailed") = FALSE
        BY <2>6
      <4> QED
        BY <2>4, <4>1
    <3> QED
      BY <1>1, <1>7, <2>6, <3>1, <3>2, RedirectedMessage DEF Cmd, Rep
  <2> QED
    BY <1>10, <2>5, <2>6 DEF Answers
<1>11. CASE m.type \in {"R", "N", "E"}
  <2>1. Becomes(Put(s, "H", Relayed(m)), cq, Tail(rq))
    BY <1>1, <1>2, <1>4, <1>5, <1>11, RelaysReply
  <2>2. Relayed(m) \in Message /\ Relayed(m).type = m.type /\ Relayed(m).id = m.id
    BY <1>2, <1>4, <1>5, <1>11, RelaysReply
  <2>3. CASE m.type = "E"
    BY <1>1, <1>2, <1>4, <1>6, <2>1, <2>2, <2>3, PutQuiet DEF Cmd, Rep
  <2>4. CASE m.type # "E"
    BY <1>1, <1>11, <2>1, <2>2, <2>4, ReplyKept DEF Rep
  <2> QED
    BY <2>3, <2>4
<1> QED
  BY <1>4, <1>8, <1>9, <1>10, <1>11 DEF FromTarget, Control, Answers

\* The server closes a channel.
LEMMA CloseChannelKept ==
    ASSUME IInv, TypeOK', OnceInv, NEW c \in Chans, CloseChannel(c)
    PROVE  Kept
<1>1. s.state[c] \notin {"none", "Disconnected"} /\ Becomes(Closed(s, c), cq, rq) /\ Still
  BY DEF CloseChannel, Still
<1>2. ServerOK(s) /\ cq \in Seq(Message) /\ rq \in Seq(Message)
  BY InvParts
<1>3. CASE c = "H"
  BY <1>1, <1>2, <1>3, ClosesHostKept
<1>4. CASE c = "T"
  <2>1. TargetOpen(s)
    BY <1>1, <1>2, <1>4, Open DEF TargetOpen
  <2> QED
    BY <1>1, <1>2, <1>4, <2>1, ClosesTargetKept
<1> QED
  BY <1>3, <1>4, TwoChans

\* An event of the server's own services.
LEMMA BroadcastKept ==
    ASSUME IInv, TypeOK', OnceInv, Broadcast
    PROVE  Kept
<1> DEFINE n == Msg("E", 0, 0, 0)
<1>1. Becomes(Put(s, "H", n), cq, rq) /\ client' = client /\ target' = target
  BY DEF Broadcast
<1>2. n \in Message /\ n.type \notin Cmd \cup Rep
  BY MsgType DEF Types, Cmd, Rep
<1>3. cq \in Seq(Message) /\ rq \in Seq(Message)
  BY InvParts
<1> HIDE DEF n
<1> QED
  BY <1>1, <1>2, <1>3, PutQuiet

\* connect_done() of the Locator service.
LEMMA ConnectDoneKept ==
    ASSUME IInv, TypeOK', OnceInv, NEW error \in BOOLEAN, ConnectDone(error)
    PROVE  Kept
<1> DEFINE r == ConnectResult(s, error)
<1>1. /\ s.redirect = "connect" /\ Becomes(r, cq, rq) /\ client' = client
      /\ target' = IF error THEN target ELSE [target EXCEPT !.state = "Started", !.gen = 1]
  BY DEF ConnectDone, ConnectResult, Refused, Accepted, Tried, Met, Failed, Redirected
<1>2. /\ TypeOK /\ ServerOK(s) /\ Sent(s, << >>, << >>) /\ cq \in Seq(Message) /\ rq \in Seq(Message)
      /\ TargetOK(s, target, tq, rq)
  BY InvParts
<1>3. s.state["T"] = "none" /\ target.state = "none"
  BY <1>1, <1>2, Open DEF TargetOK
<1>4. /\ ServerOK(r)
      /\ \/ Is(r, "none", "Connected", "none", "no") /\ Sent(r, <<Failed>>, << >>) /\ error
         \/ Is(r, "made", "HelloReceived", "HelloSent", "no") /\ Sent(r, <<Redirected>>, <<Msg("Hello", 0, 0, 0)>>) /\ ~error
         \/ Is(r, "none", "Disconnected", "none", "no") /\ Sent(r, << >>, << >>) /\ error
         \/ Is(r, "none", "Disconnected", "Disconnected", "no") /\ Sent(r, << >>, <<EOS>>) /\ ~error
  BY <1>1, <1>2, ConnectDoes
<1>5. s.state["H"] = "Disconnected" => r.state["H"] = "Disconnected"
  <2>1. CASE s.state["H"] = "Disconnected"
    <3>1. r = IF error THEN Tried(s) ELSE Closed(Met(Tried(s)), "T")
      BY <2>1 DEF ConnectResult, IsClosed
    <3> HIDE DEF r
    <3> QED
      BY <1>1, <1>2, <2>1, <3>1, TriedOK, LateOK DEF Is
  <2> QED
    BY <2>1
<1> HIDE DEF r
<1>6. Quiet(<< >>) /\ Quiet(<<Failed>>) /\ Quiet(<<Redirected>>) /\ Quiet(<<EOS>>) /\ Quiet(<<Msg("Hello", 0, 0, 0)>>)
  <2>1. Msg("Hello", 0, 0, 0) \in Message /\ Msg("Hello", 0, 0, 0).type = "Hello"
    BY MsgType DEF Types
  <2> QED
    BY <2>1, QuietMessages, EndMessages, RedirectedMessage DEF Cmd, Rep
<1>7. Quiet(r.out["H"]) /\ Quiet(r.out["T"])
  BY <1>4, <1>6 DEF Sent
<1>8. target'.pending = target.pending
  BY <1>1, <1>2 DEF TypeOK
<1>9. StaysClosed(s, r)
  BY <1>3, <1>5, TwoChans DEF StaysClosed
<1> QED
  BY <1>1, <1>2, <1>3, <1>4, <1>7, <1>8, <1>9, QuietKept

\* A step that changes no queue, no command and no reply.
LEMMA SameKept ==
    ASSUME TypeOK, TypeOK', OnceInv, cq' = cq, tq' = tq, rq' = rq, hq' = hq, client' = client, target' = target,
           s'.state = s.state
    PROVE  Kept
<1>1. ASSUME NEW k \in Nat
      PROVE  Places(k)' = Places(k) /\ Places(k) \in Nat
  <2>1. Places(k) \in Nat
    BY PlacesNow DEF OnceInv
  <2>2. Places(k)' = Places(k)
    BY Zenon DEF Places, Count
  <2> QED
    BY <2>1, <2>2
<1>2. Whole' = Whole
  BY DEF Whole
<1>3. IsFiniteSet(target'.pending) /\ client'.sent = client.sent
  BY DEF OnceInv
<1> QED
  BY <1>1, <1>2, <1>3 DEF Kept

\* The last read of a closed channel.
LEMMA ReaderDoneKept ==
    ASSUME IInv, TypeOK', OnceInv, NEW c \in Chans, ReaderDone(c)
    PROVE  Kept
<1>1. /\ s' = [Unlock(s, c) EXCEPT !.read = @ \cup {c}] /\ client' = client /\ target' = target
      /\ cq' = cq /\ hq' = hq /\ tq' = tq /\ rq' = rq
  BY DEF ReaderDone
<1>2. s \in Server /\ TypeOK
  BY InvParts DEF ServerOK
<1>3. s'.state = s.state
  BY <1>1, <1>2 DEF Unlock, Server
<1> QED
  BY <1>1, <1>2, <1>3, SameKept

-----------------------------------------------------------------------------
(* The client and the targets.                                                *)

\* The sum, before and after a step.
LEMMA SumNow ==
    ASSUME TypeOK, OnceInv, NEW k \in Nat
    PROVE  /\ Places(k) = Count(cq, Cmd, k) + Count(tq, Cmd, k) + Count(rq, Rep, k) + Count(hq, Rep, k)
                            + Cardinality(Pending(target, k)) + Cardinality(Done(client, k))
           /\ Count(cq, Cmd, k) \in Nat /\ Count(tq, Cmd, k) \in Nat /\ Count(rq, Rep, k) \in Nat
           /\ Count(hq, Rep, k) \in Nat /\ Cardinality(Pending(target, k)) \in Nat
           /\ Cardinality(Done(client, k)) \in Nat
<1>1. cq \in Seq(Message) /\ hq \in Seq(Message) /\ tq \in Seq(Message) /\ rq \in Seq(Message) /\ client.done \in Seq(Nat)
  BY DEF TypeOK
<1>2. Places(k) = Parts(cq, tq, rq, hq, target, client, k)
  BY PlacesParts
<1>3. Count(cq, Cmd, k) \in Nat /\ Count(tq, Cmd, k) \in Nat /\ Count(rq, Rep, k) \in Nat /\ Count(hq, Rep, k) \in Nat
  BY <1>1, CountType
<1>4. Cardinality(Pending(target, k)) \in Nat /\ Cardinality(Done(client, k)) \in Nat
  BY <1>1, PendingDone DEF OnceInv
<1> QED
  BY <1>2, <1>3, <1>4 DEF Parts

\* The same after a step.
LEMMA SumThen ==
    ASSUME TypeOK', IsFiniteSet(target'.pending), NEW k \in Nat
    PROVE  /\ Places(k)' = Count(cq', Cmd, k) + Count(tq', Cmd, k) + Count(rq', Rep, k) + Count(hq', Rep, k)
                             + Cardinality(Pending(target', k)) + Cardinality(Done(client', k))
           /\ Count(cq', Cmd, k) \in Nat /\ Count(tq', Cmd, k) \in Nat /\ Count(rq', Rep, k) \in Nat
           /\ Count(hq', Rep, k) \in Nat /\ Cardinality(Pending(target', k)) \in Nat
           /\ Cardinality(Done(client', k)) \in Nat
<1>1. /\ cq' \in Seq(Message) /\ hq' \in Seq(Message) /\ tq' \in Seq(Message) /\ rq' \in Seq(Message)
      /\ client'.done \in Seq(Nat)
  BY DEF TypeOK
<1>2. Places(k)' = Parts(cq', tq', rq', hq', target', client', k)
  BY PlacesThen
<1>3. Count(cq', Cmd, k) \in Nat /\ Count(tq', Cmd, k) \in Nat /\ Count(rq', Rep, k) \in Nat /\ Count(hq', Rep, k) \in Nat
  BY <1>1, CountType
<1>4. Cardinality(Pending(target', k)) \in Nat /\ Cardinality(Done(client', k)) \in Nat
  BY <1>1, PendingDone
<1> QED
  BY <1>2, <1>3, <1>4 DEF Parts

\* What a client or a target sends arrives, or its channel is closed.
LEMMA Arrives ==
    ASSUME NEW c \in Chans, NEW q \in Seq(Message), NEW m \in Message, NEW types, NEW k
    PROVE  Count(ToServer(c, q, m), types, k)
             = Count(q, types, k) + (IF s.state[c] = "Disconnected" THEN 0 ELSE Match(m, types, k))
<1>1. Count(q, types, k) \in Nat
  BY CountType
<1> QED
  BY <1>1, CountAppend DEF ToServer

\* A step of the client that sends no command.
LEMMA ClientKept ==
    ASSUME IInv, TypeOK', OnceInv, UNCHANGED <<s, target, tq, rq>>, client'.sent = client.sent,
           client.state = "closed" => client'.state = "closed", NEW n \in Message, n.type \notin Cmd,
           cq' = cq \/ cq' = ToServer("H", cq, n),
           \A k \in Nat : Count(hq', Rep, k) + Cardinality(Done(client', k))
                            = Count(hq, Rep, k) + Cardinality(Done(client, k))
    PROVE  Kept
<1>1. TypeOK /\ cq \in Seq(Message) /\ IsFiniteSet(target'.pending)
  BY InvParts DEF OnceInv
<1>2. ASSUME NEW k \in Nat
      PROVE  Places(k)' = Places(k) /\ Places(k) \in Nat
  <2>1. Count(cq', Cmd, k) = Count(cq, Cmd, k)
    <3>1. Match(n, Cmd, k) = 0 /\ Count(cq, Cmd, k) \in Nat
      BY <1>1, CountType DEF Match
    <3>2. CASE cq' = cq
      BY <3>2
    <3>3. CASE cq' = ToServer("H", cq, n)
      BY <1>1, <3>1, <3>3, Arrives, TwoChans
    <3> QED
      BY <3>2, <3>3
  <2>2. Count(tq', Cmd, k) = Count(tq, Cmd, k) /\ Count(rq', Rep, k) = Count(rq, Rep, k)
    BY Zenon
  <2>3. Cardinality(Pending(target', k)) = Cardinality(Pending(target, k))
    BY Zenon
  <2>4. Count(hq', Rep, k) + Cardinality(Done(client', k)) = Count(hq, Rep, k) + Cardinality(Done(client, k))
    OBVIOUS
  <2>7. /\ Places(k) = Count(cq, Cmd, k) + Count(tq, Cmd, k) + Count(rq, Rep, k) + Count(hq, Rep, k)
                          + Cardinality(Pending(target, k)) + Cardinality(Done(client, k))
        /\ Count(cq, Cmd, k) \in Nat /\ Count(tq, Cmd, k) \in Nat /\ Count(rq, Rep, k) \in Nat
        /\ Count(hq, Rep, k) \in Nat /\ Cardinality(Pending(target, k)) \in Nat
        /\ Cardinality(Done(client, k)) \in Nat
    BY <1>1, SumNow
  <2>8. /\ Places(k)' = Count(cq', Cmd, k) + Count(tq', Cmd, k) + Count(rq', Rep, k) + Count(hq', Rep, k)
                           + Cardinality(Pending(target', k)) + Cardinality(Done(client', k))
        /\ Count(cq', Cmd, k) \in Nat /\ Count(tq', Cmd, k) \in Nat /\ Count(rq', Rep, k) \in Nat
        /\ Count(hq', Rep, k) \in Nat /\ Cardinality(Pending(target', k)) \in Nat
        /\ Cardinality(Done(client', k)) \in Nat
    BY <1>1, SumThen
  <2> QED
    BY <2>1, <2>2, <2>3, <2>4, <2>7, <2>8
<1>3. Whole' => Whole
  BY DEF Whole
<1> QED
  BY <1>1, <1>2, <1>3 DEF Kept

\* A step of a target.
LEMMA TargetKept ==
    ASSUME IInv, TypeOK', OnceInv, UNCHANGED <<s, client, cq, hq>>, IsFiniteSet(target'.pending),
           target.state = "closed" => target'.state = "closed", NEW n \in Message,
           rq' = ToServer("T", rq, n) \/ (rq' = rq /\ n.type \notin Rep),
           \A k \in Nat : Count(tq', Cmd, k) + Cardinality(Pending(target', k)) + Match(n, Rep, k)
                            = Count(tq, Cmd, k) + Cardinality(Pending(target, k))
    PROVE  Kept
<1>1. TypeOK /\ rq \in Seq(Message)
  BY InvParts
<1>2. Whole' => Whole /\ s.state["T"] # "Disconnected"
  BY DEF Whole
<1>3. ASSUME NEW k \in Nat
      PROVE  Places(k)' <= Places(k) /\ (Whole' => Places(k)' = Places(k))
  <2>1. Match(n, Rep, k) \in Nat
    BY DEF Match
  <2>2. /\ Count(rq', Rep, k) <= Count(rq, Rep, k) + Match(n, Rep, k)
        /\ s.state["T"] # "Disconnected" => Count(rq', Rep, k) = Count(rq, Rep, k) + Match(n, Rep, k)
    <3>1. Count(rq, Rep, k) \in Nat
      BY <1>1, CountType
    <3>2. CASE rq' = ToServer("T", rq, n)
      <4>1. Count(rq', Rep, k)
              = Count(rq, Rep, k) + (IF s.state["T"] = "Disconnected" THEN 0 ELSE Match(n, Rep, k))
        BY <1>1, <3>2, Arrives, TwoChans
      <4> QED
        BY <2>1, <3>1, <4>1
    <3>3. CASE rq' = rq /\ n.type \notin Rep
      <4>1. Match(n, Rep, k) = 0
        BY <3>3 DEF Match
      <4> QED
        BY <3>1, <3>3, <4>1
    <3> QED
      BY <3>2, <3>3
  <2>3. Count(cq', Cmd, k) = Count(cq, Cmd, k) /\ Count(hq', Rep, k) = Count(hq, Rep, k)
    BY Zenon
  <2>4. Cardinality(Done(client', k)) = Cardinality(Done(client, k))
    BY Zenon
  <2>5. Count(tq', Cmd, k) + Cardinality(Pending(target', k)) + Match(n, Rep, k)
          = Count(tq, Cmd, k) + Cardinality(Pending(target, k))
    OBVIOUS
  <2>7. /\ Places(k) = Count(cq, Cmd, k) + Count(tq, Cmd, k) + Count(rq, Rep, k) + Count(hq, Rep, k)
                          + Cardinality(Pending(target, k)) + Cardinality(Done(client, k))
        /\ Count(cq, Cmd, k) \in Nat /\ Count(tq, Cmd, k) \in Nat /\ Count(rq, Rep, k) \in Nat
        /\ Count(hq, Rep, k) \in Nat /\ Cardinality(Pending(target, k)) \in Nat
        /\ Cardinality(Done(client, k)) \in Nat
    BY <1>1, SumNow
  <2>8. /\ Places(k)' = Count(cq', Cmd, k) + Count(tq', Cmd, k) + Count(rq', Rep, k) + Count(hq', Rep, k)
                           + Cardinality(Pending(target', k)) + Cardinality(Done(client', k))
        /\ Count(cq', Cmd, k) \in Nat /\ Count(tq', Cmd, k) \in Nat /\ Count(rq', Rep, k) \in Nat
        /\ Count(hq', Rep, k) \in Nat /\ Cardinality(Pending(target', k)) \in Nat
        /\ Cardinality(Done(client', k)) \in Nat
    BY <1>1, SumThen
  <2>6. Places(k)' <= Places(k) /\ (s.state["T"] # "Disconnected" => Places(k)' = Places(k))
    BY <2>1, <2>2, <2>3, <2>4, <2>5, <2>7, <2>8
  <2> QED
    BY <1>2, <2>6
<1>4. client'.sent = client.sent
  OBVIOUS
<1> QED
  BY <1>2, <1>3, <1>4 DEF Kept

\* The client sends a command: it is on its way, or it is dropped.
LEMMA ClientSendOnce ==
    ASSUME IInv, TypeOK', OnceInv, NEW j \in Cmds, ClientSend(j)
    PROVE  OnceInv'
<1> DEFINE n == Msg("C", j, 0, 0)
<1>1. /\ UNCHANGED <<s, target, hq, tq, rq>> /\ client' = [client EXCEPT !.sent = @ \cup {j}]
      /\ j \notin client.sent /\ client.state # "closed" /\ cq' = ToServer("H", cq, n)
  BY DEF ClientSend
<1>2. TypeOK /\ cq \in Seq(Message)
  BY InvParts
<1>3. /\ client'.done = client.done /\ client'.sent = client.sent \cup {j} /\ client'.state = client.state
  BY <1>1, <1>2 DEF TypeOK
<1>4. j \in Nat /\ n \in Message /\ n.type = "C" /\ n.id = j
  <2>1. j \in Nat
    BY ConstantAssumption
  <2> QED
    BY <2>1, MsgType DEF Types
<1>5. IsFiniteSet(target'.pending)
  BY <1>1 DEF OnceInv
<1> HIDE DEF n
<1>6. Whole' => Whole /\ s.state["H"] # "Disconnected"
  BY <1>1, <1>3 DEF Whole
<1>7. ASSUME NEW k \in Nat
      PROVE  /\ Places(k) \in Nat
             /\ Places(k)' = Places(k) + (IF s.state["H"] = "Disconnected" \/ k # j THEN 0 ELSE 1)
  <2>1. Count(cq', Cmd, k) = Count(cq, Cmd, k) + (IF s.state["H"] = "Disconnected" \/ k # j THEN 0 ELSE 1)
    <3>1. Match(n, Cmd, k) = (IF k # j THEN 0 ELSE 1)
      BY <1>4 DEF Match, Cmd
    <3>2. Count(cq', Cmd, k) = Count(cq, Cmd, k) + (IF s.state["H"] = "Disconnected" THEN 0 ELSE Match(n, Cmd, k))
      BY <1>1, <1>2, <1>4, Arrives, TwoChans
    <3> QED
      BY <3>1, <3>2
  <2>2. Count(tq', Cmd, k) = Count(tq, Cmd, k) /\ Count(rq', Rep, k) = Count(rq, Rep, k) /\ Count(hq', Rep, k) = Count(hq, Rep, k)
    BY <1>1
  <2>3. Pending(target', k) = Pending(target, k) /\ Done(client', k) = Done(client, k)
    BY <1>1, <1>3 DEF Done, Pending
  <2>4. Cardinality(Pending(target', k)) = Cardinality(Pending(target, k)) /\ Cardinality(Done(client', k)) = Cardinality(Done(client, k))
    BY <2>3
  <2>5. /\ Places(k) = Count(cq, Cmd, k) + Count(tq, Cmd, k) + Count(rq, Rep, k) + Count(hq, Rep, k)
                         + Cardinality(Pending(target, k)) + Cardinality(Done(client, k))
        /\ Count(cq, Cmd, k) \in Nat /\ Count(tq, Cmd, k) \in Nat /\ Count(rq, Rep, k) \in Nat
        /\ Count(hq, Rep, k) \in Nat /\ Cardinality(Pending(target, k)) \in Nat
        /\ Cardinality(Done(client, k)) \in Nat
    BY <1>2, SumNow
  <2>6. Places(k)' = Count(cq', Cmd, k) + Count(tq', Cmd, k) + Count(rq', Rep, k) + Count(hq', Rep, k)
                       + Cardinality(Pending(target', k)) + Cardinality(Done(client', k))
    BY <1>5, SumThen
  <2> QED
    BY <2>1, <2>2, <2>4, <2>5, <2>6
<1>8. ASSUME NEW k \in Nat
      PROVE  /\ k \in client'.sent => Places(k)' <= 1 /\ (Whole' => Places(k)' = 1)
             /\ k \notin client'.sent => Places(k)' = 0
  <2>1. /\ k \in client.sent => Places(k) <= 1 /\ (Whole => Places(k) = 1)
        /\ k \notin client.sent => Places(k) = 0
    BY DEF OnceInv
  <2>2. CASE k = j
    BY <1>1, <1>3, <1>6, <1>7, <2>1, <2>2
  <2>3. CASE k # j
    <3>1. Places(k)' = Places(k) /\ (k \in client'.sent <=> k \in client.sent)
      BY <1>3, <1>7, <2>3
    <3> QED
      BY <1>6, <2>1, <3>1
  <2> QED
    BY <2>2, <2>3
<1> QED
  BY <1>5, <1>8 DEF OnceInv

\* The client asks for a redirection, or closes the connection.
LEMMA ClientSaysKept ==
    ASSUME IInv, TypeOK', OnceInv, ClientRedirect \/ ClientClose
    PROVE  Kept
<1>1. TypeOK
  BY InvParts
<1>2. PICK n \in Message : n.type \notin Cmd /\ cq' = ToServer("H", cq, n)
  <2>1. Msg("redirect", 0, 0, 0) \in Message /\ Msg("redirect", 0, 0, 0).type = "redirect"
    BY MsgType DEF Types
  <2>2. EOS \in Message /\ EOS.type = "EOS"
    BY EndMessages
  <2>3. cq' = ToServer("H", cq, Msg("redirect", 0, 0, 0)) \/ cq' = ToServer("H", cq, EOS)
    BY DEF ClientRedirect, ClientClose, EOS
  <2> QED
    BY <2>1, <2>2, <2>3 DEF Cmd
<1>3. /\ UNCHANGED <<s, target, tq, rq, hq>> /\ client'.sent = client.sent /\ client'.done = client.done
      /\ client.state = "closed" => client'.state = "closed"
  BY <1>1 DEF ClientRedirect, ClientClose, TypeOK
<1>4. \A k \in Nat : Done(client', k) = Done(client, k)
  BY <1>3 DEF Done
<1>5. \A k \in Nat : Count(hq', Rep, k) + Cardinality(Done(client', k)) = Count(hq, Rep, k) + Cardinality(Done(client, k))
  BY <1>3, <1>4
<1> QED
  BY <1>2, <1>3, <1>5, ClientKept

\* One more answer.
LEMMA DoneAppend ==
    ASSUME NEW cl, cl.done \in Seq(Nat), NEW cl2, NEW x \in Nat, cl2.done = Append(cl.done, x), NEW k \in Nat
    PROVE  Cardinality(Done(cl2, k)) = Cardinality(Done(cl, k)) + (IF x = k THEN 1 ELSE 0)
<1> DEFINE d == cl.done
           e == cl2.done
           l == Len(d) + 1
<1>1. Len(d) \in Nat /\ Len(e) = l /\ e[l] = x /\ \A i \in 1..Len(d) : e[i] = d[i]
  OBVIOUS
<1>2. Done(cl, k) = {i \in 1..Len(d) : d[i] = k} /\ Done(cl2, k) = {i \in 1..Len(e) : e[i] = k}
  BY DEF Done
<1> HIDE DEF d, e
<1>3. Done(cl2, k) = (IF x = k THEN Done(cl, k) \cup {l} ELSE Done(cl, k))
  BY <1>1, <1>2
<1>4. l \notin Done(cl, k)
  BY <1>1, <1>2
<1>5. IsFiniteSet(Done(cl, k)) /\ Cardinality(Done(cl, k)) \in Nat
  BY PendingDone
<1>6. Cardinality(Done(cl, k) \cup {l}) = Cardinality(Done(cl, k)) + 1
  BY <1>4, <1>5, FS_AddElement
<1> QED
  BY <1>3, <1>5, <1>6

\* The client reads a message.
LEMMA ClientReceiveKept ==
    ASSUME IInv, TypeOK', OnceInv, ClientReceive
    PROVE  Kept
<1> DEFINE m == Head(hq)
<1>1. /\ hq # << >> /\ hq' = Tail(hq) /\ UNCHANGED <<s, target, cq, tq, rq>> /\ client.state # "closed"
      /\ client' = CASE m.type \in {"R", "N"} -> [client EXCEPT !.done = Append(@, m.id)]
                     [] m.type = "redirected" -> [client EXCEPT !.state = "HelloSent"]
                     [] m.type = "redirectFailed" -> [client EXCEPT !.state = "Connected"]
                     [] m.type = "Hello" -> [client EXCEPT !.state = "Connected", !.gen = m.gen]
                     [] m.type = "EOS" -> [client EXCEPT !.state = "closed"]
                     [] OTHER -> client
  BY DEF ClientReceive
<1>2. TypeOK /\ hq \in Seq(Message)
  BY InvParts
<1>3. m \in Message /\ m.id \in Nat
  <2>1. m \in Message
    BY <1>1, <1>2, TailEntries
  <2> HIDE DEF m
  <2> QED
    BY <2>1 DEF Message
<1>4. client.done \in Seq(Nat)
  BY <1>2 DEF TypeOK
<1>5. client'.sent = client.sent /\ (m.type \in Rep => client'.done = Append(client.done, m.id))
      /\ (m.type \notin Rep => client'.done = client.done)
  <2>1. client \in [state : {"Connected", "RedirectSent", "HelloSent", "closed"}, gen : Nat,
                    sent : SUBSET Cmds, done : Seq(Nat), redirects : Nat]
    BY <1>2 DEF TypeOK
  <2> HIDE DEF m
  <2>2. CASE m.type \in Rep
    <3>1. client' = [client EXCEPT !.done = Append(@, m.id)]
      BY <1>1, <2>2 DEF Rep
    <3> QED
      BY <2>1, <2>2, <3>1
  <2>3. CASE m.type \notin Rep
    <3>1. \/ client' = client \/ client' = [client EXCEPT !.state = "HelloSent"]
          \/ client' = [client EXCEPT !.state = "Connected"] \/ client' = [client EXCEPT !.state = "closed"]
          \/ client' = [client EXCEPT !.state = "Connected", !.gen = m.gen]
      BY <1>1, <2>3 DEF Rep
    <3> QED
      BY <2>1, <2>3, <3>1
  <2> QED
    BY <2>2, <2>3
<1>6. ASSUME NEW k \in Nat
      PROVE  Count(hq', Rep, k) + Cardinality(Done(client', k)) = Count(hq, Rep, k) + Cardinality(Done(client, k))
  <2>1. Count(hq, Rep, k) = Match(m, Rep, k) + Count(hq', Rep, k)
    BY <1>1, <1>2, CountTail
  <2>2. Cardinality(Done(client', k)) = Cardinality(Done(client, k)) + Match(m, Rep, k)
    <3>1. Cardinality(Done(client, k)) \in Nat
      BY <1>4, PendingDone
    <3>2. CASE m.type \in Rep
      <4>1. Cardinality(Done(client', k)) = Cardinality(Done(client, k)) + (IF m.id = k THEN 1 ELSE 0)
        BY ZenonT(30), <1>3, <1>4, <1>5, <3>2, DoneAppend
      <4> QED
        BY <3>2, <4>1 DEF Match
    <3>3. CASE m.type \notin Rep
      <4>1. Done(client', k) = Done(client, k) /\ Match(m, Rep, k) = 0
        BY <1>5, <3>3 DEF Done, Match
      <4> QED
        BY <3>1, <4>1
    <3> QED
      BY <3>2, <3>3
  <2>3. Count(hq', Rep, k) \in Nat /\ Cardinality(Done(client, k)) \in Nat /\ Match(m, Rep, k) \in Nat
    <3>1. hq' \in Seq(Message)
      BY DEF TypeOK
    <3> QED
      BY <1>4, <3>1, CountType, PendingDone DEF Match
  <2> QED
    BY <2>1, <2>2, <2>3
<1>7. EOS \in Message /\ EOS.type \notin Cmd
  BY EndMessages DEF Cmd
<1> HIDE DEF m
<1> QED
  BY <1>1, <1>5, <1>6, <1>7, ClientKept

\* A target says Hello, sends an event, or closes the connection.
LEMMA TargetSaysKept ==
    ASSUME IInv, TypeOK', OnceInv, TargetHello \/ TargetEvent \/ TargetClose
    PROVE  Kept
<1>1. TypeOK /\ tq \in Seq(Message)
  BY InvParts
<1>2. target.gen \in Nat
  BY <1>1 DEF TypeOK
<1>3. PICK n \in Message : n.type \notin Rep /\ rq' = ToServer("T", rq, n)
  <2>1. /\ Msg("Hello", 0, 0, target.gen) \in Message /\ Msg("Hello", 0, 0, target.gen).type = "Hello"
        /\ Msg("E", 0, 0, target.gen) \in Message /\ Msg("E", 0, 0, target.gen).type = "E"
    BY <1>2, MsgType DEF Types
  <2>2. EOS \in Message /\ EOS.type = "EOS"
    BY EndMessages
  <2>3. rq' \in {ToServer("T", rq, Msg("Hello", 0, 0, target.gen)), ToServer("T", rq, Msg("E", 0, 0, target.gen)),
                 ToServer("T", rq, EOS)}
    BY DEF TargetHello, TargetEvent, TargetClose, EOS
  <2> QED
    BY <2>1, <2>2, <2>3 DEF Rep
<1>4. /\ UNCHANGED <<s, client, cq, hq>> /\ tq' = tq /\ target'.pending = target.pending
      /\ target.state = "closed" => target'.state = "closed"
  BY <1>1 DEF TargetHello, TargetEvent, TargetClose, TypeOK
<1>5. ASSUME NEW k \in Nat
      PROVE  Count(tq', Cmd, k) + Cardinality(Pending(target', k)) + Match(n, Rep, k)
               = Count(tq, Cmd, k) + Cardinality(Pending(target, k))
  <2>1. Pending(target', k) = Pending(target, k)
    BY Zenon, <1>4 DEF Pending
  <2>2. Match(n, Rep, k) = 0
    BY <1>3 DEF Match
  <2>3. Cardinality(Pending(target', k)) = Cardinality(Pending(target, k)) /\ Count(tq', Cmd, k) = Count(tq, Cmd, k)
    BY <1>4, <2>1
  <2>4. Count(tq, Cmd, k) \in Nat /\ Cardinality(Pending(target, k)) \in Nat
    BY <1>1, CountType, PendingDone DEF OnceInv
  <2> QED
    BY <2>2, <2>3, <2>4
<1>6. IsFiniteSet(target'.pending)
  BY <1>4 DEF OnceInv
<1> QED
  BY <1>3, <1>4, <1>5, <1>6, TargetKept

\* The commands of a set that are about k.
With(S, k) == {m \in S : m.id = k}

\* The commands about k are finite in number.
LEMMA WithType ==
    ASSUME NEW S, IsFiniteSet(S), NEW k
    PROVE  IsFiniteSet(With(S, k)) /\ Cardinality(With(S, k)) \in Nat
<1>1. With(S, k) \in SUBSET S
  BY DEF With
<1> QED
  BY <1>1, FS_Subset, FS_CardinalityType

\* A command joins those that wait for their answers.
LEMMA WithAdded ==
    ASSUME NEW S, IsFiniteSet(S), NEW m, m \notin S, NEW k
    PROVE  Cardinality(With(S \cup {m}, k)) = Cardinality(With(S, k)) + (IF m.id = k THEN 1 ELSE 0)
<1>1. IsFiniteSet(With(S, k)) /\ Cardinality(With(S, k)) \in Nat
  BY WithType
<1>2. With(S \cup {m}, k) = IF m.id = k THEN With(S, k) \cup {m} ELSE With(S, k)
  BY DEF With
<1>3. m \notin With(S, k)
  BY DEF With
<1>4. Cardinality(With(S, k) \cup {m}) = Cardinality(With(S, k)) + 1
  BY <1>1, <1>3, FS_AddElement
<1> QED
  BY <1>1, <1>2, <1>4

\* A command that was answered leaves them.
LEMMA WithRemoved ==
    ASSUME NEW S, IsFiniteSet(S), NEW m \in S, NEW k
    PROVE  Cardinality(With(S \ {m}, k)) = Cardinality(With(S, k)) - (IF m.id = k THEN 1 ELSE 0)
<1>1. IsFiniteSet(With(S, k)) /\ Cardinality(With(S, k)) \in Nat
  BY WithType
<1>2. With(S \ {m}, k) = IF m.id = k THEN With(S, k) \ {m} ELSE With(S, k)
  BY DEF With
<1>3. m.id = k => m \in With(S, k)
  BY DEF With
<1>4. m.id = k => Cardinality(With(S, k) \ {m}) = Cardinality(With(S, k)) - 1
  BY <1>1, <1>3, FS_RemoveElement
<1> QED
  BY <1>1, <1>2, <1>4

\* A target answers a command.
LEMMA TargetReplyKept ==
    ASSUME IInv, TypeOK', OnceInv, NEW m \in target.pending, TargetReply(m)
    PROVE  Kept
<1> DEFINE n == [m EXCEPT !.type = "R"]
<1>1. /\ UNCHANGED <<s, client, cq, hq, tq>> /\ target' = [target EXCEPT !.pending = @ \ {m}]
      /\ rq' = ToServer("T", rq, n) /\ target.state # "closed"
  BY DEF TargetReply
<1>2. TypeOK /\ tq \in Seq(Message)
  BY InvParts
<1>3. m \in Message /\ target'.pending = target.pending \ {m}
  BY <1>1, <1>2 DEF TypeOK
<1>4. n \in Message /\ n.type = "R" /\ n.id = m.id
  BY <1>3 DEF Message, Types
<1> HIDE DEF n
<1>5. ASSUME NEW k \in Nat
      PROVE  /\ IsFiniteSet(target'.pending)
             /\ Count(tq', Cmd, k) + Cardinality(Pending(target', k)) + Match(n, Rep, k)
                  = Count(tq, Cmd, k) + Cardinality(Pending(target, k))
  <2>1. /\ IsFiniteSet(target'.pending)
        /\ Cardinality(Pending(target', k)) = Cardinality(Pending(target, k)) - (IF m.id = k THEN 1 ELSE 0)
    <3>1. IsFiniteSet(target.pending) /\ m \in target.pending
      BY DEF OnceInv
    <3>2. Pending(target', k) = With(target.pending \ {m}, k) /\ Pending(target, k) = With(target.pending, k)
      BY Zenon, <1>3 DEF Pending, With
    <3>3. /\ IsFiniteSet(target.pending \ {m})
          /\ Cardinality(With(target.pending \ {m}, k))
               = Cardinality(With(target.pending, k)) - (IF m.id = k THEN 1 ELSE 0)
      BY <3>1, WithRemoved, FS_RemoveElement
    <3> QED
      BY <1>3, <3>2, <3>3
  <2>2. Match(n, Rep, k) = (IF m.id = k THEN 1 ELSE 0)
    BY <1>4 DEF Match, Rep
  <2>3. Count(tq, Cmd, k) \in Nat /\ Cardinality(Pending(target, k)) \in Nat /\ Count(tq', Cmd, k) = Count(tq, Cmd, k)
    BY <1>1, <1>2, CountType, PendingDone DEF OnceInv
  <2> QED
    BY <2>1, <2>2, <2>3
<1> QED
  BY <1>1, <1>4, <1>5, TargetKept

\* A target reads a message.
LEMMA TargetReceiveKept ==
    ASSUME IInv, TypeOK', OnceInv, TargetReceive
    PROVE  Kept
<1> DEFINE m == Head(tq)
<1>1. /\ tq # << >> /\ tq' = Tail(tq) /\ UNCHANGED <<s, client, cq, hq>> /\ target.state # "closed"
      /\ \/ /\ m.type = "Hello"
            /\ target' = [target EXCEPT !.state = IF @ = "Started" THEN "HelloReceived" ELSE "Connected"]
            /\ UNCHANGED rq
         \/ m.type = "EOS" /\ target' = [target EXCEPT !.state = "closed"] /\ UNCHANGED rq
         \/ /\ m.type = "C" /\ target' = [target EXCEPT !.pending = @ \cup {m}] /\ UNCHANGED rq
         \/ /\ m.type = "C" /\ rq' = ToServer("T", rq, [m EXCEPT !.type = "N"]) /\ UNCHANGED target
         \/ /\ m.type = "redirect" /\ rq' = ToServer("T", rq, [m EXCEPT !.type = "redirectFailed"])
            /\ UNCHANGED target
         \/ /\ m.type = "redirect" /\ rq' = ToServer("T", rq, [m EXCEPT !.type = "redirected"])
            /\ target' = [target EXCEPT !.state = "HelloReceived", !.gen = @ + 1]
  BY Zenon DEF TargetReceive
<1>2. TypeOK /\ tq \in Seq(Message) /\ tq' \in Seq(Message) /\ IsFiniteSet(target.pending)
  BY InvParts DEF TypeOK, OnceInv
<1>3. m \in Message
  BY <1>1, <1>2, TailEntries
<1>4. \A k : Count(tq, Cmd, k) = Match(m, Cmd, k) + Count(tq', Cmd, k)
  BY <1>1, <1>2, CountTail
<1> HIDE DEF m
<1>5. ASSUME NEW k \in Nat
      PROVE  /\ Count(tq', Cmd, k) \in Nat /\ Cardinality(Pending(target, k)) \in Nat
             /\ Match(m, Cmd, k) \in Nat
  BY <1>2, CountType, PendingDone DEF Match
<1>6. \A n \in Message, type \in Types :
        [n EXCEPT !.type = type] \in Message /\ [n EXCEPT !.type = type].type = type /\ [n EXCEPT !.type = type].id = n.id
  BY DEF Message
<1>7. EOS \in Message /\ EOS.type \notin Rep
  BY EndMessages DEF Rep
<1>8. CASE m.type # "C" /\ target'.pending = target.pending
  <2>1. PICK n \in Message : n.type \notin Rep /\ (rq' = ToServer("T", rq, n) \/ rq' = rq)
    <3>1. CASE rq' = rq
      BY <1>7, <3>1
    <3>2. CASE rq' = ToServer("T", rq, [m EXCEPT !.type = "redirectFailed"])
      BY <1>3, <1>6, <3>2 DEF Rep, Types
    <3>3. CASE rq' = ToServer("T", rq, [m EXCEPT !.type = "redirected"])
      BY <1>3, <1>6, <3>3 DEF Rep, Types
    <3> QED
      BY <1>1, <1>8, <3>1, <3>2, <3>3
  <2>2. ASSUME NEW k \in Nat
        PROVE  Count(tq', Cmd, k) + Cardinality(Pending(target', k)) + Match(n, Rep, k)
                 = Count(tq, Cmd, k) + Cardinality(Pending(target, k))
    <3>1. Match(n, Rep, k) = 0 /\ Match(m, Cmd, k) = 0
      BY <1>8, <2>1 DEF Match, Cmd
    <3>2. Pending(target', k) = Pending(target, k)
      BY Zenon, <1>8 DEF Pending
    <3> QED
      BY <1>4, <1>5, <3>1, <3>2
  <2>3. IsFiniteSet(target'.pending)
    BY <1>2, <1>8
  <2> QED
    BY <1>1, <2>1, <2>2, <2>3, TargetKept
<1>9. CASE m.type = "C" /\ target' = [target EXCEPT !.pending = @ \cup {m}] /\ UNCHANGED rq
  <2>1. target'.pending = target.pending \cup {m}
    BY <1>2, <1>9 DEF TypeOK
  <2>2. m \notin target.pending
    <3> SUFFICES ASSUME m \in target.pending PROVE FALSE
      OBVIOUS
    <3> DEFINE j == m.id
    <3>1. j \in Nat
      BY <1>3 DEF Message
    <3>2. Match(m, Cmd, j) = 1
      BY <1>9 DEF Match, Cmd
    <3>3. Cardinality(Pending(target, j)) # 0
      <4>1. m \in Pending(target, j)
        BY DEF Pending
      <4>2. IsFiniteSet(Pending(target, j))
        BY <1>2, PendingDone
      <4> QED
        BY <4>1, <4>2, FS_EmptySet
    <3>4. Places(j) <= 1
      BY <3>1 DEF OnceInv
    <3> HIDE DEF j
    <3>5. /\ Places(j) = Count(cq, Cmd, j) + Count(tq, Cmd, j) + Count(rq, Rep, j) + Count(hq, Rep, j)
                           + Cardinality(Pending(target, j)) + Cardinality(Done(client, j))
          /\ Count(cq, Cmd, j) \in Nat /\ Count(tq, Cmd, j) \in Nat /\ Count(rq, Rep, j) \in Nat
          /\ Count(hq, Rep, j) \in Nat /\ Cardinality(Pending(target, j)) \in Nat
          /\ Cardinality(Done(client, j)) \in Nat
      BY <1>2, <3>1, SumNow
    <3>6. Count(tq, Cmd, j) = 1 + Count(tq', Cmd, j) /\ Count(tq', Cmd, j) \in Nat
      BY <1>4, <1>5, <3>1, <3>2
    <3> QED
      BY <3>3, <3>4, <3>5, <3>6
  <2>3. ASSUME NEW k \in Nat
        PROVE  Count(tq', Cmd, k) + Cardinality(Pending(target', k)) + Match(EOS, Rep, k)
                 = Count(tq, Cmd, k) + Cardinality(Pending(target, k))
    <3>1. Match(EOS, Rep, k) = 0 /\ Match(m, Cmd, k) = (IF m.id = k THEN 1 ELSE 0)
      BY <1>7, <1>9 DEF Match, Cmd
    <3>2. Pending(target', k) = With(target.pending \cup {m}, k) /\ Pending(target, k) = With(target.pending, k)
      BY Zenon, <2>1 DEF Pending, With
    <3>3. Cardinality(With(target.pending \cup {m}, k))
            = Cardinality(With(target.pending, k)) + (IF m.id = k THEN 1 ELSE 0)
      BY <1>2, <2>2, WithAdded
    <3> QED
      BY <1>4, <1>5, <3>1, <3>2, <3>3
  <2>4. IsFiniteSet(target'.pending)
    BY <1>2, <2>1, FS_AddElement
  <2> QED
    BY <1>1, <1>7, <1>9, <2>3, <2>4, TargetKept
<1>10. CASE m.type = "C" /\ rq' = ToServer("T", rq, [m EXCEPT !.type = "N"]) /\ UNCHANGED target
  <2> DEFINE n == [m EXCEPT !.type = "N"]
  <2>1. n \in Message /\ n.type = "N" /\ n.id = m.id
    BY <1>3, <1>6 DEF Types
  <2>2. rq' = ToServer("T", rq, n)
    BY <1>10
  <2> HIDE DEF n
  <2>3. ASSUME NEW k \in Nat
        PROVE  Count(tq', Cmd, k) + Cardinality(Pending(target', k)) + Match(n, Rep, k)
                 = Count(tq, Cmd, k) + Cardinality(Pending(target, k))
    <3>1. Match(n, Rep, k) = Match(m, Cmd, k)
      BY <1>10, <2>1 DEF Match, Cmd, Rep
    <3>2. Cardinality(Pending(target', k)) = Cardinality(Pending(target, k))
      BY <1>10
    <3> QED
      BY <1>4, <1>5, <3>1, <3>2
  <2>4. IsFiniteSet(target'.pending) /\ target' = target
    BY <1>2, <1>10
  <2> QED
    BY <1>1, <2>1, <2>2, <2>3, <2>4, TargetKept
<1>11. m.type # "C" => target'.pending = target.pending
  <2>1. target \in [state : {"none", "Started", "HelloSent", "HelloReceived", "Connected", "closed"},
                    gen : Nat, pending : SUBSET Message]
    BY <1>2 DEF TypeOK
  <2> QED
    BY <1>1, <2>1
<1> QED
  BY <1>1, <1>8, <1>9, <1>10, <1>11

-----------------------------------------------------------------------------

\* Initially no command has been sent.
LEMMA InitOnce == Init => OnceInv
<1> SUFFICES ASSUME Init PROVE OnceInv
  OBVIOUS
<1>1. /\ cq = << >> /\ hq = << >> /\ tq = << >> /\ rq = << >> /\ client.sent = {} /\ client.done = << >>
      /\ target.pending = {}
  BY DEF Init
<1>2. IsFiniteSet(target.pending)
  BY <1>1, FS_EmptySet
<1>3. ASSUME NEW k \in Nat
      PROVE  Places(k) = 0
  <2>1. Count(<< >>, Cmd, k) = 0 /\ Count(<< >>, Rep, k) = 0
    BY QuietMessages DEF Quiet
  <2>2. Pending(target, k) = {} /\ Done(client, k) = {}
    BY <1>1 DEF Pending, Done
  <2>3. Cardinality(Pending(target, k)) = 0 /\ Cardinality(Done(client, k)) = 0
    BY <2>2, FS_EmptySet
  <2>4. Places(k) = Parts(cq, tq, rq, hq, target, client, k)
    BY PlacesParts
  <2> QED
    BY <1>1, <2>1, <2>3, <2>4 DEF Parts
<1> QED
  BY <1>1, <1>2, <1>3 DEF OnceInv

\* Every step keeps each command in its one place.
LEMMA NextOnce == IInv /\ IInv' /\ OnceInv /\ [Next]_vars => OnceInv'
<1> SUFFICES ASSUME IInv, IInv', OnceInv, [Next]_vars PROVE OnceInv'
  OBVIOUS
<1>1. TypeOK /\ TypeOK'
  BY DEF IInv
<1>2. Kept => OnceInv'
  BY <1>1, KeptOnce
<1>3. CASE UNCHANGED vars
  BY <1>1, <1>2, <1>3, SameKept DEF vars
<1>4. CASE ServerNext
  BY <1>1, <1>2, <1>4, HandleHostKept, HandleRedirectKept, HandleTargetKept, ConnectDoneKept, CloseChannelKept,
     ReaderDoneKept, BroadcastKept DEF ServerNext
<1>5. CASE PeersNext
  BY <1>1, <1>2, <1>5, ClientSendOnce, ClientSaysKept, ClientReceiveKept, TargetSaysKept, TargetReceiveKept,
     TargetReplyKept DEF PeersNext
<1> QED
  BY <1>3, <1>4, <1>5 DEF Next

\* No command is lost while no channel is closed, and none is answered twice:
\* whatever redirections happen meanwhile, proxy_default_message_handler()
\* and the reply handlers of protocol.c leave every command of the client in
\* one place, on its way, at the target, or answered.
THEOREM AnsweredCorrect == Spec => []AnsweredOnce
<1>1. TypeOK /\ OnceInv => AnsweredOnce
  <2> SUFFICES ASSUME TypeOK, OnceInv, NEW k \in client.sent
               PROVE  /\ Places(k) <= 1
                      /\ "Disconnected" \notin {s.state[c] : c \in Chans} /\ "closed" \notin {client.state, target.state}
                           => Places(k) = 1
    BY DEF AnsweredOnce
  <2>1. k \in Nat
    BY ConstantAssumption DEF TypeOK
  <2>2. Places(k) <= 1 /\ (Whole => Places(k) = 1)
    BY <2>1 DEF OnceInv
  <2>3. "Disconnected" \notin {s.state[c] : c \in Chans} /\ "closed" \notin {client.state, target.state} => Whole
    BY TwoChans DEF Whole
  <2> QED
    BY <2>2, <2>3
<1>2. IInv => TypeOK
  BY DEF IInv
<1> QED
  BY <1>1, <1>2, InitInv, NextInv, InitOnce, NextOnce, PTL DEF Spec
=============================================================================

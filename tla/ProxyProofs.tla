----------------------------- MODULE ProxyProofs -----------------------------
(* Proofs about Proxy, for any commands, and any number of sessions, events   *)
(* and messages.                                                              *)
EXTENDS Proxy, SequenceTheorems, TLAPS

-----------------------------------------------------------------------------
(* The inductive invariant.  First the server.                                *)

\* What the server is doing: the proxy, the states of both channels, and the
\* redirection.
Is(r, proxy, h, t, redirect) ==
    r.proxy = proxy /\ r.state["H"] = h /\ r.state["T"] = t /\ r.redirect = redirect

Mode(r) ==
    \/ Is(r, "none", "Connected", "none", "no")
    \/ Is(r, "none", "RedirectReceived", "none", "connect")
    \/ Is(r, "none", "Disconnected", "none", "connect")
    \/ Is(r, "none", "Disconnected", "none", "no")
    \/ Is(r, "none", "Disconnected", "Disconnected", "no")
    \/ Is(r, "made", "HelloReceived", "HelloSent", "no")
    \/ Is(r, "made", "Connected", "Connected", "no")
    \/ Is(r, "made", "Connected", "RedirectSent", "sent")
    \/ Is(r, "freed", "Disconnected", "Disconnected", "no")

Holds(cond) == IF cond THEN 1 ELSE 0

\* The locks, the broadcast group, and which channels have no reader.
Books(r) ==
    /\ r.lock["H"] = Holds("H" \notin r.read) + Holds(r.proxy = "made") + Holds(r.redirect # "no")
    /\ r.state["T"] # "none" => r.lock["T"] = Holds("T" \notin r.read) + Holds(r.proxy = "made")
    /\ r.bcg = IF r.proxy = "made" THEN Chans ELSE {}
    /\ \A c \in r.read : r.state[c] = "Disconnected"

ServerOK(r) == r \in Server /\ r.assert /\ Mode(r) /\ Books(r)

\* Messages that start and end sessions, and events, in a queue q: q begins in
\* session g and ends in session h, and word is the control messages in it.
\* -1 is no session.
Control == {"Hello", "redirected", "redirectFailed"}
Plain(q, i, j, g) ==
    \A k \in 1..Len(q) : i < k /\ k < j => /\ q[k].type \notin Control
                                           /\ q[k].type = "E" => q[k].gen = g
After(g, m) == IF m.type = "Hello" THEN m.gen ELSE IF m.type = "redirected" THEN -1 ELSE g
Shape(q, g, word, h) ==
    \/ /\ word = "none" /\ h = g
       /\ Plain(q, 0, Len(q) + 1, g)
    \/ /\ word \in Control
       /\ \E i \in 1..Len(q) : /\ q[i].type = word /\ h = After(g, q[i])
                               /\ Plain(q, 0, i, g) /\ Plain(q, i, Len(q) + 1, h)
    \/ /\ word = "both"
       /\ \E i, j \in 1..Len(q) : /\ i < j /\ q[i].type = "redirected" /\ q[j].type = "Hello" /\ h = q[j].gen
                                  /\ Plain(q, 0, i, g) /\ Plain(q, i, j, -1) /\ Plain(q, j, Len(q) + 1, h)
Words == Control \cup {"none", "both"}

Lacks(q, type) == \A i \in 1..Len(q) : q[i].type # type
AtMostOne(q, type) == \A i, j \in 1..Len(q) : q[i].type = type /\ q[j].type = type => i = j

\* The client asks for one redirection at a time.
Asking(r, in) == ~Lacks(in, "redirect") \/ r.redirect # "no"
AskOK(r, in) ==
    /\ AtMostOne(in, "redirect")
    /\ ~Lacks(in, "redirect") => r.redirect = "no" /\ r.state["H"] # "HelloReceived"

\* What the client may find in its queue.
ClientSession(cl) == IF cl.state = "HelloSent" THEN -1 ELSE cl.gen
ClientWord(r, in, cl, word) ==
    /\ Asking(r, in) => cl.state = "RedirectSent" /\ word = "none"
    /\ r.state["H"] = "HelloReceived" => \/ cl.state = "RedirectSent" /\ word = "redirected"
                                         \/ cl.state = "HelloSent" /\ word = "none"
    /\ cl.state = "Connected" => word = "none"
    /\ cl.state = "RedirectSent" => word # "Hello"
    /\ cl.state = "HelloSent" => word \in {"none", "Hello"}
ClientSide(r, in, cl, q, g) ==
    cl.state # "closed" => \E word \in Words : Shape(q, ClientSession(cl), word, g) /\ ClientWord(r, in, cl, word)

\* What the server may find in the queue of the target, and what the target
\* still has to send.
Owes(tg) == tg.state \in {"Started", "HelloReceived"}
TargetWord(r, tg, q, word) ==
    /\ r.state["T"] = "HelloSent" => Lacks(q, "redirect")
    /\ r.state["T"] = "HelloSent" => \/ word = "none" /\ (Owes(tg) \/ tg.state = "closed")
                                     \/ word = "Hello" /\ ~Owes(tg)
    /\ r.state["T"] = "Connected" => Lacks(q, "redirect") /\ word = "none" /\ ~Owes(tg)
    /\ r.state["T"] = "RedirectSent" =>
         \/ AtMostOne(q, "redirect") /\ word = "none" /\ ~Owes(tg)
         \/ Lacks(q, "redirect") /\ word = "redirectFailed" /\ ~Owes(tg)
         \/ Lacks(q, "redirect") /\ word = "redirected" /\ tg.state \in {"HelloReceived", "closed"}
         \/ Lacks(q, "redirect") /\ word = "both" /\ ~Owes(tg)
TargetOpen(r) == r.state["T"] \in {"HelloSent", "Connected", "RedirectSent"}
TargetSide(r, tg, out, in, g) ==
    /\ r.state["T"] = "none" => g = 0
    /\ r.state["T"] = "HelloSent" => g = -1
    /\ TargetOpen(r) => \E word \in Words, h \in Int :
            /\ Shape(in, g, word, h) /\ TargetWord(r, tg, out, word)
            /\ tg.state \in {"HelloSent", "Connected"} => h = tg.gen

Sessions == \E g \in Int : ClientSide(s, cq, client, hq, g) /\ TargetSide(s, target, tq, rq, g)

\* Which messages are where, and with how many prefixes.
Answers == {"redirected", "redirectFailed"}
FromClient(m) == m.type \in {"C", "redirect", "EOS"} /\ (m.type = "C" => m.depth = 0)
ToTarget(r, m) ==
    /\ m.type \in {"C", "redirect", "Hello", "EOS"} /\ (m.type = "C" => m.depth = 1)
    /\ m.type = "redirect" /\ r.state["T"] = "RedirectSent" => m.id = r.rtoken /\ m.depth = 0
FromTarget(r, m) ==
    /\ m.type \in {"R", "N", "E", "EOS"} \cup Control /\ (m.type \in {"R", "N"} => m.depth = 1)
    /\ m.type \in Answers /\ r.state["T"] = "RedirectSent" => m.id = r.rtoken /\ m.depth = 0
AllFromClient(q) == \A i \in 1..Len(q) : FromClient(q[i])
AllToTarget(r, q) == \A i \in 1..Len(q) : ToTarget(r, q[i])
AllFromTarget(r, q) == \A i \in 1..Len(q) : FromTarget(r, q[i])
MailOK(r, tg, ci, out, in) ==
    /\ AllFromClient(ci) /\ AllToTarget(r, out) /\ AllFromTarget(r, in)
    /\ \A m \in tg.pending : m.type = "C" /\ m.depth = 1

\* The target, before there is one, and what it knows of the server's Hello.
TargetOK(r, tg, out, in) ==
    /\ r.state["T"] = "none" => tg.state = "none" /\ tg.pending = {} /\ out = << >> /\ in = << >>
    /\ AtMostOne(out, "Hello")
    /\ ~Lacks(out, "Hello") => tg.state \in {"Started", "HelloSent", "closed"}

IInv ==
    /\ TypeOK /\ ServerOK(s) /\ s.out = Empty
    /\ AskOK(s, cq) /\ Sessions /\ MailOK(s, target, cq, tq, rq) /\ TargetOK(s, target, tq, rq)

-----------------------------------------------------------------------------
(* Queues of messages.                                                        *)

\* The entries of a queue that a message is appended to.
LEMMA AppendEntries ==
    ASSUME NEW q \in Seq(Message), NEW m \in Message
    PROVE  /\ Append(q, m) \in Seq(Message)
           /\ Len(Append(q, m)) = Len(q) + 1 /\ Len(q) \in Nat
           /\ Append(q, m)[Len(q) + 1] = m
           /\ \A i \in 1..Len(q) : Append(q, m)[i] = q[i]
  OBVIOUS

\* The entries of a queue whose first message is read.
LEMMA TailEntries ==
    ASSUME NEW q \in Seq(Message), q # << >>
    PROVE  /\ Tail(q) \in Seq(Message) /\ Head(q) \in Message /\ Head(q) = q[1]
           /\ Len(q) \in Nat /\ Len(q) > 0 /\ Len(Tail(q)) = Len(q) - 1
           /\ \A i \in 1..(Len(q) - 1) : Tail(q)[i] = q[i + 1]
  OBVIOUS

\* A message that starts or ends no session leaves the shape of a queue.
LEMMA ShapePlain ==
    ASSUME NEW q \in Seq(Message), NEW m \in Message, NEW g, NEW word, NEW h,
           Shape(q, g, word, h), m.type \notin Control, m.type = "E" => m.gen = h
    PROVE  Shape(Append(q, m), g, word, h)
<1> DEFINE p == Append(q, m)
<1>1. /\ Len(p) = Len(q) + 1 /\ Len(q) \in Nat /\ p[Len(q) + 1] = m
      /\ \A i \in 1..Len(q) : p[i] = q[i]
  BY AppendEntries
<1> HIDE DEF p
<1>2. ASSUME NEW i \in Nat, NEW x, NEW j \in 1..Len(q), Plain(q, i, j, x)
      PROVE  Plain(p, i, j, x)
  BY <1>1, <1>2 DEF Plain
<1>3. ASSUME NEW i \in Nat, Plain(q, i, Len(q) + 1, h)
      PROVE  Plain(p, i, Len(p) + 1, h)
  BY <1>1, <1>3 DEF Plain
<1>4. CASE word = "none" /\ h = g /\ Plain(q, 0, Len(q) + 1, g)
  BY <1>3, <1>4 DEF Shape, p
<1>5. CASE word \in Control /\ \E i \in 1..Len(q) : /\ q[i].type = word /\ h = After(g, q[i])
                               /\ Plain(q, 0, i, g) /\ Plain(q, i, Len(q) + 1, h)
  <2>1. PICK i \in 1..Len(q) : /\ q[i].type = word /\ h = After(g, q[i])
                               /\ Plain(q, 0, i, g) /\ Plain(q, i, Len(q) + 1, h)
    BY <1>5
  <2>2. i \in 1..Len(p) /\ p[i] = q[i] /\ Plain(p, 0, i, g) /\ Plain(p, i, Len(p) + 1, h)
    BY <1>1, <1>2, <1>3, <2>1
  <2> QED
    BY <1>5, <2>1, <2>2 DEF Shape, p
<1>6. CASE word = "both" /\ \E i, j \in 1..Len(q) :
                /\ i < j /\ q[i].type = "redirected" /\ q[j].type = "Hello" /\ h = q[j].gen
                /\ Plain(q, 0, i, g) /\ Plain(q, i, j, -1) /\ Plain(q, j, Len(q) + 1, h)
  <2>1. PICK i \in 1..Len(q), j \in 1..Len(q) :
                /\ i < j /\ q[i].type = "redirected" /\ q[j].type = "Hello" /\ h = q[j].gen
                /\ Plain(q, 0, i, g) /\ Plain(q, i, j, -1) /\ Plain(q, j, Len(q) + 1, h)
    BY <1>6
  <2>2. /\ i \in 1..Len(p) /\ p[i] = q[i] /\ j \in 1..Len(p) /\ p[j] = q[j]
        /\ Plain(p, 0, i, g) /\ Plain(p, i, j, -1) /\ Plain(p, j, Len(p) + 1, h)
    BY <1>1, <1>2, <1>3, <2>1
  <2> QED
    BY <1>6, <2>1, <2>2 DEF Shape, p
<1> QED
  BY <1>4, <1>5, <1>6 DEF Shape

\* A message that starts or ends a session.
LEMMA ShapeControl ==
    ASSUME NEW q \in Seq(Message), NEW m \in Message, NEW g, NEW word, NEW h,
           Shape(q, g, word, h)
    PROVE  /\ word = "none" /\ m.type \in Control => Shape(Append(q, m), g, m.type, After(g, m))
           /\ word = "redirected" /\ m.type = "Hello" => Shape(Append(q, m), g, "both", m.gen)
<1> DEFINE p == Append(q, m)
<1>1. /\ Len(p) = Len(q) + 1 /\ Len(q) \in Nat /\ p[Len(q) + 1] = m
      /\ \A i \in 1..Len(q) : p[i] = q[i]
  BY AppendEntries
<1> HIDE DEF p
<1>2. ASSUME NEW i \in Nat, NEW x, NEW j \in 1..(Len(q) + 1), Plain(q, i, j, x)
      PROVE  Plain(p, i, j, x)
  BY <1>1, <1>2 DEF Plain
<1>3. \A x : Plain(p, Len(q) + 1, Len(p) + 1, x)
  BY <1>1 DEF Plain
<1>4. ASSUME word = "none", m.type \in Control
      PROVE  Shape(p, g, m.type, After(g, m))
  <2>1. Plain(q, 0, Len(q) + 1, g)
    BY <1>4 DEF Shape, Control
  <2>2. Plain(p, 0, Len(q) + 1, g) /\ Len(q) + 1 \in 1..Len(p)
    BY <1>1, <1>2, <2>1
  <2> QED
    BY <1>1, <1>3, <1>4, <2>2 DEF Shape
<1>5. ASSUME word = "redirected", m.type = "Hello"
      PROVE  Shape(p, g, "both", m.gen)
  <2>1. PICK i \in 1..Len(q) : /\ q[i].type = "redirected" /\ h = After(g, q[i])
                               /\ Plain(q, 0, i, g) /\ Plain(q, i, Len(q) + 1, h)
    BY <1>5 DEF Shape, Control
  <2>2. h = -1
    BY <2>1 DEF After
  <2>3. /\ Plain(p, 0, i, g) /\ Plain(p, i, Len(q) + 1, -1) /\ p[i] = q[i]
        /\ i \in 1..Len(p) /\ Len(q) + 1 \in 1..Len(p) /\ i < Len(q) + 1
    BY <1>1, <1>2, <2>1, <2>2
  <2> QED
    BY <1>1, <1>3, <1>5, <2>1, <2>3 DEF Shape
<1> QED
  BY <1>4, <1>5 DEF p

\* Reading the first message.
LEMMA ShapeTail ==
    ASSUME NEW q \in Seq(Message), q # << >>, NEW g, NEW word, NEW h, Shape(q, g, word, h)
    PROVE  \/ /\ Head(q).type \notin Control /\ (Head(q).type = "E" => Head(q).gen = g)
              /\ Shape(Tail(q), g, word, h)
           \/ /\ Head(q).type \in Control /\ word = Head(q).type
              /\ Shape(Tail(q), After(g, Head(q)), "none", h)
           \/ /\ Head(q).type = "redirected" /\ word = "both"
              /\ Shape(Tail(q), -1, "Hello", h)
<1> DEFINE p == Tail(q)
<1>1. /\ Head(q) = q[1] /\ Len(q) \in Nat /\ Len(q) > 0 /\ Len(p) = Len(q) - 1
      /\ \A i \in 1..Len(p) : p[i] = q[i + 1]
  BY TailEntries
<1> HIDE DEF p
<1>2. ASSUME NEW i \in Nat, NEW x, NEW j \in 1..(Len(q) + 1), j > 1, Plain(q, i, j, x)
      PROVE  Plain(p, IF i = 0 THEN 0 ELSE i - 1, j - 1, x)
  BY <1>1, <1>2 DEF Plain
<1>3. ASSUME NEW x, NEW j \in Nat, Plain(q, 0, j, x), j > 1
      PROVE  q[1].type \notin Control /\ (q[1].type = "E" => q[1].gen = x)
  BY <1>1, <1>3 DEF Plain
<1>4. CASE word = "none" /\ h = g /\ Plain(q, 0, Len(q) + 1, g)
  <2>1. Plain(p, 0, Len(p) + 1, g)
    BY <1>1, <1>2, <1>4
  <2> QED
    BY <1>1, <1>3, <1>4, <2>1 DEF Shape, p
<1>5. CASE word \in Control /\ \E i \in 1..Len(q) : /\ q[i].type = word /\ h = After(g, q[i])
                               /\ Plain(q, 0, i, g) /\ Plain(q, i, Len(q) + 1, h)
  <2>1. PICK i \in 1..Len(q) : /\ q[i].type = word /\ h = After(g, q[i])
                               /\ Plain(q, 0, i, g) /\ Plain(q, i, Len(q) + 1, h)
    BY <1>5
  <2>2. Plain(p, i - 1, Len(p) + 1, h)
    BY <1>1, <1>2, <2>1
  <2>3. CASE i = 1
    <3>1. Shape(p, h, "none", h)
      BY <2>2, <2>3 DEF Shape
    <3> QED
      BY <1>1, <1>5, <2>1, <2>3, <3>1 DEF p
  <2>4. CASE i # 1
    <3>1. i - 1 \in 1..Len(p) /\ p[i - 1] = q[i] /\ Plain(p, 0, i - 1, g)
      BY <1>1, <1>2, <2>1, <2>4
    <3>2. Shape(p, g, word, h)
      BY <1>5, <2>1, <2>2, <3>1 DEF Shape
    <3> QED
      BY <1>1, <1>3, <2>1, <2>4, <3>2 DEF p
  <2> QED
    BY <2>3, <2>4
<1>6. CASE word = "both" /\ \E i, j \in 1..Len(q) :
                /\ i < j /\ q[i].type = "redirected" /\ q[j].type = "Hello" /\ h = q[j].gen
                /\ Plain(q, 0, i, g) /\ Plain(q, i, j, -1) /\ Plain(q, j, Len(q) + 1, h)
  <2>1. PICK i \in 1..Len(q), j \in 1..Len(q) :
                /\ i < j /\ q[i].type = "redirected" /\ q[j].type = "Hello" /\ h = q[j].gen
                /\ Plain(q, 0, i, g) /\ Plain(q, i, j, -1) /\ Plain(q, j, Len(q) + 1, h)
    BY <1>6
  <2>2. /\ Plain(p, i - 1, j - 1, -1) /\ Plain(p, j - 1, Len(p) + 1, h)
        /\ j - 1 \in 1..Len(p) /\ p[j - 1] = q[j]
    <3>1. i \in Nat /\ j \in Nat /\ i # 0 /\ j # 0 /\ j > 1 /\ j \in 1..(Len(q) + 1) /\ Len(q) + 1 > 1
      BY <1>1, <2>1
    <3>2. Plain(p, i - 1, j - 1, -1)
      BY <1>2, <2>1, <3>1
    <3>3. Plain(p, j - 1, (Len(q) + 1) - 1, h)
      BY <1>1, <1>2, <2>1, <3>1
    <3> QED
      BY <1>1, <2>1, <3>1, <3>2, <3>3
  <2>3. CASE i = 1
    <3>1. Shape(p, -1, "Hello", h)
      BY <2>1, <2>2, <2>3 DEF Shape, Control, After
    <3> QED
      BY <1>1, <1>6, <2>1, <2>3, <3>1 DEF p
  <2>4. CASE i # 1
    <3>1. i - 1 \in 1..Len(p) /\ p[i - 1] = q[i] /\ Plain(p, 0, i - 1, g) /\ i - 1 < j - 1
      BY <1>1, <1>2, <2>1, <2>4
    <3>2. Shape(p, g, word, h)
      BY <1>6, <2>1, <2>2, <3>1 DEF Shape
    <3> QED
      BY <1>1, <1>3, <2>1, <2>4, <3>2 DEF p
  <2> QED
    BY <2>3, <2>4
<1> QED
  BY <1>4, <1>5, <1>6 DEF Shape

\* A queue that is empty, or that has nothing but its word.
LEMMA ShapeEmpty == \A g : Shape(<< >>, g, "none", g)
  BY DEF Shape, Plain

\* Appending and reading, for the messages of one type.
LEMMA LacksAppend ==
    ASSUME NEW q \in Seq(Message), NEW m \in Message, NEW type
    PROVE  /\ Lacks(Append(q, m), type) <=> Lacks(q, type) /\ m.type # type
           /\ Lacks(q, type) => AtMostOne(q, type) /\ AtMostOne(Append(q, m), type)
           /\ AtMostOne(q, type) /\ m.type # type => AtMostOne(Append(q, m), type)
<1>1. /\ Len(Append(q, m)) = Len(q) + 1 /\ Len(q) \in Nat
      /\ Append(q, m)[Len(q) + 1] = m
      /\ \A i \in 1..Len(q) : Append(q, m)[i] = q[i]
  BY AppendEntries
<1>2. Lacks(Append(q, m), type) <=> Lacks(q, type) /\ m.type # type
  BY <1>1 DEF Lacks
<1>3. Lacks(q, type) => AtMostOne(q, type)
  BY DEF Lacks, AtMostOne
<1>4. AtMostOne(q, type) /\ (m.type # type \/ Lacks(q, type)) => AtMostOne(Append(q, m), type)
  BY <1>1 DEF Lacks, AtMostOne
<1> QED
  BY <1>2, <1>3, <1>4

\* Reading the first message, for the messages of one type.
LEMMA LacksTail ==
    ASSUME NEW q \in Seq(Message), q # << >>, NEW type
    PROVE  /\ Lacks(q, type) => Lacks(Tail(q), type) /\ Head(q).type # type
           /\ Head(q).type # type => (Lacks(Tail(q), type) <=> Lacks(q, type))
           /\ AtMostOne(q, type) => AtMostOne(Tail(q), type)
           /\ AtMostOne(q, type) /\ Head(q).type = type => Lacks(Tail(q), type)
<1> DEFINE p == Tail(q)
<1>1. /\ Head(q) = q[1] /\ Len(q) \in Nat /\ Len(q) > 0 /\ Len(p) = Len(q) - 1
      /\ \A i \in 1..Len(p) : p[i] = q[i + 1]
  BY TailEntries
<1> HIDE DEF p
<1>2. \A i \in 1..Len(p) : i + 1 \in 1..Len(q) /\ i + 1 # 1
  BY <1>1
<1>3. \A i \in 1..Len(q) : i = 1 \/ (i - 1 \in 1..Len(p) /\ q[i] = p[i - 1])
  BY <1>1
<1>4. Lacks(q, type) <=> Lacks(p, type) /\ q[1].type # type
  <2>1. 1 \in 1..Len(q)
    BY <1>1
  <2>2. Lacks(q, type) => Lacks(p, type) /\ q[1].type # type
    BY <1>1, <1>2, <2>1 DEF Lacks
  <2>3. Lacks(p, type) /\ q[1].type # type => Lacks(q, type)
    BY <1>3 DEF Lacks
  <2> QED
    BY <2>2, <2>3
<1>5. AtMostOne(q, type) => AtMostOne(p, type)
  <2> SUFFICES ASSUME AtMostOne(q, type), NEW i \in 1..Len(p), NEW j \in 1..Len(p),
                      p[i].type = type, p[j].type = type
               PROVE  i = j
    BY DEF AtMostOne
  <2>1. i + 1 = j + 1
    BY <1>1, <1>2 DEF AtMostOne
  <2> QED
    BY <1>1, <2>1
<1>6. AtMostOne(q, type) /\ q[1].type = type => Lacks(p, type)
  <2> SUFFICES ASSUME AtMostOne(q, type), q[1].type = type, NEW i \in 1..Len(p), p[i].type = type
               PROVE  FALSE
    BY DEF Lacks
  <2>1. i + 1 \in 1..Len(q) /\ i + 1 # 1 /\ q[i + 1].type = type /\ 1 \in 1..Len(q)
    BY <1>1, <1>2
  <2> QED
    BY <2>1 DEF AtMostOne
<1> QED
  BY <1>1, <1>4, <1>5, <1>6 DEF p

\* An empty queue.
LEMMA LacksEmpty == \A type : Lacks(<< >>, type) /\ AtMostOne(<< >>, type)
  BY DEF Lacks, AtMostOne

-----------------------------------------------------------------------------
(* What the client is sent.                                                   *)

\* The server asks for no more than before.
LEMMA ClientSame ==
    ASSUME NEW r, NEW in, NEW r2, NEW in2, NEW cl, NEW q, NEW g,
           ClientSide(r, in, cl, q, g), Asking(r2, in2) => Asking(r, in),
           r2.state["H"] = "HelloReceived" => r.state["H"] = "HelloReceived"
    PROVE  ClientSide(r2, in2, cl, q, g)
<1> SUFFICES ASSUME cl.state # "closed"
             PROVE  \E word \in Words : Shape(q, ClientSession(cl), word, g) /\ ClientWord(r2, in2, cl, word)
  BY DEF ClientSide
<1>1. PICK word \in Words : Shape(q, ClientSession(cl), word, g) /\ ClientWord(r, in, cl, word)
  BY DEF ClientSide
<1>2. ClientWord(r2, in2, cl, word)
  BY <1>1 DEF ClientWord
<1> QED
  BY <1>1, <1>2

\* An event, a reply, or the end of the stream.
LEMMA ClientPlain ==
    ASSUME NEW r, NEW in, NEW cl, NEW q \in Seq(Message), NEW g, NEW m \in Message,
           ClientSide(r, in, cl, q, g), m.type \notin Control, m.type = "E" => m.gen = g
    PROVE  ClientSide(r, in, cl, Append(q, m), g)
  BY ShapePlain DEF ClientSide

\* The answer to a redirection.
LEMMA ClientAnswer ==
    ASSUME NEW r, NEW in, NEW r2, NEW in2, NEW cl, NEW q \in Seq(Message), NEW g, NEW m \in Message,
           ClientSide(r, in, cl, q, g), Asking(r, in), ~Asking(r2, in2), m.type \in Answers,
           r2.state["H"] = "HelloReceived" => m.type = "redirected"
    PROVE  ClientSide(r2, in2, cl, Append(q, m), After(g, m))
<1> SUFFICES ASSUME cl.state # "closed"
             PROVE  \E word \in Words : /\ Shape(Append(q, m), ClientSession(cl), word, After(g, m))
                                        /\ ClientWord(r2, in2, cl, word)
  BY DEF ClientSide
<1>1. PICK word \in Words : Shape(q, ClientSession(cl), word, g) /\ ClientWord(r, in, cl, word)
  BY DEF ClientSide
<1>2. cl.state = "RedirectSent" /\ word = "none"
  BY <1>1 DEF ClientWord
<1>3. Shape(q, ClientSession(cl), "none", g) /\ g = ClientSession(cl) /\ m.type \in Control
  BY <1>1, <1>2 DEF Shape, Control, Answers
<1>4. Shape(Append(q, m), ClientSession(cl), m.type, After(g, m))
  BY <1>3, ShapeControl
<1>5. ClientWord(r2, in2, cl, m.type) /\ m.type \in Words
  BY <1>2 DEF ClientWord, Words, Control, Answers
<1> QED
  BY <1>4, <1>5

\* The Hello of a session.
LEMMA ClientHello ==
    ASSUME NEW r, NEW in, NEW r2, NEW in2, NEW cl, NEW q \in Seq(Message), NEW g, NEW m \in Message,
           ClientSide(r, in, cl, q, g), r.state["H"] = "HelloReceived",
           ~Asking(r2, in2), r2.state["H"] # "HelloReceived", m.type = "Hello"
    PROVE  ClientSide(r2, in2, cl, Append(q, m), m.gen)
<1> SUFFICES ASSUME cl.state # "closed"
             PROVE  \E word \in Words : /\ Shape(Append(q, m), ClientSession(cl), word, m.gen)
                                        /\ ClientWord(r2, in2, cl, word)
  BY DEF ClientSide
<1>1. PICK word \in Words : Shape(q, ClientSession(cl), word, g) /\ ClientWord(r, in, cl, word)
  BY DEF ClientSide
<1>2. CASE cl.state = "RedirectSent" /\ word = "redirected"
  <2>1. Shape(Append(q, m), ClientSession(cl), "both", m.gen)
    BY <1>1, <1>2, ShapeControl
  <2>2. ClientWord(r2, in2, cl, "both") /\ "both" \in Words
    BY <1>2 DEF ClientWord, Words
  <2> QED
    BY <2>1, <2>2
<1>3. CASE cl.state = "HelloSent" /\ word = "none"
  <2>1. m.type \in Control /\ After(ClientSession(cl), m) = m.gen
    BY DEF Control, After
  <2>2. Shape(Append(q, m), ClientSession(cl), "Hello", m.gen)
    BY <1>1, <1>3, <2>1, ShapeControl
  <2>3. ClientWord(r2, in2, cl, "Hello") /\ "Hello" \in Words
    BY <1>3 DEF ClientWord, Words, Control
  <2> QED
    BY <2>2, <2>3
<1> QED
  BY <1>1, <1>2, <1>3 DEF ClientWord

-----------------------------------------------------------------------------
(* Functions of the server, field by field.                                   *)

\* p and q agree but for the states, locks and output of the channels, and the
\* redirection.
Like(p, q) ==
    /\ q.proxy = p.proxy /\ q.bcg = p.bcg /\ q.read = p.read /\ q.assert = p.assert
    /\ q.tokenid = p.tokenid /\ q.rtoken = p.rtoken

\* Writing a message.
LEMMA PutDoes ==
    ASSUME NEW p \in Server, NEW c \in Chans, NEW m \in Message
    PROVE  /\ Put(p, c, m) \in Server /\ Like(p, Put(p, c, m))
           /\ Put(p, c, m).state = p.state /\ Put(p, c, m).lock = p.lock
           /\ Put(p, c, m).redirect = p.redirect
           /\ Put(p, c, m).out = [p.out EXCEPT ![c] = Append(@, m)]
<1>1. p.out \in [Chans -> Seq(Message)]
  BY DEF Server
<1>2. [p.out EXCEPT ![c] = Append(@, m)] \in [Chans -> Seq(Message)]
  BY <1>1, AppendEntries
<1>3. Put(p, c, m) = [p EXCEPT !.out = [p.out EXCEPT ![c] = Append(@, m)]]
  BY DEF Put, Server
<1> QED
  BY <1>2, <1>3 DEF Server, Like

\* Taking and giving up a lock.
LEMMA LockDoes ==
    ASSUME NEW p \in Server, NEW c \in Chans
    PROVE  /\ Lock(p, c) \in Server /\ Like(p, Lock(p, c))
           /\ Lock(p, c).state = p.state /\ Lock(p, c).out = p.out /\ Lock(p, c).redirect = p.redirect
           /\ Lock(p, c).lock = [p.lock EXCEPT ![c] = @ + 1]
<1>1. p.lock \in [Chans -> Nat]
  BY DEF Server
<1>2. [p.lock EXCEPT ![c] = @ + 1] \in [Chans -> Nat]
  BY <1>1
<1>3. Lock(p, c) = [p EXCEPT !.lock = [p.lock EXCEPT ![c] = @ + 1]]
  BY DEF Lock, Server
<1> QED
  BY <1>2, <1>3 DEF Server, Like

\* A channel is unlocked.
LEMMA UnlockDoes ==
    ASSUME NEW p \in Server, NEW c \in Chans, p.lock[c] > 0
    PROVE  /\ Unlock(p, c) \in Server /\ Like(p, Unlock(p, c))
           /\ Unlock(p, c).state = p.state /\ Unlock(p, c).out = p.out /\ Unlock(p, c).redirect = p.redirect
           /\ Unlock(p, c).lock = [p.lock EXCEPT ![c] = @ - 1]
<1>1. p.lock \in [Chans -> Nat]
  BY DEF Server
<1>2. [p.lock EXCEPT ![c] = @ - 1] \in [Chans -> Nat]
  BY <1>1
<1>3. Unlock(p, c) = [p EXCEPT !.lock = [p.lock EXCEPT ![c] = @ - 1]]
  BY DEF Unlock, Server
<1> QED
  BY <1>2, <1>3 DEF Server, Like

\* A change of state.
LEMMA StateDoes ==
    ASSUME NEW p \in Server, NEW c \in Chans, NEW x \in States
    PROVE  /\ [p EXCEPT !.state[c] = x] \in Server /\ Like(p, [p EXCEPT !.state[c] = x])
           /\ [p EXCEPT !.state[c] = x].state = [p.state EXCEPT ![c] = x]
           /\ [p EXCEPT !.state[c] = x].lock = p.lock /\ [p EXCEPT !.state[c] = x].out = p.out
           /\ [p EXCEPT !.state[c] = x].redirect = p.redirect
  BY DEF Server, Like

\* A redirection begins or ends.
LEMMA RedirectDoes ==
    ASSUME NEW p \in Server, NEW x \in {"no", "connect", "sent"}
    PROVE  /\ [p EXCEPT !.redirect = x] \in Server /\ Like(p, [p EXCEPT !.redirect = x])
           /\ [p EXCEPT !.redirect = x].state = p.state /\ [p EXCEPT !.redirect = x].lock = p.lock
           /\ [p EXCEPT !.redirect = x].out = p.out /\ [p EXCEPT !.redirect = x].redirect = x
  BY DEF Server, Like

\* An assertion that holds changes nothing.
LEMMA AssertDoes ==
    ASSUME NEW p \in Server, p.assert, NEW cond, cond = TRUE
    PROVE  Asserted(p, cond) = p
  BY DEF Server, Asserted

\* The channels.
LEMMA TwoChans ==
    /\ Chans = {"H", "T"} /\ "H" \in Chans /\ "T" \in Chans /\ "H" # "T"
    /\ Other("H") = "T" /\ Other("T") = "H"
  BY DEF Chans, Other

-----------------------------------------------------------------------------
(* Closing.                                                                   *)

EOS == Msg("EOS", 0, 0, 0)
Failed == Msg("redirectFailed", 0, 0, 0)

\* Messages of the server.
LEMMA MsgType ==
    \A type \in Types, id \in Nat, depth \in Nat, gen \in Nat :
        /\ Msg(type, id, depth, gen) \in Message
        /\ Msg(type, id, depth, gen).type = type /\ Msg(type, id, depth, gen).id = id
        /\ Msg(type, id, depth, gen).depth = depth /\ Msg(type, id, depth, gen).gen = gen
  BY DEF Msg, Message

\* The messages that end a connection, and a redirection that failed.
LEMMA EndMessages ==
    EOS \in Message /\ EOS.type = "EOS" /\ Failed \in Message /\ Failed.type = "redirectFailed"
  BY MsgType DEF EOS, Failed, Types

\* One channel is closed, and no redirection is waiting for it.
LEMMA CloseOneDoes ==
    ASSUME NEW p \in Server, NEW c \in Chans, ~(c = "T" /\ p.redirect = "sent")
    PROVE  /\ CloseOne(p, c) \in Server /\ Like(p, CloseOne(p, c))
           /\ CloseOne(p, c).redirect = p.redirect /\ CloseOne(p, c).lock = p.lock
           /\ CloseOne(p, c).state = [p.state EXCEPT ![c] = "Disconnected"]
           /\ CloseOne(p, c).out = [p.out EXCEPT ![c] = Append(@, EOS)]
<1> DEFINE a == Put(p, c, EOS)
           b == [a EXCEPT !.state[c] = "Disconnected"]
<1>1. /\ a \in Server /\ Like(p, a) /\ a.state = p.state /\ a.lock = p.lock
      /\ a.redirect = p.redirect /\ a.out = [p.out EXCEPT ![c] = Append(@, EOS)]
  BY PutDoes, EndMessages
<1>2. CloseOne(p, c) = NotifyClosed(b, c)
  BY DEF CloseOne, EOS
<1> HIDE DEF a
<1>3. /\ b \in Server /\ Like(a, b) /\ b.state = [a.state EXCEPT ![c] = "Disconnected"]
      /\ b.lock = a.lock /\ b.out = a.out /\ b.redirect = a.redirect
  BY <1>1, StateDoes DEF States
<1> HIDE DEF b
<1>4. NotifyClosed(b, c) = b
  BY <1>1, <1>3 DEF NotifyClosed
<1> QED
  BY <1>1, <1>2, <1>3, <1>4 DEF Like

\* The redirection that waits for the target fails.
LEMMA RedirectFails ==
    ASSUME NEW p \in Server, p.lock["H"] > 0
    PROVE  /\ CommandRedirectDone(p, TRUE) \in Server /\ Like(p, CommandRedirectDone(p, TRUE))
           /\ CommandRedirectDone(p, TRUE).redirect = "no" /\ CommandRedirectDone(p, TRUE).state = p.state
           /\ CommandRedirectDone(p, TRUE).lock = [p.lock EXCEPT !["H"] = @ - 1]
           /\ CommandRedirectDone(p, TRUE).out =
                IF p.state["H"] = "Disconnected" THEN p.out ELSE [p.out EXCEPT !["H"] = Append(@, Failed)]
<1> DEFINE a == IF IsClosed(p, "H") THEN p ELSE Put(p, "H", Failed)
           b == [a EXCEPT !.redirect = "no"]
<1>1. /\ a \in Server /\ Like(p, a) /\ a.state = p.state /\ a.lock = p.lock
      /\ a.out = IF p.state["H"] = "Disconnected" THEN p.out ELSE [p.out EXCEPT !["H"] = Append(@, Failed)]
  BY PutDoes, EndMessages, TwoChans DEF IsClosed, Like
<1>2. CommandRedirectDone(p, TRUE) = Unlock(b, "H")
  BY DEF CommandRedirectDone, Failed
<1> HIDE DEF a
<1>3. /\ b \in Server /\ Like(a, b) /\ b.redirect = "no" /\ b.state = a.state
      /\ b.lock = a.lock /\ b.out = a.out
  BY <1>1, RedirectDoes
<1> HIDE DEF b
<1>4. /\ Unlock(b, "H") \in Server /\ Like(b, Unlock(b, "H")) /\ Unlock(b, "H").state = b.state
      /\ Unlock(b, "H").out = b.out /\ Unlock(b, "H").redirect = b.redirect
      /\ Unlock(b, "H").lock = [b.lock EXCEPT !["H"] = @ - 1]
  BY ZenonT(30), <1>1, <1>3, UnlockDoes, TwoChans
<1> QED
  BY ZenonT(30), <1>1, <1>2, <1>3, <1>4 DEF Like

\* The target is closed, and a redirection is waiting for it.
LEMMA CloseNotifies ==
    ASSUME NEW p \in Server, p.redirect = "sent", p.lock["H"] > 0
    PROVE  /\ CloseOne(p, "T") \in Server /\ Like(p, CloseOne(p, "T"))
           /\ CloseOne(p, "T").redirect = "no"
           /\ CloseOne(p, "T").lock["H"] = p.lock["H"] - 1 /\ CloseOne(p, "T").lock["T"] = p.lock["T"]
           /\ CloseOne(p, "T").state["H"] = p.state["H"] /\ CloseOne(p, "T").state["T"] = "Disconnected"
           /\ CloseOne(p, "T").out["T"] = Append(p.out["T"], EOS)
           /\ CloseOne(p, "T").out["H"] =
                IF p.state["H"] = "Disconnected" THEN p.out["H"] ELSE Append(p.out["H"], Failed)
<1> DEFINE a == Put(p, "T", EOS)
           b == [a EXCEPT !.state["T"] = "Disconnected"]
<1>1. /\ a \in Server /\ Like(p, a) /\ a.state = p.state /\ a.lock = p.lock
      /\ a.redirect = p.redirect /\ a.out = [p.out EXCEPT !["T"] = Append(@, EOS)]
  BY PutDoes, EndMessages, TwoChans
<1>2. CloseOne(p, "T") = NotifyClosed(b, "T")
  BY DEF CloseOne, EOS
<1> HIDE DEF a
<1>3. /\ b \in Server /\ Like(a, b) /\ b.state = [a.state EXCEPT !["T"] = "Disconnected"]
      /\ b.lock = a.lock /\ b.out = a.out /\ b.redirect = a.redirect
  BY <1>1, StateDoes, TwoChans DEF States
<1> HIDE DEF b
<1> DEFINE d == CommandRedirectDone(b, TRUE)
<1>4. NotifyClosed(b, "T") = d
  BY <1>1, <1>3 DEF NotifyClosed
<1>5. /\ d \in Server /\ Like(b, d) /\ d.redirect = "no" /\ d.state = b.state
      /\ d.lock = [b.lock EXCEPT !["H"] = @ - 1]
      /\ d.out = IF b.state["H"] = "Disconnected" THEN b.out ELSE [b.out EXCEPT !["H"] = Append(@, Failed)]
  BY ZenonT(30), <1>1, <1>3, RedirectFails
<1> HIDE DEF d
<1>6. b.state["H"] = p.state["H"] /\ p.out \in [Chans -> Seq(Message)]
  BY <1>1, <1>3, TwoChans DEF Server
<1>7. b.out["T"] = Append(p.out["T"], EOS) /\ b.out["H"] = p.out["H"] /\ b.out \in [Chans -> Seq(Message)]
  BY SMTT(30), <1>1, <1>3, <1>6, TwoChans DEF Server
<1>8. /\ d.out["T"] = b.out["T"]
      /\ d.out["H"] = IF p.state["H"] = "Disconnected" THEN b.out["H"] ELSE Append(b.out["H"], Failed)
  BY <1>5, <1>6, <1>7, TwoChans
<1>9. Like(p, d)
  BY <1>1, <1>3, <1>5 DEF Like
<1>10. /\ d.state["H"] = p.state["H"] /\ d.state["T"] = "Disconnected"
       /\ d.lock["H"] = p.lock["H"] - 1 /\ d.lock["T"] = p.lock["T"]
  <2>1. p.state \in [Chans -> States \cup {"none"}] /\ p.lock \in [Chans -> Nat]
    BY DEF Server
  <2>2. d.state = [p.state EXCEPT !["T"] = "Disconnected"] /\ d.lock = [p.lock EXCEPT !["H"] = @ - 1]
    BY <1>1, <1>3, <1>5
  <2> QED
    BY <2>1, <2>2, TwoChans
<1> QED
  BY <1>2, <1>4, <1>5, <1>7, <1>8, <1>9, <1>10

\* The proxy is freed.
LEMMA FreeDoes ==
    ASSUME NEW p \in Server, p.lock["H"] > 0, p.lock["T"] > 0
    PROVE  /\ ProxyFree(p) \in Server /\ ProxyFree(p).state = p.state /\ ProxyFree(p).out = p.out
           /\ ProxyFree(p).proxy = "freed" /\ ProxyFree(p).bcg = {} /\ ProxyFree(p).redirect = p.redirect
           /\ ProxyFree(p).read = p.read /\ ProxyFree(p).assert = p.assert
           /\ ProxyFree(p).lock["H"] = p.lock["H"] - 1 /\ ProxyFree(p).lock["T"] = p.lock["T"] - 1
<1> DEFINE a == Unlock(p, "H")
           b == Unlock(a, "T")
<1>1. /\ a \in Server /\ Like(p, a) /\ a.state = p.state /\ a.out = p.out /\ a.redirect = p.redirect
      /\ a.lock = [p.lock EXCEPT !["H"] = @ - 1]
  BY UnlockDoes, TwoChans
<1> HIDE DEF a
<1>2. p.lock \in [Chans -> Nat] /\ a.lock["T"] = p.lock["T"] /\ a.lock["H"] = p.lock["H"] - 1
  BY <1>1, TwoChans DEF Server
<1>3. /\ b \in Server /\ Like(a, b) /\ b.state = a.state /\ b.out = a.out /\ b.redirect = a.redirect
      /\ b.lock = [a.lock EXCEPT !["T"] = @ - 1]
  BY <1>1, <1>2, UnlockDoes, TwoChans
<1> HIDE DEF b
<1>4. a.lock \in [Chans -> Nat] /\ b.lock["H"] = a.lock["H"] /\ b.lock["T"] = a.lock["T"] - 1
  BY <1>1, <1>3, TwoChans DEF Server
<1>5. ProxyFree(p) = [b EXCEPT !.proxy = "freed", !.bcg = {}]
  BY DEF ProxyFree, a, b
<1>6. /\ ProxyFree(p) \in Server /\ ProxyFree(p).state = b.state /\ ProxyFree(p).out = b.out
      /\ ProxyFree(p).proxy = "freed" /\ ProxyFree(p).bcg = {} /\ ProxyFree(p).redirect = b.redirect
      /\ ProxyFree(p).read = b.read /\ ProxyFree(p).assert = b.assert /\ ProxyFree(p).lock = b.lock
  BY <1>3, <1>5 DEF Server
<1> QED
  BY <1>1, <1>2, <1>3, <1>4, <1>6 DEF Like

\* What the server says of itself, by mode.
LEMMA Open ==
    ASSUME NEW p, ServerOK(p)
    PROVE  /\ p \in Server /\ p.assert /\ p.lock \in [Chans -> Nat] /\ p.state \in [Chans -> States \cup {"none"}]
           /\ p.state["H"] \in {"Connected", "RedirectReceived", "HelloReceived", "Disconnected"}
           /\ p.state["T"] \in {"none", "Disconnected", "HelloSent", "Connected", "RedirectSent"}
           /\ TargetOpen(p) <=> p.proxy = "made"
           /\ p.proxy = "made" => /\ p.state["H"] # "Disconnected" /\ p.lock["T"] = 2
                                  /\ p.lock["H"] = IF p.redirect = "no" THEN 2 ELSE 3
           /\ p.redirect = "sent" <=> p.state["T"] = "RedirectSent"
           /\ p.state["H"] = "HelloReceived" <=> p.state["T"] = "HelloSent"
           /\ p.state["H"] = "RedirectReceived" => p.redirect = "connect"
           /\ p.redirect = "connect" => p.proxy = "none" /\ p.state["T"] = "none"
           /\ p.state["H"] # "Disconnected" => p.read = {} /\ p.state["T"] # "Disconnected"
<1>1. /\ p \in Server /\ p.assert /\ p.lock \in [Chans -> Nat] /\ p.state \in [Chans -> States \cup {"none"}]
      /\ p.read \subseteq Chans
  BY DEF ServerOK, Server
<1>2. /\ p.state["H"] \in {"Connected", "RedirectReceived", "HelloReceived", "Disconnected"}
      /\ p.state["T"] \in {"none", "Disconnected", "HelloSent", "Connected", "RedirectSent"}
      /\ TargetOpen(p) <=> p.proxy = "made"
      /\ p.redirect = "sent" <=> p.state["T"] = "RedirectSent"
      /\ p.state["H"] = "HelloReceived" <=> p.state["T"] = "HelloSent"
      /\ p.state["H"] = "RedirectReceived" => p.redirect = "connect"
      /\ p.redirect = "connect" => p.proxy = "none" /\ p.state["T"] = "none"
      /\ p.proxy = "made" => p.state["H"] # "Disconnected"
      /\ p.state["H"] # "Disconnected" => p.state["T"] # "Disconnected"
  BY DEF ServerOK, Mode, Is, TargetOpen
<1>3. p.state["H"] # "Disconnected" => p.read = {}
  BY <1>1, <1>2 DEF ServerOK, Books, Chans
<1>4. p.proxy = "made" => p.lock["T"] = 2 /\ p.lock["H"] = IF p.redirect = "no" THEN 2 ELSE 3
  BY <1>1, <1>2, <1>3 DEF ServerOK, Books, Holds, TargetOpen
<1> QED
  BY <1>1, <1>2, <1>3, <1>4

\* What a server has written, host first.
Sent(p, h, t) == p.out["H"] = h /\ p.out["T"] = t

\* The host is closed, by the client or by the server.
LEMMA ClosedHost ==
    ASSUME NEW p, ServerOK(p), Sent(p, << >>, << >>), p.state["H"] # "Disconnected"
    PROVE  /\ ServerOK(Closed(p, "H")) /\ Closed(p, "H").state["H"] = "Disconnected"
           /\ Closed(p, "H").state["T"] = IF p.state["T"] = "none" THEN "none" ELSE "Disconnected"
           /\ Closed(p, "H").redirect = IF p.redirect = "sent" THEN "no" ELSE p.redirect
           /\ Sent(Closed(p, "H"), <<EOS>>, IF p.state["T"] = "none" THEN << >> ELSE <<EOS>>)
<1> DEFINE a == CloseOne(p, "H")
           b == CloseOne(a, "T")
           d == ProxyFree(b)
<1>0. /\ p \in Server /\ p.out \in [Chans -> Seq(Message)] /\ p.state \in [Chans -> States \cup {"none"}]
      /\ p.lock \in [Chans -> Nat]
  BY DEF ServerOK, Server
<1>1. /\ a \in Server /\ Like(p, a) /\ a.redirect = p.redirect /\ a.lock = p.lock
      /\ a.state = [p.state EXCEPT !["H"] = "Disconnected"]
      /\ a.out = [p.out EXCEPT !["H"] = Append(@, EOS)]
  BY <1>0, CloseOneDoes, TwoChans
<1>2. /\ a.state["H"] = "Disconnected" /\ a.state["T"] = p.state["T"]
      /\ a.out["H"] = <<EOS>> /\ a.out["T"] = << >> /\ a.out \in [Chans -> Seq(Message)]
  BY <1>0, <1>1, EndMessages, TwoChans DEF Sent, Server
<1>3. Closed(p, "H") = IF p.proxy # "made" THEN a ELSE IF IsClosed(a, "T") THEN ProxyFree(a) ELSE d
  BY TwoChans DEF Closed
<1> HIDE DEF a
<1>4. CASE p.proxy # "made"
  <2>1. Mode(a) /\ p.state["T"] = "none"
    BY <1>1, <1>2, <1>4 DEF ServerOK, Mode, Is, Like
  <2>2. Books(a)
    BY <1>1, <1>2, <1>4, <2>1 DEF ServerOK, Books, Holds, Like, Chans
  <2> QED
    BY ZenonT(30), <1>1, <1>2, <1>3, <1>4, <2>1, <2>2, Open DEF ServerOK, Like, Sent
<1>5. CASE p.proxy = "made"
  <2>1. p.state["T"] \in {"HelloSent", "Connected", "RedirectSent"}
    BY <1>5, Open DEF TargetOpen
  <2>2. Closed(p, "H") = d
    BY <1>2, <1>3, <1>5, <2>1 DEF IsClosed
  <2>3. /\ b \in Server /\ Like(a, b) /\ b.redirect = (IF p.redirect = "sent" THEN "no" ELSE p.redirect)
        /\ b.state["H"] = "Disconnected" /\ b.state["T"] = "Disconnected"
        /\ b.lock["H"] = 2 /\ b.lock["T"] = 2 /\ b.out["H"] = <<EOS>> /\ b.out["T"] = <<EOS>>
    <3>0. p.lock["T"] = 2 /\ p.lock["H"] = (IF p.redirect = "no" THEN 2 ELSE 3) /\ p.redirect # "connect"
      BY <1>5, Open
    <3>1. CASE p.redirect = "sent"
      <4>0. a.lock["H"] > 0
        BY <1>1, <3>0, <3>1
      <4>1. /\ b \in Server /\ Like(a, b) /\ b.redirect = "no"
            /\ b.lock["H"] = a.lock["H"] - 1 /\ b.lock["T"] = a.lock["T"]
            /\ b.state["H"] = a.state["H"] /\ b.state["T"] = "Disconnected"
            /\ b.out["T"] = Append(a.out["T"], EOS) /\ b.out["H"] = a.out["H"]
        BY <1>1, <1>2, <3>1, <4>0, CloseNotifies
      <4>2. a.lock["H"] - 1 = 2 /\ a.lock["T"] = 2 /\ Append(<< >>, EOS) = <<EOS>>
        BY <1>1, <3>0, <3>1, EndMessages
      <4> QED
        BY <1>2, <3>1, <4>1, <4>2
    <3>2. CASE p.redirect # "sent"
      <4>1. /\ b \in Server /\ Like(a, b) /\ b.redirect = a.redirect /\ b.lock = a.lock
            /\ b.state = [a.state EXCEPT !["T"] = "Disconnected"]
            /\ b.out = [a.out EXCEPT !["T"] = Append(@, EOS)]
        BY <1>1, <3>2, CloseOneDoes, TwoChans
      <4>2. p.redirect = "no"
        BY <1>0, <3>0, <3>2 DEF Server
      <4>3. a.state \in [Chans -> States \cup {"none"}]
        BY <1>1 DEF Server
      <4>4. b.state["H"] = "Disconnected" /\ b.state["T"] = "Disconnected"
        BY <1>2, <4>1, <4>3, TwoChans
      <4>5. b.out["H"] = <<EOS>> /\ b.out["T"] = <<EOS>>
        BY <1>2, <4>1, EndMessages, TwoChans
      <4> QED
        BY <1>1, <3>0, <4>1, <4>2, <4>4, <4>5
    <3> QED
      BY <3>1, <3>2
  <2> HIDE DEF b
  <2>4. /\ d \in Server /\ d.state = b.state /\ d.out = b.out
        /\ d.proxy = "freed" /\ d.bcg = {} /\ d.redirect = b.redirect
        /\ d.read = b.read /\ d.assert = b.assert /\ d.lock["H"] = 1 /\ d.lock["T"] = 1
    BY <2>3, FreeDoes
  <2> HIDE DEF d
  <2>5. d.redirect = "no" /\ d.read = {} /\ d.assert
    BY <1>0, <1>1, <1>5, <2>3, <2>4, Open DEF Like, Server
  <2>6. ServerOK(d)
    BY <2>3, <2>4, <2>5 DEF ServerOK, Mode, Is, Books, Holds, Chans
  <2> QED
    BY ZenonT(30), <1>0, <2>1, <2>2, <2>3, <2>4, <2>5, <2>6, Open DEF Sent
<1> QED
  BY <1>4, <1>5

\* The target is closed, by itself or by the server.
LEMMA ClosedTarget ==
    ASSUME NEW p, ServerOK(p), Sent(p, << >>, << >>), p.proxy = "made"
    PROVE  /\ ServerOK(Closed(p, "T")) /\ Closed(p, "T").state["H"] = "Disconnected"
           /\ Closed(p, "T").state["T"] = "Disconnected" /\ Closed(p, "T").redirect = "no"
           /\ Sent(Closed(p, "T"), IF p.redirect = "sent" THEN Append(<<Failed>>, EOS) ELSE <<EOS>>, <<EOS>>)
<1> DEFINE a == CloseOne(p, "T")
           b == CloseOne(a, "H")
           d == ProxyFree(b)
<1>0. /\ p \in Server /\ p.out \in [Chans -> Seq(Message)] /\ p.state \in [Chans -> States \cup {"none"}]
      /\ p.lock \in [Chans -> Nat] /\ p.redirect \in {"no", "sent"} /\ p.read = {} /\ p.assert
      /\ p.lock["T"] = 2 /\ p.lock["H"] = (IF p.redirect = "no" THEN 2 ELSE 3) /\ p.state["H"] # "Disconnected"
  BY Open DEF Server
<1>1. /\ a \in Server /\ Like(p, a) /\ a.redirect = "no"
      /\ a.state["H"] = p.state["H"] /\ a.state["T"] = "Disconnected" /\ a.lock["H"] = 2 /\ a.lock["T"] = 2
      /\ a.out["H"] = (IF p.redirect = "sent" THEN <<Failed>> ELSE << >>) /\ a.out["T"] = <<EOS>>
  <2>1. CASE p.redirect = "sent"
    <3>1. /\ a \in Server /\ Like(p, a) /\ a.redirect = "no"
          /\ a.lock["H"] = p.lock["H"] - 1 /\ a.lock["T"] = p.lock["T"]
          /\ a.state["H"] = p.state["H"] /\ a.state["T"] = "Disconnected"
          /\ a.out["T"] = Append(p.out["T"], EOS) /\ a.out["H"] = Append(p.out["H"], Failed)
      <4>1. p.lock["H"] > 0
        BY <1>0
      <4> QED
        BY <1>0, <2>1, <4>1, CloseNotifies
    <3>2. p.lock["H"] - 1 = 2 /\ Append(<< >>, EOS) = <<EOS>> /\ Append(<< >>, Failed) = <<Failed>>
      BY <1>0, <2>1, EndMessages
    <3> QED
      BY <1>0, <2>1, <3>1, <3>2 DEF Sent
  <2>2. CASE p.redirect # "sent"
    <3>1. /\ a \in Server /\ Like(p, a) /\ a.redirect = p.redirect /\ a.lock = p.lock
          /\ a.state = [p.state EXCEPT !["T"] = "Disconnected"]
          /\ a.out = [p.out EXCEPT !["T"] = Append(@, EOS)]
      BY <1>0, <2>2, CloseOneDoes, TwoChans
    <3> QED
      BY <1>0, <2>2, <3>1, EndMessages, TwoChans DEF Sent
  <2> QED
    BY <2>1, <2>2
<1>2. Closed(p, "T") = IF IsClosed(a, "H") THEN ProxyFree(a) ELSE d
  BY TwoChans DEF Closed
<1> HIDE DEF a
<1>3. a.state \in [Chans -> States \cup {"none"}] /\ a.out \in [Chans -> Seq(Message)]
  BY <1>1 DEF Server
<1>4. Closed(p, "T") = d
  BY <1>0, <1>1, <1>2 DEF IsClosed
<1>5. /\ b \in Server /\ Like(a, b) /\ b.redirect = a.redirect /\ b.lock = a.lock
      /\ b.state = [a.state EXCEPT !["H"] = "Disconnected"]
      /\ b.out = [a.out EXCEPT !["H"] = Append(@, EOS)]
  BY <1>1, CloseOneDoes, TwoChans
<1> HIDE DEF b
<1>6. /\ b.state["H"] = "Disconnected" /\ b.state["T"] = "Disconnected"
      /\ b.out["H"] = (IF p.redirect = "sent" THEN Append(<<Failed>>, EOS) ELSE <<EOS>>) /\ b.out["T"] = <<EOS>>
  <2>1. b.state["H"] = "Disconnected" /\ b.state["T"] = "Disconnected"
    BY <1>1, <1>3, <1>5, TwoChans
  <2>2. b.out["H"] = Append(a.out["H"], EOS) /\ b.out["T"] = a.out["T"]
    BY <1>3, <1>5, TwoChans
  <2>3. Append(<< >>, EOS) = <<EOS>>
    BY EndMessages
  <2> QED
    BY <1>1, <2>1, <2>2, <2>3
<1>7. /\ d \in Server /\ d.state = b.state /\ d.out = b.out
      /\ d.proxy = "freed" /\ d.bcg = {} /\ d.redirect = b.redirect
      /\ d.read = b.read /\ d.assert = b.assert /\ d.lock["H"] = 1 /\ d.lock["T"] = 1
  BY <1>1, <1>5, FreeDoes
<1> HIDE DEF d
<1>8. d.redirect = "no" /\ d.read = {} /\ d.assert
  BY <1>0, <1>1, <1>5, <1>7 DEF Like
<1>9. ServerOK(d)
  BY <1>6, <1>7, <1>8 DEF ServerOK, Mode, Is, Books, Holds, Chans
<1> QED
  BY <1>4, <1>6, <1>7, <1>8, <1>9 DEF Sent

-----------------------------------------------------------------------------
(* Redirections.                                                              *)

\* A server with a proxy, and one without a target.
LEMMA MadeOK ==
    ASSUME NEW q \in Server, Mode(q), q.assert, q.read = {}, q.proxy = "made", q.bcg = Chans,
           q.lock["H"] = (IF q.redirect = "no" THEN 2 ELSE 3), q.lock["T"] = 2
    PROVE  ServerOK(q)
<1>1. Books(q)
  BY DEF Books, Holds
<1> QED
  BY <1>1 DEF ServerOK

\* A server whose client has no target.
LEMMA AloneOK ==
    ASSUME NEW q \in Server, Mode(q), q.assert, q.read = {}, q.proxy = "none", q.bcg = {},
           q.lock["H"] = (IF q.redirect = "no" THEN 1 ELSE 2), q.state["T"] = "none"
    PROVE  ServerOK(q)
<1>1. Books(q)
  BY DEF Books, Holds
<1> QED
  BY <1>1 DEF ServerOK

\* A message is relayed or answered.
LEMMA PutOK ==
    ASSUME NEW p, ServerOK(p), NEW c \in Chans, NEW m \in Message
    PROVE  /\ ServerOK(Put(p, c, m)) /\ Put(p, c, m).state = p.state
           /\ Put(p, c, m).redirect = p.redirect /\ Put(p, c, m).rtoken = p.rtoken
<1>1. /\ Put(p, c, m) \in Server /\ Like(p, Put(p, c, m))
      /\ Put(p, c, m).state = p.state /\ Put(p, c, m).lock = p.lock /\ Put(p, c, m).redirect = p.redirect
  BY PutDoes DEF ServerOK
<1> QED
  BY <1>1 DEF ServerOK, Mode, Is, Books, Like

\* A connection to a target is tried.
Trying(p) == [Lock(p, "H") EXCEPT !.state["H"] = "RedirectReceived", !.redirect = "connect"]

\* The server tries to connect for a redirection.
LEMMA TryingOK ==
    ASSUME NEW p, ServerOK(p), Is(p, "none", "Connected", "none", "no")
    PROVE  /\ ServerOK(Trying(p)) /\ Is(Trying(p), "none", "RedirectReceived", "none", "connect")
           /\ Trying(p).out = p.out
<1> DEFINE a == Lock(p, "H")
<1>1. /\ a \in Server /\ Like(p, a) /\ a.state = p.state /\ a.out = p.out /\ a.redirect = p.redirect
      /\ a.lock = [p.lock EXCEPT !["H"] = @ + 1]
  BY LockDoes, TwoChans DEF ServerOK
<1>2. Trying(p) = [a EXCEPT !.state["H"] = "RedirectReceived", !.redirect = "connect"]
  BY DEF Trying
<1> HIDE DEF a
<1> DEFINE b == [a EXCEPT !.state["H"] = "RedirectReceived"]
           d == [b EXCEPT !.redirect = "connect"]
<1>3. /\ b \in Server /\ Like(a, b) /\ b.state = [a.state EXCEPT !["H"] = "RedirectReceived"]
      /\ b.lock = a.lock /\ b.out = a.out
  <2>1. a \in Server /\ "H" \in Chans /\ "RedirectReceived" \in States
    BY <1>1, TwoChans DEF States
  <2> QED
    BY <2>1, StateDoes
<1>4. /\ d \in Server /\ Like(b, d) /\ d.state = b.state /\ d.lock = b.lock /\ d.out = b.out
      /\ d.redirect = "connect"
  BY <1>3, RedirectDoes
<1>5. Trying(p) = d
  BY <1>1, <1>2 DEF Server
<1> HIDE DEF b, d
<1>6. /\ p.lock \in [Chans -> Nat] /\ p.lock["H"] = 1 /\ p.bcg = {} /\ p.proxy = "none" /\ p.read = {} /\ p.assert
      /\ p.state \in [Chans -> States \cup {"none"}] /\ p.state["T"] = "none"
  <2>1. /\ p.lock \in [Chans -> Nat] /\ p.read = {} /\ p.assert /\ p.state \in [Chans -> States \cup {"none"}]
        /\ p.proxy = "none" /\ p.redirect = "no" /\ p.state["T"] = "none"
    BY Open DEF Is
  <2> QED
    BY <2>1 DEF ServerOK, Books, Holds
<1>7. d.lock["H"] = 2
  BY <1>1, <1>3, <1>4, <1>6, TwoChans
<1>8. d.state["H"] = "RedirectReceived" /\ d.state["T"] = "none"
  BY <1>1, <1>3, <1>4, <1>6, TwoChans
<1>9. Is(d, "none", "RedirectReceived", "none", "connect")
  BY <1>1, <1>3, <1>4, <1>6, <1>8 DEF Is, Like
<1>10. ServerOK(d)
  <2>1. d.assert /\ d.read = {} /\ d.bcg = {} /\ Mode(d)
    BY <1>1, <1>3, <1>4, <1>6, <1>9 DEF Like, Mode
  <2> QED
    BY <1>4, <1>7, <1>9, <2>1, AloneOK DEF Is
<1> QED
  BY <1>1, <1>3, <1>4, <1>5, <1>9, <1>10

\* The redirect command is sent on to the target.
LEMMA LocatorOK ==
    ASSUME NEW p, ServerOK(p), Sent(p, << >>, << >>), Is(p, "made", "Connected", "Connected", "no")
    PROVE  /\ ServerOK(LocatorRedirect(p)) /\ Is(LocatorRedirect(p), "made", "Connected", "RedirectSent", "sent")
           /\ LocatorRedirect(p).rtoken = p.tokenid /\ p.tokenid \in Nat
           /\ Sent(LocatorRedirect(p), << >>, <<Msg("redirect", p.tokenid, 0, 0)>>)
<1> DEFINE m == Msg("redirect", p.tokenid, 0, 0)
           a == Lock(p, "H")
           b == [a EXCEPT !.redirect = "sent", !.rtoken = p.tokenid, !.tokenid = @ + 1,
                          !.state["T"] = "RedirectSent"]
           d == Put(b, "T", m)
<1>0. p \in Server /\ p.tokenid \in Nat /\ m \in Message
  <2>1. p \in Server /\ p.tokenid \in Nat
    BY DEF ServerOK, Server
  <2> QED
    BY <2>1, MsgType DEF Types
<1>00. /\ p.lock \in [Chans -> Nat] /\ p.lock["H"] = 2 /\ p.lock["T"] = 2 /\ p.bcg = Chans /\ p.proxy = "made"
       /\ p.assert /\ p.read = {} /\ p.out \in [Chans -> Seq(Message)]
       /\ p.state \in [Chans -> States \cup {"none"}] /\ p.state["H"] = "Connected"
  BY Open DEF Server, ServerOK, Books, Is
<1> HIDE DEF m
<1>1. /\ a \in Server /\ Like(p, a) /\ a.state = p.state /\ a.out = p.out /\ a.redirect = p.redirect
      /\ a.lock = [p.lock EXCEPT !["H"] = @ + 1]
  BY <1>0, LockDoes, TwoChans
<1> HIDE DEF a
<1>2. LocatorRedirect(p) = d
  <2>1. (p.state["T"] = "Connected") = TRUE
    BY DEF Is
  <2>2. Asserted(a, p.state["T"] = "Connected") = a
    BY <1>00, <1>1, <2>1, AssertDoes DEF Like
  <2> QED
    BY <2>2 DEF LocatorRedirect, a, m
<1>3. /\ b \in Server /\ b.state = [a.state EXCEPT !["T"] = "RedirectSent"] /\ b.lock = a.lock /\ b.out = a.out
      /\ b.redirect = "sent" /\ b.rtoken = p.tokenid
      /\ b.proxy = a.proxy /\ b.bcg = a.bcg /\ b.read = a.read /\ b.assert = a.assert
  <2>1. a \in Server /\ "T" \in Chans /\ "RedirectSent" \in States /\ p.tokenid \in Nat
    BY <1>0, <1>1, TwoChans DEF States
  <2>2. [a.state EXCEPT !["T"] = "RedirectSent"] \in [Chans -> States \cup {"none"}] /\ a.tokenid + 1 \in Nat
    BY <2>1 DEF Server
  <2>3. b = [a EXCEPT !.redirect = "sent", !.rtoken = p.tokenid, !.tokenid = a.tokenid + 1,
                      !.state = [a.state EXCEPT !["T"] = "RedirectSent"]]
    BY <2>1 DEF Server
  <2> QED
    BY <2>1, <2>2, <2>3 DEF Server
<1> HIDE DEF b
<1>4. /\ d \in Server /\ Like(b, d) /\ d.state = b.state /\ d.lock = b.lock /\ d.redirect = b.redirect
      /\ d.out = [b.out EXCEPT !["T"] = Append(@, m)]
  BY <1>0, <1>3, PutDoes, TwoChans
<1> HIDE DEF d
<1>5. Is(d, "made", "Connected", "RedirectSent", "sent")
  <2>1. d.state["H"] = "Connected" /\ d.state["T"] = "RedirectSent"
    BY <1>00, <1>1, <1>3, <1>4, TwoChans
  <2> QED
    BY <1>00, <1>1, <1>3, <1>4, <2>1 DEF Is, Like
<1>6. d.lock["H"] = 3 /\ d.lock["T"] = 2
  BY <1>00, <1>1, <1>3, <1>4, TwoChans
<1>7. ServerOK(d)
  <2>1. d.assert /\ d.read = {} /\ d.bcg = Chans /\ Mode(d)
    BY <1>00, <1>1, <1>3, <1>4, <1>5 DEF Like, Mode
  <2> QED
    BY <1>4, <1>5, <1>6, <2>1, MadeOK DEF Is
<1>8. d.out["H"] = << >> /\ d.out["T"] = <<m>>
  <2>1. d.out["H"] = p.out["H"] /\ d.out["T"] = Append(p.out["T"], m)
    BY <1>00, <1>1, <1>3, <1>4, TwoChans
  <2> QED
    BY <1>0, <2>1 DEF Sent
<1> QED
  BY <1>0, <1>2, <1>3, <1>4, <1>5, <1>7, <1>8 DEF Sent, Like, m

\* The Hello of the target.
LEMMA ConnectedOK ==
    ASSUME NEW p, ServerOK(p), Sent(p, << >>, << >>), Is(p, "made", "HelloReceived", "HelloSent", "no"),
           NEW gen \in Nat, NEW q, q = ProxyConnected([p EXCEPT !.state["T"] = "Connected"], gen)
    PROVE  /\ ServerOK(q) /\ Is(q, "made", "Connected", "Connected", "no")
           /\ Sent(q, <<Msg("Hello", 0, 0, gen)>>, << >>)
<1> DEFINE m == Msg("Hello", 0, 0, gen)
           a == [p EXCEPT !.state["T"] = "Connected"]
           b == [a EXCEPT !.state["H"] = "Connected"]
           d == Put(b, "H", m)
<1>0. p \in Server /\ m \in Message
  BY Open, MsgType DEF Types
<1>00. /\ p.lock \in [Chans -> Nat] /\ p.lock["H"] = 2 /\ p.lock["T"] = 2 /\ p.bcg = Chans /\ p.proxy = "made"
       /\ p.assert /\ p.redirect = "no" /\ p.read = {} /\ p.out \in [Chans -> Seq(Message)]
       /\ p.state \in [Chans -> States \cup {"none"}] /\ p.state["H"] = "HelloReceived"
  BY Open DEF Server, ServerOK, Books, Is
<1> HIDE DEF m
<1>1. /\ a \in Server /\ Like(p, a) /\ a.state = [p.state EXCEPT !["T"] = "Connected"]
      /\ a.lock = p.lock /\ a.out = p.out /\ a.redirect = p.redirect
  <2>1. p \in Server /\ "T" \in Chans /\ "Connected" \in States
    BY <1>0, TwoChans DEF States
  <2> QED
    BY <2>1, StateDoes
<1> HIDE DEF a
<1>2. q = d
  <2>1. (a.state["H"] = "HelloReceived") = TRUE
    BY <1>00, <1>1, TwoChans
  <2>2. Asserted(a, a.state["H"] = "HelloReceived") = a
    BY <1>00, <1>1, <2>1, AssertDoes DEF Like
  <2> QED
    BY <2>2 DEF ProxyConnected, a, m
<1>3. /\ b \in Server /\ Like(a, b) /\ b.state = [a.state EXCEPT !["H"] = "Connected"]
      /\ b.lock = a.lock /\ b.out = a.out /\ b.redirect = a.redirect
  BY <1>1, StateDoes, TwoChans DEF States
<1> HIDE DEF b
<1>4. /\ d \in Server /\ Like(b, d) /\ d.state = b.state /\ d.lock = b.lock /\ d.redirect = b.redirect
      /\ d.out = [b.out EXCEPT !["H"] = Append(@, m)]
  BY <1>0, <1>3, PutDoes, TwoChans
<1> HIDE DEF d
<1>5. Is(d, "made", "Connected", "Connected", "no")
  <2>1. d.state["H"] = "Connected" /\ d.state["T"] = "Connected"
    BY <1>00, <1>1, <1>3, <1>4, TwoChans
  <2> QED
    BY <1>00, <1>1, <1>3, <1>4, <2>1 DEF Is, Like
<1>6. ServerOK(d)
  <2>1. d.assert /\ d.read = {} /\ d.bcg = Chans /\ Mode(d) /\ d.lock["H"] = 2 /\ d.lock["T"] = 2
    BY <1>00, <1>1, <1>3, <1>4, <1>5 DEF Like, Mode
  <2> QED
    BY <1>4, <1>5, <2>1, MadeOK DEF Is
<1>7. d.out["H"] = <<m>> /\ d.out["T"] = << >>
  <2>1. d.out["T"] = p.out["T"] /\ d.out["H"] = Append(p.out["H"], m)
    BY <1>00, <1>1, <1>3, <1>4, TwoChans
  <2> QED
    BY <1>0, <2>1 DEF Sent
<1> QED
  BY <1>2, <1>5, <1>6, <1>7 DEF Sent, m

\* The answer of the target to a redirection.
Redirected == Msg("redirected", 0, 0, 0)

\* The message that answers it.
LEMMA RedirectedMessage == Redirected \in Message /\ Redirected.type = "redirected"
  BY MsgType DEF Redirected, Types

\* The target refused the redirection.
LEMMA RefusedOK ==
    ASSUME NEW p, ServerOK(p), Sent(p, << >>, << >>), Is(p, "made", "Connected", "RedirectSent", "sent")
    PROVE  /\ ServerOK(RedirectDone(p, TRUE)) /\ Is(RedirectDone(p, TRUE), "made", "Connected", "Connected", "no")
           /\ Sent(RedirectDone(p, TRUE), <<Failed>>, << >>)
<1> DEFINE a == [p EXCEPT !.state["T"] = "Connected"]
           d == CommandRedirectDone(a, TRUE)
<1>0. /\ p \in Server /\ p.lock["H"] = 3 /\ p.lock["T"] = 2 /\ p.bcg = Chans /\ p.proxy = "made"
      /\ p.assert /\ p.read = {} /\ p.state["H"] = "Connected" /\ p.state["T"] = "RedirectSent"
  BY Open DEF ServerOK, Books, Is
<1>00. /\ p.out \in [Chans -> Seq(Message)] /\ p.state \in [Chans -> States \cup {"none"}]
       /\ p.lock \in [Chans -> Nat]
  BY <1>0 DEF Server
<1>1. /\ a \in Server /\ Like(p, a) /\ a.state = [p.state EXCEPT !["T"] = "Connected"]
      /\ a.lock = p.lock /\ a.out = p.out
  <2>1. p \in Server /\ "T" \in Chans /\ "Connected" \in States
    BY <1>0, TwoChans DEF States
  <2> QED
    BY <2>1, StateDoes
<1>2. RedirectDone(p, TRUE) = d
  <2>1. (p.state["T"] = "RedirectSent") = TRUE
    BY <1>0
  <2>2. Asserted(p, p.state["T"] = "RedirectSent") = p
    BY <1>0, <2>1, AssertDoes
  <2> QED
    BY <2>2 DEF RedirectDone
<1> HIDE DEF a
<1>3. a.lock["H"] > 0 /\ a.state["H"] = "Connected" /\ a.state["T"] = "Connected"
  BY <1>0, <1>00, <1>1, TwoChans
<1>4. /\ d \in Server /\ Like(a, d) /\ d.redirect = "no" /\ d.state = a.state
      /\ d.lock = [a.lock EXCEPT !["H"] = @ - 1] /\ d.out = [a.out EXCEPT !["H"] = Append(@, Failed)]
  BY <1>1, <1>3, RedirectFails
<1> HIDE DEF d
<1>5. Is(d, "made", "Connected", "Connected", "no")
  BY <1>0, <1>1, <1>3, <1>4 DEF Is, Like
<1>6. d.lock["H"] = 2 /\ d.lock["T"] = 2
  BY <1>0, <1>00, <1>1, <1>4, TwoChans
<1>7. ServerOK(d)
  <2>1. d.assert /\ d.read = {} /\ d.bcg = Chans /\ Mode(d)
    BY <1>0, <1>1, <1>4, <1>5 DEF Like, Mode
  <2> QED
    BY <1>4, <1>5, <1>6, <2>1, MadeOK DEF Is
<1>8. d.out["H"] = <<Failed>> /\ d.out["T"] = << >>
  <2>1. d.out["H"] = Append(p.out["H"], Failed) /\ d.out["T"] = p.out["T"]
    BY <1>00, <1>1, <1>4, TwoChans
  <2> QED
    BY <2>1, EndMessages DEF Sent
<1> QED
  BY <1>2, <1>5, <1>7, <1>8 DEF Sent

\* The target accepted it: both channels wait for the next Hello.
LEMMA AcceptedOK ==
    ASSUME NEW p, ServerOK(p), Sent(p, << >>, << >>), Is(p, "made", "Connected", "RedirectSent", "sent")
    PROVE  /\ ServerOK(RedirectDone(p, FALSE))
           /\ Is(RedirectDone(p, FALSE), "made", "HelloReceived", "HelloSent", "no")
           /\ Sent(RedirectDone(p, FALSE), <<Redirected>>, << >>)
<1> DEFINE a == [p EXCEPT !.state["T"] = "HelloSent"]
           b == [a EXCEPT !.state["H"] = "HelloReceived"]
           d == Put(b, "H", Redirected)
           e == [d EXCEPT !.redirect = "no"]
           f == Unlock(e, "H")
<1>0. /\ p \in Server /\ p.lock["H"] = 3 /\ p.lock["T"] = 2 /\ p.bcg = Chans /\ p.proxy = "made"
      /\ p.assert /\ p.read = {} /\ p.state["H"] = "Connected" /\ p.state["T"] = "RedirectSent"
  BY Open DEF ServerOK, Books, Is
<1>00. /\ p.out \in [Chans -> Seq(Message)] /\ p.state \in [Chans -> States \cup {"none"}]
       /\ p.lock \in [Chans -> Nat]
  BY <1>0 DEF Server
<1>1. /\ a \in Server /\ Like(p, a) /\ a.state = [p.state EXCEPT !["T"] = "HelloSent"]
      /\ a.lock = p.lock /\ a.out = p.out
  <2>1. p \in Server /\ "T" \in Chans /\ "HelloSent" \in States
    BY <1>0, TwoChans DEF States
  <2> QED
    BY <2>1, StateDoes
<1>2. RedirectDone(p, FALSE) = CommandRedirectDone(a, FALSE)
  <2>1. (p.state["T"] = "RedirectSent") = TRUE
    BY <1>0
  <2>2. Asserted(p, p.state["T"] = "RedirectSent") = p
    BY <1>0, <2>1, AssertDoes
  <2> QED
    BY <2>2 DEF RedirectDone
<1> HIDE DEF a
<1>3. a.state["H"] = "Connected" /\ a.state["T"] = "HelloSent" /\ a.state \in [Chans -> States \cup {"none"}]
  BY <1>0, <1>00, <1>1, TwoChans DEF Server
<1>4. CommandRedirectDone(a, FALSE) = f
  <2>1. (a.state["H"] = "Connected" /\ a.state["T"] = "HelloSent") = TRUE
    BY <1>3
  <2>2. Asserted(a, a.state["H"] = "Connected" /\ a.state["T"] = "HelloSent") = a
    BY <1>0, <1>1, <2>1, AssertDoes DEF Like
  <2>3. ProxyUpdate(a) = b
    BY <2>2 DEF ProxyUpdate
  <2>4. ~IsClosed(a, "H")
    BY <1>3 DEF IsClosed
  <2> QED
    BY <2>3, <2>4 DEF CommandRedirectDone, Redirected
<1>5. /\ b \in Server /\ Like(a, b) /\ b.state = [a.state EXCEPT !["H"] = "HelloReceived"]
      /\ b.lock = a.lock /\ b.out = a.out
  <2>1. a \in Server /\ "H" \in Chans /\ "HelloReceived" \in States
    BY <1>1, TwoChans DEF States
  <2> QED
    BY <2>1, StateDoes
<1> HIDE DEF b
<1>6. /\ d \in Server /\ Like(b, d) /\ d.state = b.state /\ d.lock = b.lock
      /\ d.out = [b.out EXCEPT !["H"] = Append(@, Redirected)]
  BY <1>5, PutDoes, TwoChans, RedirectedMessage
<1> HIDE DEF d
<1>7. /\ e \in Server /\ Like(d, e) /\ e.state = d.state /\ e.lock = d.lock /\ e.out = d.out /\ e.redirect = "no"
  BY <1>6, RedirectDoes
<1> HIDE DEF e
<1>8. e.lock = p.lock /\ e.lock["H"] > 0
  BY <1>0, <1>1, <1>5, <1>6, <1>7
<1>9. /\ f \in Server /\ Like(e, f) /\ f.state = e.state /\ f.out = e.out /\ f.redirect = e.redirect
      /\ f.lock = [e.lock EXCEPT !["H"] = @ - 1]
  BY <1>7, <1>8, UnlockDoes, TwoChans
<1> HIDE DEF f
<1>10. Like(p, f)
  BY <1>1, <1>5, <1>6, <1>7, <1>9 DEF Like
<1>11. f.state["H"] = "HelloReceived" /\ f.state["T"] = "HelloSent"
  BY <1>3, <1>5, <1>6, <1>7, <1>9, TwoChans
<1>12. Is(f, "made", "HelloReceived", "HelloSent", "no")
  BY <1>0, <1>7, <1>9, <1>10, <1>11 DEF Is, Like
<1>13. f.lock["H"] = 2 /\ f.lock["T"] = 2
  BY <1>0, <1>00, <1>8, <1>9, TwoChans
<1>14. ServerOK(f)
  <2>1. f.assert /\ f.read = {} /\ f.bcg = Chans /\ Mode(f)
    BY <1>0, <1>10, <1>12 DEF Like, Mode
  <2> QED
    BY <1>9, <1>12, <1>13, <2>1, MadeOK DEF Is
<1>15. f.out["H"] = <<Redirected>> /\ f.out["T"] = << >>
  <2>1. f.out = [p.out EXCEPT !["H"] = Append(@, Redirected)]
    BY <1>1, <1>5, <1>6, <1>7, <1>9
  <2>2. f.out["H"] = Append(p.out["H"], Redirected) /\ f.out["T"] = p.out["T"]
    BY <1>00, <2>1, TwoChans
  <2> QED
    BY <2>2, RedirectedMessage DEF Sent
<1> QED
  BY <1>2, <1>4, <1>12, <1>14, <1>15 DEF Sent

-----------------------------------------------------------------------------
(* A connection is made or fails.                                             *)

Tried(p) == Unlock([p EXCEPT !.redirect = "no"], "H")
Met(p) == [p EXCEPT !.state["T"] = "StartWait", !.lock["T"] = 1]
Refused(p) == Put([Asserted(p, p.state["H"] = "RedirectReceived") EXCEPT !.state["H"] = "Connected"], "H", Failed)
Accepted(p) == Put(ProxyCreate(Met(Asserted(p, p.state["H"] = "RedirectReceived"))), "H", Redirected)

\* The redirection that tried the connection is over.
LEMMA TriedDoes ==
    ASSUME NEW p, ServerOK(p), p.redirect = "connect"
    PROVE  /\ Tried(p) \in Server /\ Tried(p).state = p.state /\ Tried(p).out = p.out
           /\ Tried(p).redirect = "no" /\ Tried(p).proxy = "none" /\ Tried(p).state["T"] = "none"
           /\ Tried(p).bcg = {} /\ Tried(p).read = p.read /\ Tried(p).assert
           /\ Tried(p).lock["H"] = Holds("H" \notin p.read) /\ "T" \notin p.read
<1> DEFINE a == [p EXCEPT !.redirect = "no"]
<1>0. /\ p \in Server /\ p.proxy = "none" /\ p.state["T"] = "none" /\ p.assert /\ p.lock \in [Chans -> Nat]
  BY Open
<1>1. /\ p.bcg = {} /\ p.lock["H"] = Holds("H" \notin p.read) + 1 /\ "T" \notin p.read
  BY <1>0 DEF ServerOK, Books, Holds
<1>2. /\ a \in Server /\ Like(p, a) /\ a.state = p.state /\ a.lock = p.lock /\ a.out = p.out /\ a.redirect = "no"
  BY <1>0, RedirectDoes
<1>3. Tried(p) = Unlock(a, "H")
  BY DEF Tried
<1> HIDE DEF a
<1>4. a.lock["H"] > 0
  BY <1>1, <1>2 DEF Holds
<1>5. /\ Tried(p) \in Server /\ Like(a, Tried(p)) /\ Tried(p).state = a.state /\ Tried(p).out = a.out
      /\ Tried(p).redirect = a.redirect /\ Tried(p).lock = [a.lock EXCEPT !["H"] = @ - 1]
  BY <1>2, <1>3, <1>4, UnlockDoes, TwoChans
<1>6. Tried(p).lock["H"] = Holds("H" \notin p.read)
  <2>1. Holds("H" \notin p.read) \in Nat
    BY DEF Holds
  <2>2. Tried(p).lock["H"] = p.lock["H"] - 1
    BY <1>0, <1>2, <1>5, TwoChans
  <2> QED
    BY <1>1, <2>1, <2>2
<1> QED
  BY <1>0, <1>1, <1>2, <1>5, <1>6 DEF Like

\* It failed, and the host has been closed meanwhile.
LEMMA TriedOK ==
    ASSUME NEW p, ServerOK(p), p.redirect = "connect", p.state["H"] = "Disconnected"
    PROVE  ServerOK(Tried(p)) /\ Is(Tried(p), "none", "Disconnected", "none", "no")
<1>1. Is(Tried(p), "none", "Disconnected", "none", "no")
  BY TriedDoes DEF Is
<1>2. p.read \subseteq {"H"}
  BY TriedDoes DEF ServerOK, Server, Chans
<1>3. Books(Tried(p))
  BY <1>1, <1>2, TriedDoes DEF Books, Holds, Is
<1> QED
  BY <1>1, <1>3, TriedDoes DEF ServerOK, Mode

\* It failed.
LEMMA ConnectFailsOK ==
    ASSUME NEW p, ServerOK(p), Sent(p, << >>, << >>), p.redirect = "connect", p.state["H"] # "Disconnected"
    PROVE  /\ ServerOK(Refused(Tried(p))) /\ Is(Refused(Tried(p)), "none", "Connected", "none", "no")
           /\ Sent(Refused(Tried(p)), <<Failed>>, << >>)
<1> DEFINE a == Tried(p)
           b == [a EXCEPT !.state["H"] = "Connected"]
           d == Put(b, "H", Failed)
<1>1. /\ a \in Server /\ a.state = p.state /\ a.out = p.out /\ a.redirect = "no" /\ a.proxy = "none"
      /\ a.state["T"] = "none" /\ a.bcg = {} /\ a.read = p.read /\ a.assert
      /\ a.lock["H"] = Holds("H" \notin p.read)
  BY TriedDoes
<1>2. /\ p.state["H"] = "RedirectReceived" /\ p.read = {}
      /\ p.state \in [Chans -> States \cup {"none"}]
  <2>1. p.state["H"] = "RedirectReceived"
    BY DEF ServerOK, Mode, Is
  <2> QED
    BY <2>1, Open
<1>3. p.out \in [Chans -> Seq(Message)]
  BY DEF ServerOK, Server
<1> HIDE DEF a
<1>4. Refused(a) = d
  <2>1. (a.state["H"] = "RedirectReceived") = TRUE
    BY <1>1, <1>2
  <2>2. Asserted(a, a.state["H"] = "RedirectReceived") = a
    BY <1>1, <2>1, AssertDoes
  <2> QED
    BY <2>2 DEF Refused
<1>5. /\ b \in Server /\ Like(a, b) /\ b.state = [a.state EXCEPT !["H"] = "Connected"]
      /\ b.lock = a.lock /\ b.out = a.out /\ b.redirect = a.redirect
  <2>1. a \in Server /\ "H" \in Chans /\ "Connected" \in States
    BY <1>1, TwoChans DEF States
  <2> QED
    BY <2>1, StateDoes
<1> HIDE DEF b
<1>6. /\ d \in Server /\ Like(b, d) /\ d.state = b.state /\ d.lock = b.lock /\ d.redirect = b.redirect
      /\ d.out = [b.out EXCEPT !["H"] = Append(@, Failed)]
  BY <1>5, PutDoes, TwoChans, EndMessages
<1> HIDE DEF d
<1>7. d.state["H"] = "Connected" /\ d.state["T"] = "none"
  BY <1>1, <1>2, <1>5, <1>6, TwoChans
<1>8. Is(d, "none", "Connected", "none", "no")
  BY <1>1, <1>5, <1>6, <1>7 DEF Is, Like
<1>9. ServerOK(d)
  <2>1. d.assert /\ d.read = {} /\ d.bcg = {} /\ Mode(d)
    BY <1>1, <1>2, <1>5, <1>6, <1>8 DEF Like, Mode
  <2>2. d.lock["H"] = 1
    BY <1>1, <1>2, <1>5, <1>6 DEF Holds
  <2> QED
    BY <1>6, <1>8, <2>1, <2>2, AloneOK DEF Is
<1>10. d.out["H"] = <<Failed>> /\ d.out["T"] = << >>
  <2>1. d.out["H"] = Append(p.out["H"], Failed) /\ d.out["T"] = p.out["T"]
    BY <1>1, <1>3, <1>5, <1>6, TwoChans
  <2> QED
    BY <2>1, EndMessages DEF Sent
<1> QED
  BY <1>4, <1>8, <1>9, <1>10 DEF Sent, a

\* A new channel.
LEMMA MetDoes ==
    ASSUME NEW p \in Server
    PROVE  /\ Met(p) \in Server /\ Like(p, Met(p)) /\ Met(p).redirect = p.redirect /\ Met(p).out = p.out
           /\ Met(p).state["H"] = p.state["H"] /\ Met(p).state["T"] = "StartWait"
           /\ Met(p).lock["H"] = p.lock["H"] /\ Met(p).lock["T"] = 1
<1> DEFINE a == [p EXCEPT !.state["T"] = "StartWait"]
<1>1. /\ a \in Server /\ Like(p, a) /\ a.state = [p.state EXCEPT !["T"] = "StartWait"]
      /\ a.lock = p.lock /\ a.out = p.out /\ a.redirect = p.redirect
  <2>1. "T" \in Chans /\ "StartWait" \in States
    BY TwoChans DEF States
  <2> QED
    BY <2>1, StateDoes
<1>2. [a.lock EXCEPT !["T"] = 1] \in [Chans -> Nat]
  BY <1>1 DEF Server
<1>3. Met(p) = [a EXCEPT !.lock = [a.lock EXCEPT !["T"] = 1]]
  BY DEF Met, Server
<1> HIDE DEF a
<1>4. /\ Met(p) \in Server /\ Like(a, Met(p)) /\ Met(p).state = a.state /\ Met(p).out = a.out
      /\ Met(p).redirect = a.redirect /\ Met(p).lock = [a.lock EXCEPT !["T"] = 1]
  BY <1>1, <1>2, <1>3 DEF Server, Like
<1>5. p.state \in [Chans -> States \cup {"none"}] /\ p.lock \in [Chans -> Nat]
  BY DEF Server
<1>6. /\ Met(p).state["H"] = p.state["H"] /\ Met(p).state["T"] = "StartWait"
      /\ Met(p).lock["H"] = p.lock["H"] /\ Met(p).lock["T"] = 1
  BY <1>1, <1>4, <1>5, TwoChans
<1>7. Like(p, Met(p))
  BY <1>1, <1>4 DEF Like
<1> QED
  BY <1>1, <1>4, <1>6, <1>7

\* The host has been closed meanwhile, and the new channel is closed too.
LEMMA LateOK ==
    ASSUME NEW p, ServerOK(p), Sent(p, << >>, << >>), p.redirect = "connect", p.state["H"] = "Disconnected"
    PROVE  /\ ServerOK(Closed(Met(Tried(p)), "T"))
           /\ Is(Closed(Met(Tried(p)), "T"), "none", "Disconnected", "Disconnected", "no")
           /\ Sent(Closed(Met(Tried(p)), "T"), << >>, <<EOS>>)
<1> DEFINE a == Tried(p)
           b == Met(a)
           d == CloseOne(b, "T")
<1>1. /\ a \in Server /\ a.state = p.state /\ a.out = p.out /\ a.redirect = "no" /\ a.proxy = "none"
      /\ a.bcg = {} /\ a.read = p.read /\ a.assert
      /\ a.lock["H"] = Holds("H" \notin p.read) /\ "T" \notin p.read
  BY TriedDoes
<1> HIDE DEF a
<1>2. /\ b \in Server /\ Like(a, b) /\ b.redirect = a.redirect /\ b.out = a.out
      /\ b.state["H"] = a.state["H"] /\ b.state["T"] = "StartWait"
      /\ b.lock["H"] = a.lock["H"] /\ b.lock["T"] = 1
  BY <1>1, MetDoes
<1>3. Closed(b, "T") = d
  BY <1>1, <1>2 DEF Closed, Like
<1> HIDE DEF b
<1>4. /\ d \in Server /\ Like(b, d) /\ d.redirect = b.redirect /\ d.lock = b.lock
      /\ d.state = [b.state EXCEPT !["T"] = "Disconnected"]
      /\ d.out = [b.out EXCEPT !["T"] = Append(@, EOS)]
  BY <1>1, <1>2, CloseOneDoes, TwoChans
<1> HIDE DEF d
<1>5. /\ b.state \in [Chans -> States \cup {"none"}] /\ p.out \in [Chans -> Seq(Message)]
      /\ p.read \subseteq Chans
  BY <1>2 DEF ServerOK, Server
<1>6. d.state["H"] = "Disconnected" /\ d.state["T"] = "Disconnected"
  BY <1>1, <1>2, <1>4, <1>5, TwoChans
<1>7. Is(d, "none", "Disconnected", "Disconnected", "no")
  BY <1>1, <1>2, <1>4, <1>6 DEF Is, Like
<1>8. Books(d)
  <2>1. d.lock["H"] = Holds("H" \notin p.read) /\ d.lock["T"] = 1 /\ d.bcg = {} /\ d.read = p.read
    BY <1>1, <1>2, <1>4 DEF Like
  <2>2. \A c \in p.read : d.state[c] = "Disconnected"
    BY <1>5, <1>6, TwoChans
  <2> QED
    BY <1>1, <1>7, <2>1, <2>2 DEF Books, Holds, Is
<1>9. ServerOK(d)
  BY <1>1, <1>2, <1>4, <1>7, <1>8 DEF ServerOK, Mode, Like
<1>10. d.out["H"] = << >> /\ d.out["T"] = <<EOS>>
  <2>1. d.out["H"] = p.out["H"] /\ d.out["T"] = Append(p.out["T"], EOS)
    BY <1>1, <1>2, <1>4, <1>5, TwoChans
  <2> QED
    BY <2>1, EndMessages DEF Sent
<1> QED
  BY <1>3, <1>7, <1>9, <1>10 DEF Sent, a, b

\* A proxy is made.
LEMMA CreateOK ==
    ASSUME NEW p, ServerOK(p), Sent(p, << >>, << >>), p.redirect = "connect", p.state["H"] # "Disconnected"
    PROVE  /\ ServerOK(Accepted(Tried(p))) /\ Is(Accepted(Tried(p)), "made", "HelloReceived", "HelloSent", "no")
           /\ Sent(Accepted(Tried(p)), <<Redirected>>, <<Msg("Hello", 0, 0, 0)>>)
<1> DEFINE m == Msg("Hello", 0, 0, 0)
           a == Tried(p)
           b == Met(a)
           b1 == Lock(b, "H")
           b2 == Lock(b1, "T")
           d == [b2 EXCEPT !.proxy = "made", !.bcg = Chans,
                           !.state = [@ EXCEPT !["H"] = "HelloReceived", !["T"] = "HelloSent"]]
           e == Put(d, "T", m)
           f == Put(e, "H", Redirected)
<1>0. m \in Message
  BY MsgType DEF Types
<1>1. /\ a \in Server /\ a.state = p.state /\ a.out = p.out /\ a.redirect = "no" /\ a.proxy = "none"
      /\ a.state["T"] = "none" /\ a.bcg = {} /\ a.read = p.read /\ a.assert
      /\ a.lock["H"] = Holds("H" \notin p.read)
  BY TriedDoes
<1>2. /\ p.state["H"] = "RedirectReceived" /\ p.read = {}
  <2>1. p.state["H"] = "RedirectReceived"
    BY DEF ServerOK, Mode, Is
  <2> QED
    BY <2>1, Open
<1>3. p.out \in [Chans -> Seq(Message)]
  BY DEF ServerOK, Server
<1> HIDE DEF a, m
<1>4. Asserted(a, a.state["H"] = "RedirectReceived") = a
  <2>1. (a.state["H"] = "RedirectReceived") = TRUE
    BY <1>1, <1>2
  <2> QED
    BY <1>1, <2>1, AssertDoes
<1>5. /\ b \in Server /\ Like(a, b) /\ b.redirect = a.redirect /\ b.out = a.out
      /\ b.state["H"] = a.state["H"] /\ b.state["T"] = "StartWait"
      /\ b.lock["H"] = a.lock["H"] /\ b.lock["T"] = 1
  BY <1>1, MetDoes
<1> HIDE DEF b
<1>6. Accepted(a) = f
  <2>1. (b.state["H"] = "RedirectReceived" /\ b.state["T"] = "StartWait") = TRUE
    BY <1>1, <1>2, <1>5
  <2>2. Asserted(b, b.state["H"] = "RedirectReceived" /\ b.state["T"] = "StartWait") = b
    BY <1>1, <1>5, <2>1, AssertDoes DEF Like
  <2>3. ProxyCreate(b) = e
    BY <2>2 DEF ProxyCreate, m
  <2> QED
    BY <1>4, <2>3 DEF Accepted, b
<1>7. /\ b1 \in Server /\ Like(b, b1) /\ b1.state = b.state /\ b1.out = b.out /\ b1.redirect = b.redirect
      /\ b1.lock = [b.lock EXCEPT !["H"] = @ + 1]
  BY <1>5, LockDoes, TwoChans
<1> HIDE DEF b1
<1>8. /\ b2 \in Server /\ Like(b1, b2) /\ b2.state = b1.state /\ b2.out = b1.out /\ b2.redirect = b1.redirect
      /\ b2.lock = [b1.lock EXCEPT !["T"] = @ + 1]
  BY <1>7, LockDoes, TwoChans
<1> HIDE DEF b2
<1>9. b2.lock["H"] = 2 /\ b2.lock["T"] = 2
  <2>1. b.lock \in [Chans -> Nat] /\ b1.lock \in [Chans -> Nat] /\ b.lock["H"] = 1
    BY ZenonT(30), <1>1, <1>2, <1>5, <1>7 DEF Server, Holds
  <2>2. b1.lock["H"] = 2 /\ b1.lock["T"] = 1
    BY <1>5, <1>7, <2>1, TwoChans
  <2> QED
    BY <1>8, <2>1, <2>2, TwoChans
<1>10. /\ d \in Server /\ d.state["H"] = "HelloReceived" /\ d.state["T"] = "HelloSent" /\ d.lock = b2.lock
       /\ d.out = b2.out /\ d.redirect = b2.redirect /\ d.proxy = "made" /\ d.bcg = Chans
       /\ d.read = b2.read /\ d.assert = b2.assert
  <2> DEFINE st == [b2.state EXCEPT !["H"] = "HelloReceived", !["T"] = "HelloSent"]
  <2>1. /\ st \in [Chans -> States \cup {"none"}] /\ st["H"] = "HelloReceived" /\ st["T"] = "HelloSent"
    BY <1>8, TwoChans DEF Server, States
  <2>2. d = [b2 EXCEPT !.proxy = "made", !.bcg = Chans, !.state = st]
    BY <1>8 DEF Server
  <2> HIDE DEF st
  <2> QED
    BY <1>8, <2>1, <2>2 DEF Server
<1> HIDE DEF d
<1>11. /\ e \in Server /\ Like(d, e) /\ e.state = d.state /\ e.lock = d.lock /\ e.redirect = d.redirect
       /\ e.out = [d.out EXCEPT !["T"] = Append(@, m)]
  BY <1>0, <1>10, PutDoes, TwoChans
<1> HIDE DEF e
<1>12. /\ f \in Server /\ Like(e, f) /\ f.state = e.state /\ f.lock = e.lock /\ f.redirect = e.redirect
       /\ f.out = [e.out EXCEPT !["H"] = Append(@, Redirected)]
  BY <1>11, PutDoes, TwoChans, RedirectedMessage
<1> HIDE DEF f
<1>13. Is(f, "made", "HelloReceived", "HelloSent", "no")
  BY <1>1, <1>5, <1>7, <1>8, <1>10, <1>11, <1>12 DEF Is, Like
<1>14. ServerOK(f)
  <2>1. f.read = {} /\ f.bcg = Chans /\ Mode(f) /\ f.lock["H"] = 2 /\ f.lock["T"] = 2
    BY <1>1, <1>2, <1>5, <1>7, <1>8, <1>9, <1>10, <1>11, <1>12, <1>13 DEF Like, Mode
  <2>2. f.assert
    BY <1>1, <1>5, <1>7, <1>8, <1>10, <1>11, <1>12 DEF Like
  <2> QED
    BY <1>12, <1>13, <2>1, <2>2, MadeOK DEF Is
<1>15. f.out["H"] = <<Redirected>> /\ f.out["T"] = <<m>>
  <2>1. d.out = p.out
    BY <1>1, <1>5, <1>7, <1>8, <1>10
  <2>2. e.out["H"] = p.out["H"] /\ e.out["T"] = Append(p.out["T"], m) /\ e.out \in [Chans -> Seq(Message)]
    BY <1>3, <1>11, <2>1, TwoChans DEF Server
  <2>3. f.out["H"] = Append(p.out["H"], Redirected) /\ f.out["T"] = Append(p.out["T"], m)
    BY <1>12, <2>2, TwoChans
  <2> QED
    BY <1>0, <2>3, RedirectedMessage DEF Sent
<1> QED
  BY <1>6, <1>13, <1>14, <1>15 DEF Sent, a, m

-----------------------------------------------------------------------------
(* What the target sends.                                                     *)

\* The server sends no redirection, and its side of the target is as it was.
LEMMA TargetSame ==
    ASSUME NEW r, NEW r2, NEW tg, NEW out, NEW out2, NEW in, NEW g, TargetSide(r, tg, out, in, g),
           r2.state["T"] = r.state["T"], Lacks(out, "redirect") => Lacks(out2, "redirect"),
           AtMostOne(out, "redirect") => AtMostOne(out2, "redirect")
    PROVE  TargetSide(r2, tg, out2, in, g)
<1>1. ASSUME TargetOpen(r)
      PROVE  \E word \in Words, h \in Int : /\ Shape(in, g, word, h) /\ TargetWord(r2, tg, out2, word)
                                            /\ tg.state \in {"HelloSent", "Connected"} => h = tg.gen
  <2>1. PICK word \in Words, h \in Int : /\ Shape(in, g, word, h) /\ TargetWord(r, tg, out, word)
                                         /\ tg.state \in {"HelloSent", "Connected"} => h = tg.gen
    BY <1>1 DEF TargetSide
  <2>2. TargetWord(r2, tg, out2, word)
    BY <2>1 DEF TargetWord
  <2> QED
    BY <2>1, <2>2
<1> QED
  BY <1>1 DEF TargetSide, TargetOpen

\* The target is closed.
LEMMA TargetClosed ==
    ASSUME NEW r, r.state["T"] = "Disconnected"
    PROVE  \A tg, out, in, g : TargetSide(r, tg, out, in, g)
  BY DEF TargetSide, TargetOpen

\* A reply or an event of the target is read.
LEMMA TargetReadPlain ==
    ASSUME NEW r, NEW tg, NEW out, NEW in \in Seq(Message), NEW g, TargetSide(r, tg, out, in, g),
           TargetOpen(r), in # << >>, Head(in).type \notin Control
    PROVE  TargetSide(r, tg, out, Tail(in), g) /\ (Head(in).type = "E" => Head(in).gen = g)
<1>1. PICK word \in Words, h \in Int : /\ Shape(in, g, word, h) /\ TargetWord(r, tg, out, word)
                                       /\ tg.state \in {"HelloSent", "Connected"} => h = tg.gen
  BY DEF TargetSide
<1>2. Shape(Tail(in), g, word, h) /\ (Head(in).type = "E" => Head(in).gen = g)
  BY <1>1, ShapeTail DEF Control
<1>3. r.state["T"] = "HelloSent" => g = -1
  BY DEF TargetSide
<1>4. r.state["T"] # "none"
  BY DEF TargetOpen
<1> QED
  BY <1>1, <1>2, <1>3, <1>4 DEF TargetSide

\* The Hello of a target is read.
LEMMA TargetReadHello ==
    ASSUME NEW r, NEW r2, NEW tg, NEW out, NEW in \in Seq(Message), NEW g, TargetSide(r, tg, out, in, g),
           TargetOpen(r), in # << >>, Head(in).type = "Hello"
    PROVE  /\ r.state["T"] = "HelloSent"
           /\ r2.state["T"] = "Connected" => TargetSide(r2, tg, out, Tail(in), Head(in).gen)
<1>1. PICK word \in Words, h \in Int : /\ Shape(in, g, word, h) /\ TargetWord(r, tg, out, word)
                                       /\ tg.state \in {"HelloSent", "Connected"} => h = tg.gen
  BY DEF TargetSide
<1>2. Shape(Tail(in), Head(in).gen, "none", h) /\ word = "Hello"
  BY <1>1, ShapeTail DEF Control, After
<1>3. r.state["T"] = "HelloSent" /\ ~Owes(tg) /\ Lacks(out, "redirect")
  BY <1>1, <1>2 DEF TargetWord, TargetOpen
<1>4. r2.state["T"] = "Connected" => TargetWord(r2, tg, out, "none") /\ "none" \in Words
  BY <1>3 DEF TargetWord, Words
<1> QED
  BY <1>1, <1>2, <1>3, <1>4 DEF TargetSide

\* The refusal of a redirection is read.
LEMMA TargetReadRefusal ==
    ASSUME NEW r, NEW r2, NEW tg, NEW out, NEW in \in Seq(Message), NEW g, TargetSide(r, tg, out, in, g),
           TargetOpen(r), in # << >>, Head(in).type = "redirectFailed"
    PROVE  /\ r.state["T"] = "RedirectSent"
           /\ r2.state["T"] = "Connected" => TargetSide(r2, tg, out, Tail(in), g)
<1>1. PICK word \in Words, h \in Int : /\ Shape(in, g, word, h) /\ TargetWord(r, tg, out, word)
                                       /\ tg.state \in {"HelloSent", "Connected"} => h = tg.gen
  BY DEF TargetSide
<1>2. Shape(Tail(in), g, "none", h) /\ word = "redirectFailed"
  BY <1>1, ShapeTail DEF Control, After
<1>3. r.state["T"] = "RedirectSent" /\ ~Owes(tg) /\ Lacks(out, "redirect")
  BY <1>1, <1>2 DEF TargetWord, TargetOpen
<1>4. r2.state["T"] = "Connected" => TargetWord(r2, tg, out, "none") /\ "none" \in Words
  BY <1>3 DEF TargetWord, Words
<1> QED
  BY <1>1, <1>2, <1>3, <1>4 DEF TargetSide

\* The acceptance of a redirection is read.
LEMMA TargetReadAcceptance ==
    ASSUME NEW r, NEW r2, NEW tg, NEW out, NEW in \in Seq(Message), NEW g, TargetSide(r, tg, out, in, g),
           TargetOpen(r), in # << >>, Head(in).type = "redirected"
    PROVE  /\ r.state["T"] = "RedirectSent"
           /\ r2.state["T"] = "HelloSent" => TargetSide(r2, tg, out, Tail(in), -1)
<1>1. PICK word \in Words, h \in Int : /\ Shape(in, g, word, h) /\ TargetWord(r, tg, out, word)
                                       /\ tg.state \in {"HelloSent", "Connected"} => h = tg.gen
  BY DEF TargetSide
<1>2. \/ Shape(Tail(in), -1, "none", h) /\ word = "redirected"
      \/ Shape(Tail(in), -1, "Hello", h) /\ word = "both"
  BY <1>1, ShapeTail DEF Control, After
<1>3. /\ r.state["T"] = "RedirectSent" /\ Lacks(out, "redirect")
      /\ word = "redirected" => tg.state \in {"HelloReceived", "closed"}
      /\ word = "both" => ~Owes(tg)
  BY <1>1, <1>2 DEF TargetWord, TargetOpen
<1>4. ASSUME r2.state["T"] = "HelloSent"
      PROVE  \E w \in Words : Shape(Tail(in), -1, w, h) /\ TargetWord(r2, tg, out, w)
  <2>1. CASE word = "redirected"
    <3>1. TargetWord(r2, tg, out, "none") /\ "none" \in Words
      BY <1>3, <1>4, <2>1 DEF TargetWord, Words, Owes
    <3> QED
      BY <1>2, <2>1, <3>1
  <2>2. CASE word = "both"
    <3>1. TargetWord(r2, tg, out, "Hello") /\ "Hello" \in Words
      BY <1>3, <1>4, <2>2 DEF TargetWord, Words, Control
    <3> QED
      BY <1>2, <2>2, <3>1
  <2> QED
    BY <1>2, <2>1, <2>2
<1> QED
  BY <1>1, <1>3, <1>4 DEF TargetSide

-----------------------------------------------------------------------------
(* Events of the server.                                                      *)

\* The queues of the client and of the target, with one message more or less.
LEMMA MailAppend ==
    ASSUME NEW q \in Seq(Message), NEW m \in Message, NEW r
    PROVE  /\ AllFromClient(q) /\ FromClient(m) => AllFromClient(Append(q, m))
           /\ AllToTarget(r, q) /\ ToTarget(r, m) => AllToTarget(r, Append(q, m))
           /\ AllFromTarget(r, q) /\ FromTarget(r, m) => AllFromTarget(r, Append(q, m))
<1>1. /\ Len(Append(q, m)) = Len(q) + 1 /\ Len(q) \in Nat /\ Append(q, m)[Len(q) + 1] = m
      /\ \A i \in 1..Len(q) : Append(q, m)[i] = q[i]
  BY AppendEntries
<1>2. \A i \in 1..Len(Append(q, m)) : Append(q, m)[i] = m \/ (i \in 1..Len(q) /\ Append(q, m)[i] = q[i])
  BY <1>1
<1> QED
  BY <1>2 DEF AllFromClient, AllToTarget, AllFromTarget

\* Reading a message of a queue whose messages are of the right kind.
LEMMA MailTail ==
    ASSUME NEW q \in Seq(Message), q # << >>, NEW r
    PROVE  /\ AllFromClient(q) => AllFromClient(Tail(q)) /\ FromClient(Head(q))
           /\ AllToTarget(r, q) => AllToTarget(r, Tail(q)) /\ ToTarget(r, Head(q))
           /\ AllFromTarget(r, q) => AllFromTarget(r, Tail(q)) /\ FromTarget(r, Head(q))
<1> DEFINE p == Tail(q)
<1>1. /\ Head(q) = q[1] /\ Len(q) \in Nat /\ Len(q) > 0 /\ Len(p) = Len(q) - 1
      /\ \A i \in 1..Len(p) : p[i] = q[i + 1]
  BY TailEntries
<1> HIDE DEF p
<1>2. 1 \in 1..Len(q) /\ \A i \in 1..Len(p) : i + 1 \in 1..Len(q) /\ p[i] = q[i + 1]
  BY <1>1
<1>3. /\ AllFromClient(q) => AllFromClient(p) /\ FromClient(Head(q))
      /\ AllToTarget(r, q) => AllToTarget(r, p) /\ ToTarget(r, Head(q))
      /\ AllFromTarget(r, q) => AllFromTarget(r, p) /\ FromTarget(r, Head(q))
  BY <1>1, <1>2 DEF AllFromClient, AllToTarget, AllFromTarget
<1> QED
  BY <1>3 DEF p

\* An empty queue.
LEMMA MailEmpty == \A r : AllFromClient(<< >>) /\ AllToTarget(r, << >>) /\ AllFromTarget(r, << >>)
  BY DEF AllFromClient, AllToTarget, AllFromTarget

\* The redirection that the server waits for stays the same, or it has none.
LEMMA MailSame ==
    ASSUME NEW q, NEW r, NEW r2,
           r2.state["T"] = "RedirectSent" => r.state["T"] = "RedirectSent" /\ r2.rtoken = r.rtoken
    PROVE  /\ AllToTarget(r, q) => AllToTarget(r2, q)
           /\ AllFromTarget(r, q) => AllFromTarget(r2, q)
  BY DEF AllToTarget, AllFromTarget, ToTarget, FromTarget

\* What an event leaves.
LEMMA BecomesDoes ==
    ASSUME TypeOK, NEW r, ServerOK(r), NEW ci \in Seq(Message), NEW ti \in Seq(Message), Becomes(r, ci, ti)
    PROVE  /\ ServerOK(s') /\ s'.out = Empty /\ s'.state = r.state /\ s'.redirect = r.redirect /\ s'.rtoken = r.rtoken
           /\ hq' = hq \o r.out["H"] /\ tq' = tq \o r.out["T"]
           /\ cq' = (IF r.state["H"] = "Disconnected" THEN << >> ELSE ci)
           /\ rq' = (IF r.state["T"] = "Disconnected" THEN << >> ELSE ti)
           /\ hq \in Seq(Message) /\ tq \in Seq(Message)
           /\ cq' \in Seq(Message) /\ hq' \in Seq(Message) /\ tq' \in Seq(Message) /\ rq' \in Seq(Message)
<1>1. /\ s' = [r EXCEPT !.out = Empty] /\ hq' = hq \o r.out["H"] /\ tq' = tq \o r.out["T"]
      /\ cq' = (IF r.state["H"] = "Disconnected" THEN << >> ELSE ci)
      /\ rq' = (IF r.state["T"] = "Disconnected" THEN << >> ELSE ti)
  BY DEF Becomes, IsClosed
<1>2. r \in Server /\ Empty \in [Chans -> Seq(Message)] /\ r.out \in [Chans -> Seq(Message)]
  BY DEF ServerOK, Server, Empty
<1>3. /\ s' \in Server /\ s'.out = Empty /\ s'.state = r.state /\ s'.redirect = r.redirect /\ s'.rtoken = r.rtoken
      /\ s'.lock = r.lock /\ s'.proxy = r.proxy /\ s'.bcg = r.bcg /\ s'.read = r.read /\ s'.assert = r.assert
  BY <1>1, <1>2 DEF Server
<1>4. ServerOK(s')
  BY <1>3 DEF ServerOK, Mode, Is, Books
<1>5. hq \in Seq(Message) /\ tq \in Seq(Message)
  BY DEF TypeOK
<1>6. hq \o r.out["H"] \in Seq(Message) /\ tq \o r.out["T"] \in Seq(Message)
  BY <1>2, <1>5, TwoChans
<1> QED
  BY <1>1, <1>3, <1>4, <1>5, <1>6

\* Queues that nothing, one message or two are added to.
LEMMA Concat ==
    ASSUME NEW q \in Seq(Message), NEW m \in Message, NEW n \in Message
    PROVE  q \o << >> = q /\ q \o <<m>> = Append(q, m) /\ q \o Append(<<m>>, n) = Append(Append(q, m), n)
  OBVIOUS

\* A step that leaves the client and the target as they are.
Still == UNCHANGED <<client, target, ev>>

\* It keeps the types.
LEMMA StillType ==
    ASSUME TypeOK, ServerOK(s'), Still, cq' \in Seq(Message), hq' \in Seq(Message), tq' \in Seq(Message),
           rq' \in Seq(Message)
    PROVE  TypeOK'
  BY DEF TypeOK, ServerOK, Still

\* Putting the invariant together after an event.
LEMMA StillInv ==
    ASSUME TypeOK, ServerOK(s'), s'.out = Empty, Still, cq' \in Seq(Message), hq' \in Seq(Message),
           tq' \in Seq(Message), rq' \in Seq(Message), AskOK(s', cq'),
           NEW g \in Int, ClientSide(s', cq', client, hq', g), TargetSide(s', target, tq', rq', g),
           MailOK(s', target, cq', tq', rq'), TargetOK(s', target, tq', rq')
    PROVE  IInv'
<1>1. TypeOK'
  BY StillType
<1>2. client' = client /\ target' = target
  BY DEF Still
<1>3. Sessions'
  BY <1>2 DEF Sessions
<1> QED
  BY <1>1, <1>2, <1>3 DEF IInv

\* What the invariant says of the parts.
LEMMA InvParts ==
    ASSUME IInv
    PROVE  /\ TypeOK /\ ServerOK(s) /\ Sent(s, << >>, << >>) /\ AskOK(s, cq)
           /\ cq \in Seq(Message) /\ hq \in Seq(Message) /\ tq \in Seq(Message) /\ rq \in Seq(Message)
           /\ MailOK(s, target, cq, tq, rq) /\ TargetOK(s, target, tq, rq)
           /\ \E g \in Int : ClientSide(s, cq, client, hq, g) /\ TargetSide(s, target, tq, rq, g)
  BY TwoChans DEF IInv, TypeOK, Sent, Empty, Sessions

\* The host is closed.
LEMMA ClosesHost ==
    ASSUME IInv, s.state["H"] # "Disconnected", NEW ci \in Seq(Message), Becomes(Closed(s, "H"), ci, rq), Still
    PROVE  IInv'
<1> DEFINE r == Closed(s, "H")
<1>1. /\ TypeOK /\ ServerOK(s) /\ Sent(s, << >>, << >>) /\ AskOK(s, cq)
      /\ cq \in Seq(Message) /\ hq \in Seq(Message) /\ tq \in Seq(Message) /\ rq \in Seq(Message)
      /\ MailOK(s, target, cq, tq, rq) /\ TargetOK(s, target, tq, rq)
  BY InvParts
<1>2. PICK g \in Int : ClientSide(s, cq, client, hq, g) /\ TargetSide(s, target, tq, rq, g)
  BY InvParts
<1>3. /\ ServerOK(r) /\ r.state["H"] = "Disconnected"
      /\ r.state["T"] = (IF s.state["T"] = "none" THEN "none" ELSE "Disconnected")
      /\ r.redirect = (IF s.redirect = "sent" THEN "no" ELSE s.redirect)
      /\ r.out["H"] = <<EOS>> /\ r.out["T"] = (IF s.state["T"] = "none" THEN << >> ELSE <<EOS>>)
  BY <1>1, ClosedHost DEF Sent
<1> HIDE DEF r
<1>4. /\ ServerOK(s') /\ s'.out = Empty /\ s'.state = r.state /\ s'.redirect = r.redirect
      /\ hq' = hq \o r.out["H"] /\ tq' = tq \o r.out["T"] /\ cq' = << >>
      /\ rq' = (IF r.state["T"] = "Disconnected" THEN << >> ELSE rq)
      /\ cq' \in Seq(Message) /\ hq' \in Seq(Message) /\ tq' \in Seq(Message) /\ rq' \in Seq(Message)
  BY <1>1, <1>3, BecomesDoes DEF r
<1>5. hq' = Append(hq, EOS) /\ tq' = (IF s.state["T"] = "none" THEN tq ELSE Append(tq, EOS))
  BY <1>1, <1>3, <1>4, Concat, EndMessages
<1>6. AskOK(s', cq')
  BY <1>4, LacksEmpty DEF AskOK
<1>7. ClientSide(s', cq', client, hq', g)
  <2>1. Asking(s', cq') => Asking(s, cq)
    BY <1>3, <1>4, LacksEmpty DEF Asking
  <2>2. s'.state["H"] # "HelloReceived"
    BY <1>3, <1>4
  <2>3. ClientSide(s', cq', client, hq, g)
    BY <1>2, <2>1, <2>2, ClientSame
  <2>4. EOS \in Message /\ EOS.type \notin Control /\ EOS.type # "E"
    BY EndMessages DEF Control
  <2> QED
    BY <1>1, <1>5, <2>3, <2>4, ClientPlain
<1>8. CASE s.state["T"] = "none"
  <2>1. tq' = tq /\ rq' = rq /\ s'.state["T"] = s.state["T"]
    BY <1>3, <1>4, <1>5, <1>8
  <2>2. TargetSide(s', target, tq', rq', g)
    BY <1>2, <2>1, TargetSame
  <2>3. MailOK(s', target, cq', tq', rq')
    BY <1>1, <1>4, <1>8, <2>1, MailSame, MailEmpty DEF MailOK
  <2>4. TargetOK(s', target, tq', rq')
    BY <1>1, <2>1 DEF TargetOK
  <2> QED
    BY <1>1, <1>4, <1>6, <1>7, <2>2, <2>3, <2>4, StillInv
<1>9. CASE s.state["T"] # "none"
  <2>1. tq' = Append(tq, EOS) /\ rq' = << >> /\ s'.state["T"] = "Disconnected"
    BY <1>3, <1>4, <1>5, <1>9
  <2>2. TargetSide(s', target, tq', rq', g)
    BY <2>1, TargetClosed
  <2>3. ToTarget(s', EOS)
    BY <2>1, EndMessages DEF ToTarget
  <2>4. AllToTarget(s', tq)
    BY <1>1, <2>1, MailSame DEF MailOK
  <2>5. MailOK(s', target, cq', tq', rq')
    BY <1>1, <1>4, <2>1, <2>3, <2>4, MailAppend, MailEmpty, EndMessages DEF MailOK
  <2>6. TargetOK(s', target, tq', rq')
    BY <1>1, <2>1, LacksAppend, EndMessages DEF TargetOK
  <2> QED
    BY <1>1, <1>4, <1>6, <1>7, <2>2, <2>5, <2>6, StillInv
<1> QED
  BY <1>8, <1>9

\* The target is closed, and the host with it.
LEMMA ClosesTarget ==
    ASSUME IInv, TargetOpen(s), NEW ti \in Seq(Message), Becomes(Closed(s, "T"), cq, ti), Still
    PROVE  IInv'
<1> DEFINE r == Closed(s, "T")
<1>1. /\ TypeOK /\ ServerOK(s) /\ Sent(s, << >>, << >>) /\ AskOK(s, cq)
      /\ cq \in Seq(Message) /\ hq \in Seq(Message) /\ tq \in Seq(Message) /\ rq \in Seq(Message)
      /\ MailOK(s, target, cq, tq, rq) /\ TargetOK(s, target, tq, rq)
  BY InvParts
<1>2. PICK g \in Int : ClientSide(s, cq, client, hq, g) /\ TargetSide(s, target, tq, rq, g)
  BY InvParts
<1>3. /\ ServerOK(r) /\ r.state["H"] = "Disconnected" /\ r.state["T"] = "Disconnected" /\ r.redirect = "no"
      /\ r.out["H"] = (IF s.redirect = "sent" THEN Append(<<Failed>>, EOS) ELSE <<EOS>>) /\ r.out["T"] = <<EOS>>
  <2>1. s.proxy = "made"
    BY <1>1, Open
  <2> QED
    BY <1>1, <2>1, ClosedTarget DEF Sent
<1> HIDE DEF r
<1>4. /\ ServerOK(s') /\ s'.out = Empty /\ s'.state = r.state /\ s'.redirect = r.redirect
      /\ hq' = hq \o r.out["H"] /\ tq' = tq \o r.out["T"] /\ cq' = << >> /\ rq' = << >>
      /\ cq' \in Seq(Message) /\ hq' \in Seq(Message) /\ tq' \in Seq(Message) /\ rq' \in Seq(Message)
  BY <1>1, <1>3, BecomesDoes DEF r
<1>5. /\ hq' = (IF s.redirect = "sent" THEN Append(Append(hq, Failed), EOS) ELSE Append(hq, EOS))
      /\ tq' = Append(tq, EOS)
  BY <1>1, <1>3, <1>4, Concat, EndMessages
<1>6. AskOK(s', cq') /\ ~Asking(s', cq')
  BY <1>3, <1>4, LacksEmpty DEF AskOK, Asking
<1>7. ClientSide(s', cq', client, hq', g)
  <2>1. s'.state["H"] # "HelloReceived"
    BY <1>3, <1>4
  <2>2. EOS \in Message /\ EOS.type \notin Control /\ EOS.type # "E"
    BY EndMessages DEF Control
  <2>3. CASE s.redirect = "sent"
    <3>1. Asking(s, cq) /\ Failed \in Message /\ Failed.type \in Answers /\ After(g, Failed) = g
      BY <2>3, EndMessages DEF Asking, Answers, After
    <3>2. ClientSide(s', cq', client, Append(hq, Failed), g)
      <4>1. ClientSide(s', cq', client, Append(hq, Failed), After(g, Failed))
        BY <1>1, <1>2, <1>6, <2>1, <3>1, ClientAnswer
      <4> QED
        BY <3>1, <4>1
    <3>3. Append(hq, Failed) \in Seq(Message)
      BY <1>1, <3>1
    <3> QED
      BY <1>5, <2>2, <2>3, <3>2, <3>3, ClientPlain
  <2>4. CASE s.redirect # "sent"
    <3>1. ClientSide(s', cq', client, hq, g)
      BY <1>2, <1>6, <2>1, ClientSame
    <3> QED
      BY <1>1, <1>5, <2>2, <2>4, <3>1, ClientPlain
  <2> QED
    BY <2>3, <2>4
<1>8. s'.state["T"] = "Disconnected"
  BY <1>3, <1>4
<1>9. TargetSide(s', target, tq', rq', g)
  BY <1>8, TargetClosed
<1>10. MailOK(s', target, cq', tq', rq')
  <2>1. ToTarget(s', EOS)
    BY <1>8, EndMessages DEF ToTarget
  <2>2. AllToTarget(s', tq)
    BY <1>1, <1>8, MailSame DEF MailOK
  <2> QED
    BY <1>1, <1>4, <1>5, <2>1, <2>2, MailAppend, MailEmpty, EndMessages DEF MailOK
<1>11. TargetOK(s', target, tq', rq')
  BY <1>1, <1>5, <1>8, LacksAppend, EndMessages DEF TargetOK
<1> QED
  BY <1>1, <1>4, <1>6, <1>7, <1>9, <1>10, <1>11, StillInv

\* A message of the client is answered, and nothing is sent to the target.
LEMMA AnswersClient ==
    ASSUME IInv, s.state["H"] # "Disconnected", cq # << >>, Head(cq).type # "redirect",
           NEW n \in Message, n.type \in {"R", "N"}, Becomes(Put(s, "H", n), Tail(cq), rq), Still
    PROVE  IInv'
<1> DEFINE r == Put(s, "H", n)
<1>1. /\ TypeOK /\ ServerOK(s) /\ Sent(s, << >>, << >>) /\ AskOK(s, cq)
      /\ cq \in Seq(Message) /\ hq \in Seq(Message) /\ tq \in Seq(Message) /\ rq \in Seq(Message)
      /\ MailOK(s, target, cq, tq, rq) /\ TargetOK(s, target, tq, rq)
  BY InvParts
<1>2. PICK g \in Int : ClientSide(s, cq, client, hq, g) /\ TargetSide(s, target, tq, rq, g)
  BY InvParts
<1>3. /\ ServerOK(r) /\ r.state = s.state /\ r.redirect = s.redirect /\ r.rtoken = s.rtoken
  BY <1>1, PutOK, TwoChans
<1>4. r.out["H"] = <<n>> /\ r.out["T"] = << >>
  <2>1. s \in Server /\ s.out \in [Chans -> Seq(Message)]
    BY <1>1 DEF ServerOK, Server
  <2>2. r.out = [s.out EXCEPT !["H"] = Append(@, n)]
    BY <2>1, PutDoes, TwoChans
  <2>3. r.out["H"] = Append(s.out["H"], n) /\ r.out["T"] = s.out["T"]
    BY <2>1, <2>2, TwoChans
  <2> QED
    BY <1>1, <2>3 DEF Sent
<1> HIDE DEF r
<1>5. s.state["T"] # "Disconnected" /\ Tail(cq) \in Seq(Message)
  BY <1>1, Open
<1>6. /\ ServerOK(s') /\ s'.out = Empty /\ s'.state = r.state /\ s'.redirect = r.redirect /\ s'.rtoken = r.rtoken
      /\ hq' = hq \o r.out["H"] /\ tq' = tq \o r.out["T"]
      /\ cq' = (IF r.state["H"] = "Disconnected" THEN << >> ELSE Tail(cq))
      /\ rq' = (IF r.state["T"] = "Disconnected" THEN << >> ELSE rq)
      /\ cq' \in Seq(Message) /\ hq' \in Seq(Message) /\ tq' \in Seq(Message) /\ rq' \in Seq(Message)
  BY <1>1, <1>3, <1>5, BecomesDoes DEF r
<1>7. hq' = Append(hq, n) /\ tq' = tq /\ cq' = Tail(cq) /\ rq' = rq
  BY <1>1, <1>3, <1>4, <1>5, <1>6, Concat
<1>8. (Lacks(cq', "redirect") <=> Lacks(cq, "redirect")) /\ AskOK(s', cq')
  <2>1. /\ Lacks(Tail(cq), "redirect") <=> Lacks(cq, "redirect")
        /\ AtMostOne(cq, "redirect") => AtMostOne(Tail(cq), "redirect")
    BY <1>1, LacksTail
  <2> QED
    BY <1>1, <1>3, <1>6, <1>7, <2>1 DEF AskOK
<1>9. ClientSide(s', cq', client, hq', g)
  <2>1. ClientSide(s', cq', client, hq, g)
    BY <1>2, <1>3, <1>6, <1>8, ClientSame DEF Asking
  <2>2. n.type \notin Control /\ n.type # "E"
    BY DEF Control
  <2> QED
    BY <1>1, <1>7, <2>1, <2>2, ClientPlain
<1>10. TargetSide(s', target, tq', rq', g)
  BY <1>2, <1>3, <1>6, <1>7, TargetSame
<1>11. MailOK(s', target, cq', tq', rq')
  <2>1. AllFromClient(Tail(cq)) /\ AllToTarget(s', tq) /\ AllFromTarget(s', rq)
    BY <1>1, <1>3, <1>6, MailSame, MailTail DEF MailOK
  <2> QED
    BY <1>1, <1>7, <2>1 DEF MailOK
<1>12. TargetOK(s', target, tq', rq')
  BY <1>1, <1>3, <1>6, <1>7 DEF TargetOK
<1> QED
  BY <1>1, <1>6, <1>8, <1>9, <1>10, <1>11, <1>12, StillInv

\* A command of the client goes to the target.
LEMMA RelaysCommand ==
    ASSUME IInv, TargetOpen(s), cq # << >>, Head(cq).type = "C", NEW n \in Message, n.type = "C", n.depth = 1,
           Becomes(Put(s, "T", n), Tail(cq), rq), Still
    PROVE  IInv'
<1> DEFINE r == Put(s, "T", n)
<1>1. /\ TypeOK /\ ServerOK(s) /\ Sent(s, << >>, << >>) /\ AskOK(s, cq)
      /\ cq \in Seq(Message) /\ hq \in Seq(Message) /\ tq \in Seq(Message) /\ rq \in Seq(Message)
      /\ MailOK(s, target, cq, tq, rq) /\ TargetOK(s, target, tq, rq)
  BY InvParts
<1>2. PICK g \in Int : ClientSide(s, cq, client, hq, g) /\ TargetSide(s, target, tq, rq, g)
  BY InvParts
<1>3. /\ ServerOK(r) /\ r.state = s.state /\ r.redirect = s.redirect /\ r.rtoken = s.rtoken
  BY <1>1, PutOK, TwoChans
<1>4. r.out["H"] = << >> /\ r.out["T"] = <<n>>
  <2>1. s \in Server /\ s.out \in [Chans -> Seq(Message)]
    BY <1>1 DEF ServerOK, Server
  <2>2. r.out = [s.out EXCEPT !["T"] = Append(@, n)]
    BY <2>1, PutDoes, TwoChans
  <2>3. r.out["T"] = Append(s.out["T"], n) /\ r.out["H"] = s.out["H"]
    BY <2>1, <2>2, TwoChans
  <2> QED
    BY <1>1, <2>3 DEF Sent
<1> HIDE DEF r
<1>5. s.state["T"] \notin {"none", "Disconnected"} /\ s.state["H"] # "Disconnected" /\ Tail(cq) \in Seq(Message)
  BY <1>1, Open DEF TargetOpen
<1>6. /\ ServerOK(s') /\ s'.out = Empty /\ s'.state = r.state /\ s'.redirect = r.redirect /\ s'.rtoken = r.rtoken
      /\ hq' = hq \o r.out["H"] /\ tq' = tq \o r.out["T"]
      /\ cq' = (IF r.state["H"] = "Disconnected" THEN << >> ELSE Tail(cq))
      /\ rq' = (IF r.state["T"] = "Disconnected" THEN << >> ELSE rq)
      /\ cq' \in Seq(Message) /\ hq' \in Seq(Message) /\ tq' \in Seq(Message) /\ rq' \in Seq(Message)
  BY <1>1, <1>3, <1>5, BecomesDoes DEF r
<1>7. hq' = hq /\ tq' = Append(tq, n) /\ cq' = Tail(cq) /\ rq' = rq
  BY <1>1, <1>3, <1>4, <1>5, <1>6, Concat
<1>8. (Lacks(cq', "redirect") <=> Lacks(cq, "redirect")) /\ AskOK(s', cq')
  <2>1. /\ Lacks(Tail(cq), "redirect") <=> Lacks(cq, "redirect")
        /\ AtMostOne(cq, "redirect") => AtMostOne(Tail(cq), "redirect")
    BY <1>1, LacksTail
  <2> QED
    BY <1>1, <1>3, <1>6, <1>7, <2>1 DEF AskOK
<1>9. ClientSide(s', cq', client, hq', g)
  BY <1>2, <1>3, <1>6, <1>7, <1>8, ClientSame DEF Asking
<1>10. TargetSide(s', target, tq', rq', g)
  <2>1. /\ Lacks(tq, "redirect") => Lacks(tq', "redirect")
        /\ AtMostOne(tq, "redirect") => AtMostOne(tq', "redirect")
    BY <1>1, <1>7, LacksAppend
  <2>2. TargetSide(s', target, tq', rq, g)
    BY <1>2, <1>3, <1>6, <2>1, TargetSame
  <2> QED
    BY <1>7, <2>2
<1>11. MailOK(s', target, cq', tq', rq')
  <2>1. AllFromClient(Tail(cq)) /\ AllToTarget(s', tq) /\ AllFromTarget(s', rq)
    BY <1>1, <1>3, <1>6, MailSame, MailTail DEF MailOK
  <2>2. ToTarget(s', n)
    BY DEF ToTarget
  <2>3. AllToTarget(s', Append(tq, n))
    BY <1>1, <2>1, <2>2, MailAppend
  <2> QED
    BY <1>1, <1>7, <2>1, <2>3 DEF MailOK
<1>12. TargetOK(s', target, tq', rq')
  <2>1. AtMostOne(tq', "Hello") /\ (Lacks(tq', "Hello") <=> Lacks(tq, "Hello"))
    BY <1>1, <1>7, LacksAppend DEF TargetOK
  <2> QED
    BY <1>1, <1>3, <1>5, <1>6, <2>1 DEF TargetOK
<1> QED
  BY <1>1, <1>6, <1>8, <1>9, <1>10, <1>11, <1>12, StillInv

\* The redirect command of the client goes to the target.
LEMMA SendsRedirect ==
    ASSUME IInv, s.state["H"] = "Connected", s.proxy = "made", cq # << >>, Head(cq).type = "redirect",
           Becomes(LocatorRedirect(s), Tail(cq), rq), Still
    PROVE  IInv'
<1> DEFINE r == LocatorRedirect(s)
           n == Msg("redirect", s.tokenid, 0, 0)
<1>1. /\ TypeOK /\ ServerOK(s) /\ Sent(s, << >>, << >>) /\ AskOK(s, cq)
      /\ cq \in Seq(Message) /\ hq \in Seq(Message) /\ tq \in Seq(Message) /\ rq \in Seq(Message)
      /\ MailOK(s, target, cq, tq, rq) /\ TargetOK(s, target, tq, rq)
  BY InvParts
<1>2. PICK g \in Int : ClientSide(s, cq, client, hq, g) /\ TargetSide(s, target, tq, rq, g)
  BY InvParts
<1>3. ~Lacks(cq, "redirect") /\ Lacks(Tail(cq), "redirect") /\ s.redirect = "no" /\ Tail(cq) \in Seq(Message)
  BY <1>1, LacksTail DEF AskOK
<1>4. Is(s, "made", "Connected", "Connected", "no")
  BY <1>1, <1>3 DEF ServerOK, Mode, Is
<1>5. /\ ServerOK(r) /\ Is(r, "made", "Connected", "RedirectSent", "sent") /\ r.rtoken = s.tokenid
      /\ s.tokenid \in Nat /\ r.out["H"] = << >> /\ r.out["T"] = <<n>>
  BY <1>1, <1>4, LocatorOK DEF Sent
<1>6. n \in Message /\ n.type = "redirect" /\ n.id = s.tokenid /\ n.depth = 0
  BY <1>5, MsgType DEF Types
<1> HIDE DEF r, n
<1>7. /\ ServerOK(s') /\ s'.out = Empty /\ s'.state = r.state /\ s'.redirect = r.redirect /\ s'.rtoken = r.rtoken
      /\ hq' = hq \o r.out["H"] /\ tq' = tq \o r.out["T"]
      /\ cq' = (IF r.state["H"] = "Disconnected" THEN << >> ELSE Tail(cq))
      /\ rq' = (IF r.state["T"] = "Disconnected" THEN << >> ELSE rq)
      /\ cq' \in Seq(Message) /\ hq' \in Seq(Message) /\ tq' \in Seq(Message) /\ rq' \in Seq(Message)
  BY <1>1, <1>3, <1>5, BecomesDoes DEF r
<1>8. /\ s'.state["H"] = "Connected" /\ s'.state["T"] = "RedirectSent" /\ s'.redirect = "sent"
      /\ s'.rtoken = s.tokenid /\ s.state["T"] = "Connected"
  BY <1>4, <1>5, <1>7 DEF Is
<1>9. hq' = hq /\ tq' = Append(tq, n) /\ cq' = Tail(cq) /\ rq' = rq
  BY <1>1, <1>5, <1>6, <1>7, <1>8, Concat
<1>10. AskOK(s', cq')
  BY <1>1, <1>3, <1>9, LacksTail DEF AskOK
<1>11. ClientSide(s', cq', client, hq', g)
  <2>1. Asking(s, cq)
    BY <1>3 DEF Asking
  <2> QED
    BY <1>2, <1>8, <1>9, <2>1, ClientSame
<1>12. PICK word \in Words, h \in Int : /\ Shape(rq, g, word, h) /\ TargetWord(s, target, tq, word)
                                        /\ target.state \in {"HelloSent", "Connected"} => h = target.gen
  BY <1>2, <1>8 DEF TargetSide, TargetOpen
<1>13. word = "none" /\ Lacks(tq, "redirect") /\ ~Owes(target)
  BY <1>8, <1>12 DEF TargetWord
<1>14. TargetSide(s', target, tq', rq', g)
  <2>1. AtMostOne(tq', "redirect")
    BY <1>1, <1>6, <1>9, <1>13, LacksAppend
  <2>2. TargetWord(s', target, tq', word)
    BY <1>8, <1>13, <2>1 DEF TargetWord
  <2> QED
    BY <1>8, <1>9, <1>12, <2>2 DEF TargetSide
<1>15. MailOK(s', target, cq', tq', rq')
  <2>1. AllToTarget(s', tq)
    BY <1>1, <1>13 DEF MailOK, AllToTarget, ToTarget, Lacks
  <2>2. \A i \in 1..Len(rq) : rq[i].type \notin Control
    BY <1>1, <1>12, <1>13 DEF Shape, Plain, Control
  <2>3. AllFromTarget(s', rq)
    BY <1>1, <2>2 DEF MailOK, AllFromTarget, FromTarget, Control, Answers
  <2>4. ToTarget(s', n)
    BY <1>6, <1>8 DEF ToTarget
  <2>5. AllToTarget(s', Append(tq, n))
    BY <1>1, <1>6, <2>1, <2>4, MailAppend
  <2>6. AllFromClient(Tail(cq))
    BY <1>1, MailTail DEF MailOK
  <2> QED
    BY <1>1, <1>9, <2>3, <2>5, <2>6 DEF MailOK
<1>16. TargetOK(s', target, tq', rq')
  <2>1. AtMostOne(tq', "Hello") /\ (Lacks(tq', "Hello") <=> Lacks(tq, "Hello"))
    BY <1>1, <1>6, <1>9, LacksAppend DEF TargetOK
  <2> QED
    BY <1>1, <1>8, <2>1 DEF TargetOK
<1> QED
  BY <1>1, <1>7, <1>10, <1>11, <1>14, <1>15, <1>16, StillInv

\* handle_protocol_message() on the host: what it does with a message.
LEMMA HostCases ==
    ASSUME IInv, HandleHost
    PROVE  /\ cq # << >> /\ s.state["H"] # "Disconnected" /\ Still /\ Tail(cq) \in Seq(Message)
           /\ \/ Head(cq).type = "EOS" /\ Becomes(Closed(s, "H"), Tail(cq), rq)
              \/ /\ Head(cq).type = "C"
                 /\ \E n \in Message :
                      /\ n.id = Head(cq).id
                      /\ \/ n.type \in {"R", "N"} /\ Becomes(Put(s, "H", n), Tail(cq), rq)
                         \/ n.type = "C" /\ n.depth = 1 /\ TargetOpen(s) /\ Becomes(Put(s, "T", n), Tail(cq), rq)
              \/ /\ Head(cq).type = "redirect" /\ s.state["H"] = "Connected" /\ s.proxy = "made"
                 /\ Becomes(LocatorRedirect(s), Tail(cq), rq)
<1> DEFINE m == Head(cq)
<1>1. /\ cq # << >> /\ s.state["H"] # "Disconnected" /\ Still
      /\ ~(m.type = "redirect" /\ s.state["H"] = "Connected" /\ s.proxy = "none")
      /\ Becomes(HostMessage(s, m), Tail(cq), rq)
  BY DEF HandleHost, Still
<1>2. /\ ServerOK(s) /\ AskOK(s, cq) /\ cq \in Seq(Message) /\ MailOK(s, target, cq, tq, rq)
  BY InvParts
<1>3. m \in Message /\ Tail(cq) \in Seq(Message) /\ FromClient(m)
  BY <1>1, <1>2, MailTail DEF MailOK
<1>4. /\ s.state["H"] \in {"Connected", "RedirectReceived", "HelloReceived"}
      /\ s.state["H"] = "RedirectReceived" => s.redirect = "connect"
      /\ s.proxy # "none" => s.proxy = "made" /\ TargetOpen(s)
  <2>1. s.proxy # "none" => s.proxy = "made"
    BY <1>1, <1>2 DEF ServerOK, Mode, Is
  <2> QED
    BY <1>1, <1>2, <2>1, Open
<1> HIDE DEF m
<1>5. CASE m.type = "EOS"
  <2>1. HostMessage(s, m) = Closed(s, "H")
    BY <1>5 DEF HostMessage
  <2> QED
    BY <1>1, <1>3, <1>5, <2>1 DEF m
<1>6. CASE m.type = "C"
  <2>1. m.depth = 0 /\ m.id \in Nat /\ m.gen \in Nat
    BY <1>3, <1>6 DEF FromClient, Message
  <2>2. CASE s.state["H"] # "Connected"
    <3> DEFINE n == [m EXCEPT !.type = "N"]
    <3>1. n \in Message /\ n.type = "N" /\ n.id = m.id
      BY <1>3 DEF Message, Types
    <3>2. HostMessage(s, m) = Put(s, "H", n)
      BY <1>6, <2>2 DEF HostMessage
    <3> HIDE DEF n
    <3> QED
      BY <1>1, <1>3, <1>6, <3>1, <3>2 DEF m
  <2>4. CASE s.state["H"] = "Connected" /\ s.proxy = "none"
    <3> DEFINE n == [m EXCEPT !.type = "R"]
    <3>1. n \in Message /\ n.type = "R" /\ n.id = m.id
      BY <1>3 DEF Message, Types
    <3>2. HostMessage(s, m) = Put(s, "H", n)
      BY <1>6, <2>4 DEF HostMessage
    <3> HIDE DEF n
    <3> QED
      BY <1>1, <1>3, <1>6, <3>1, <3>2 DEF m
  <2>3. CASE s.state["H"] = "Connected" /\ s.proxy # "none"
    <3> DEFINE n == [m EXCEPT !.depth = @ + 1]
    <3>1. n \in Message /\ n.type = "C" /\ n.depth = 1 /\ n.id = m.id
      <4>1. n = [m EXCEPT !.depth = 1] /\ 1 \in Nat
        BY <1>3, <2>1 DEF Message
      <4> HIDE DEF n
      <4> QED
        BY <1>3, <1>6, <4>1 DEF Message
    <3>2. HostMessage(s, m) = Relay(s, "H", m)
      BY <1>6, <2>3 DEF HostMessage
    <3>3. Relay(s, "H", m) = Put(s, "T", n)
      <4>1. ~IsClosed(s, "T")
        BY <1>4, <2>3 DEF IsClosed, TargetOpen
      <4>2. Relayed(m) = n
        BY <1>6 DEF Relayed
      <4> HIDE DEF n
      <4> QED
        BY <1>6, <4>1, <4>2, TwoChans DEF Relay
    <3> HIDE DEF n
    <3> QED
      BY <1>1, <1>3, <1>4, <1>6, <2>3, <3>1, <3>2, <3>3 DEF m
  <2> QED
    BY <2>2, <2>3, <2>4
<1>7. CASE m.type = "redirect"
  <2>1. ~Lacks(cq, "redirect")
    BY <1>1, <1>2, <1>7, LacksTail DEF m
  <2>2. s.redirect = "no" /\ s.state["H"] # "HelloReceived"
    BY <1>2, <2>1 DEF AskOK
  <2>3. s.state["H"] = "Connected" /\ s.proxy = "made"
    BY <1>1, <1>4, <1>7, <2>2
  <2>4. HostMessage(s, m) = LocatorRedirect(s)
    BY <1>7, <2>3 DEF HostMessage
  <2> QED
    BY <1>1, <1>3, <1>7, <2>3, <2>4 DEF m
<1> QED
  BY <1>3, <1>5, <1>6, <1>7 DEF FromClient

\* It keeps the invariant.
LEMMA HandleHostStep ==
    ASSUME IInv, HandleHost
    PROVE  IInv'
<1>1. cq # << >> /\ s.state["H"] # "Disconnected" /\ Still /\ Tail(cq) \in Seq(Message)
  BY HostCases
<1>2. CASE Head(cq).type = "EOS" /\ Becomes(Closed(s, "H"), Tail(cq), rq)
  BY <1>1, <1>2, ClosesHost
<1>3. ASSUME NEW n \in Message, Head(cq).type = "C",
             \/ n.type \in {"R", "N"} /\ Becomes(Put(s, "H", n), Tail(cq), rq)
             \/ n.type = "C" /\ n.depth = 1 /\ TargetOpen(s) /\ Becomes(Put(s, "T", n), Tail(cq), rq)
      PROVE  IInv'
  BY <1>1, <1>3, AnswersClient, RelaysCommand
<1>4. CASE /\ Head(cq).type = "redirect" /\ s.state["H"] = "Connected" /\ s.proxy = "made"
           /\ Becomes(LocatorRedirect(s), Tail(cq), rq)
  BY <1>1, <1>4, SendsRedirect
<1> QED
  BY <1>2, <1>3, <1>4, HostCases

\* command_redirect() before there is a proxy.
LEMMA HandleRedirectStep ==
    ASSUME IInv, HandleRedirect
    PROVE  IInv'
<1>1. /\ cq # << >> /\ Head(cq).type = "redirect" /\ s.state["H"] = "Connected" /\ s.proxy = "none" /\ Still
      /\ \/ Becomes(Put(s, "H", Failed), Tail(cq), rq)
         \/ Becomes(Trying(s), Tail(cq), rq)
  BY DEF HandleRedirect, Still, Failed, Trying
<1>2. /\ TypeOK /\ ServerOK(s) /\ Sent(s, << >>, << >>) /\ AskOK(s, cq)
      /\ cq \in Seq(Message) /\ hq \in Seq(Message) /\ tq \in Seq(Message) /\ rq \in Seq(Message)
      /\ MailOK(s, target, cq, tq, rq) /\ TargetOK(s, target, tq, rq)
  BY InvParts
<1>3. PICK g \in Int : ClientSide(s, cq, client, hq, g) /\ TargetSide(s, target, tq, rq, g)
  BY InvParts
<1>4. ~Lacks(cq, "redirect") /\ Lacks(Tail(cq), "redirect") /\ s.redirect = "no" /\ Tail(cq) \in Seq(Message)
  BY <1>1, <1>2, LacksTail DEF AskOK
<1>5. Is(s, "none", "Connected", "none", "no") /\ Asking(s, cq)
  BY <1>1, <1>2, <1>4 DEF ServerOK, Mode, Is, Asking
<1>6. ASSUME NEW r, ServerOK(r), Becomes(r, Tail(cq), rq), r.state["T"] = "none", r.out["T"] = << >>,
             r.state["H"] \in {"Connected", "RedirectReceived"},
             \/ r.out["H"] = <<Failed>> /\ r.redirect = "no"
             \/ r.out["H"] = << >>
      PROVE  IInv'
  <2>1. /\ ServerOK(s') /\ s'.out = Empty /\ s'.state = r.state /\ s'.redirect = r.redirect
        /\ hq' = hq \o r.out["H"] /\ tq' = tq \o r.out["T"] /\ cq' = Tail(cq) /\ rq' = rq
        /\ cq' \in Seq(Message) /\ hq' \in Seq(Message) /\ tq' \in Seq(Message) /\ rq' \in Seq(Message)
    <3>1. r.state["H"] # "Disconnected" /\ r.state["T"] # "Disconnected"
      BY <1>6
    <3> QED
      BY <1>2, <1>4, <1>6, <3>1, BecomesDoes
  <2>2. tq' = tq /\ (r.out["H"] = <<Failed>> => hq' = Append(hq, Failed)) /\ (r.out["H"] = << >> => hq' = hq)
    BY <1>2, <1>6, <2>1, Concat, EndMessages
  <2>3. AskOK(s', cq')
    BY <1>2, <1>1, <1>4, <2>1, LacksTail DEF AskOK
  <2>4. ClientSide(s', cq', client, hq', g)
    <3>1. CASE r.out["H"] = <<Failed>> /\ r.redirect = "no"
      <4>1. ~Asking(s', cq') /\ Failed \in Message /\ Failed.type \in Answers /\ After(g, Failed) = g
        BY <1>4, <2>1, <3>1, EndMessages DEF Asking, Answers, After
      <4>2. s'.state["H"] # "HelloReceived"
        BY <1>6, <2>1
      <4>3. ClientSide(s', cq', client, Append(hq, Failed), After(g, Failed))
        BY <1>2, <1>3, <1>5, <4>1, <4>2, ClientAnswer
      <4> QED
        BY <2>2, <3>1, <4>1, <4>3
    <3>2. CASE r.out["H"] = << >>
      <4>1. s'.state["H"] # "HelloReceived"
        BY <1>6, <2>1
      <4> QED
        BY <1>3, <1>5, <2>2, <3>2, <4>1, ClientSame
    <3> QED
      BY <1>6, <3>1, <3>2
  <2>5. s'.state["T"] = "none" /\ s.state["T"] = "none"
    BY <1>5, <1>6, <2>1 DEF Is
  <2>6. TargetSide(s', target, tq', rq', g)
    BY <1>3, <2>1, <2>2, <2>5, TargetSame
  <2>7. MailOK(s', target, cq', tq', rq')
    <3>1. AllFromClient(Tail(cq)) /\ AllToTarget(s', tq) /\ AllFromTarget(s', rq)
      BY <1>1, <1>2, <2>5, MailSame, MailTail DEF MailOK
    <3> QED
      BY <1>2, <2>1, <2>2, <3>1 DEF MailOK
  <2>8. TargetOK(s', target, tq', rq')
    BY <1>2, <2>1, <2>2, <2>5 DEF TargetOK
  <2> QED
    BY <1>1, <1>2, <2>1, <2>3, <2>4, <2>6, <2>7, <2>8, StillInv
<1>7. CASE Becomes(Put(s, "H", Failed), Tail(cq), rq)
  <2> DEFINE r == Put(s, "H", Failed)
  <2>1. ServerOK(r) /\ r.state = s.state /\ r.redirect = s.redirect
    BY <1>2, PutOK, TwoChans, EndMessages
  <2>2. s \in Server /\ s.out \in [Chans -> Seq(Message)]
    BY <1>2 DEF ServerOK, Server
  <2>3. r.out = [s.out EXCEPT !["H"] = Append(@, Failed)]
    BY <2>2, PutDoes, TwoChans, EndMessages
  <2>4. r.out["H"] = Append(s.out["H"], Failed) /\ r.out["T"] = s.out["T"]
    BY <2>2, <2>3, TwoChans
  <2>5. r.out["H"] = <<Failed>> /\ r.out["T"] = << >>
    BY <1>2, <2>4, EndMessages DEF Sent
  <2> HIDE DEF r
  <2>6. r.state["T"] = "none" /\ r.state["H"] = "Connected" /\ r.redirect = "no"
    BY <1>5, <2>1 DEF Is
  <2> QED
    BY <1>6, <1>7, <2>1, <2>5, <2>6 DEF r
<1>8. CASE Becomes(Trying(s), Tail(cq), rq)
  <2>1. ServerOK(Trying(s)) /\ Is(Trying(s), "none", "RedirectReceived", "none", "connect") /\ Trying(s).out = s.out
    BY <1>2, <1>5, TryingOK
  <2>2. Trying(s).out["H"] = << >> /\ Trying(s).out["T"] = << >>
    BY <1>2, <2>1 DEF Sent
  <2> QED
    BY <1>6, <1>8, <2>1, <2>2 DEF Is
<1> QED
  BY <1>1, <1>7, <1>8

\* A reply or an event of the target goes to the client.
LEMMA RelaysToClient ==
    ASSUME IInv, TargetOpen(s), rq # << >>, Head(rq).type \notin Control, NEW n \in Message, n.type \notin Control,
           n.type = "E" => Head(rq).type = "E" /\ n.gen = Head(rq).gen,
           Becomes(Put(s, "H", n), cq, Tail(rq)), Still
    PROVE  IInv'
<1> DEFINE r == Put(s, "H", n)
<1>1. /\ TypeOK /\ ServerOK(s) /\ Sent(s, << >>, << >>) /\ AskOK(s, cq)
      /\ cq \in Seq(Message) /\ hq \in Seq(Message) /\ tq \in Seq(Message) /\ rq \in Seq(Message)
      /\ MailOK(s, target, cq, tq, rq) /\ TargetOK(s, target, tq, rq)
  BY InvParts
<1>2. PICK g \in Int : ClientSide(s, cq, client, hq, g) /\ TargetSide(s, target, tq, rq, g)
  BY InvParts
<1>3. /\ ServerOK(r) /\ r.state = s.state /\ r.redirect = s.redirect /\ r.rtoken = s.rtoken
  BY <1>1, PutOK, TwoChans
<1>4. r.out["H"] = <<n>> /\ r.out["T"] = << >>
  <2>1. s \in Server /\ s.out \in [Chans -> Seq(Message)]
    BY <1>1 DEF ServerOK, Server
  <2>2. r.out = [s.out EXCEPT !["H"] = Append(@, n)]
    BY <2>1, PutDoes, TwoChans
  <2>3. r.out["H"] = Append(s.out["H"], n) /\ r.out["T"] = s.out["T"]
    BY <2>1, <2>2, TwoChans
  <2> QED
    BY <1>1, <2>3 DEF Sent
<1> HIDE DEF r
<1>5. s.state["T"] \notin {"none", "Disconnected"} /\ s.state["H"] # "Disconnected" /\ Tail(rq) \in Seq(Message)
  BY <1>1, Open DEF TargetOpen
<1>6. /\ ServerOK(s') /\ s'.out = Empty /\ s'.state = r.state /\ s'.redirect = r.redirect /\ s'.rtoken = r.rtoken
      /\ hq' = hq \o r.out["H"] /\ tq' = tq \o r.out["T"]
      /\ cq' = (IF r.state["H"] = "Disconnected" THEN << >> ELSE cq)
      /\ rq' = (IF r.state["T"] = "Disconnected" THEN << >> ELSE Tail(rq))
      /\ cq' \in Seq(Message) /\ hq' \in Seq(Message) /\ tq' \in Seq(Message) /\ rq' \in Seq(Message)
  BY <1>1, <1>3, <1>5, BecomesDoes DEF r
<1>7. hq' = Append(hq, n) /\ tq' = tq /\ cq' = cq /\ rq' = Tail(rq)
  BY <1>1, <1>3, <1>4, <1>5, <1>6, Concat
<1>8. AskOK(s', cq')
  BY <1>1, <1>3, <1>6, <1>7 DEF AskOK
<1>9. TargetSide(s, target, tq, Tail(rq), g) /\ (Head(rq).type = "E" => Head(rq).gen = g)
  BY <1>1, <1>2, TargetReadPlain
<1>10. ClientSide(s', cq', client, hq', g)
  <2>1. ClientSide(s', cq', client, hq, g)
    BY <1>2, <1>3, <1>6, <1>7, ClientSame DEF Asking
  <2>2. n.type = "E" => n.gen = g
    BY <1>9
  <2> QED
    BY <1>1, <1>7, <2>1, <2>2, ClientPlain
<1>11. TargetSide(s', target, tq', rq', g)
  <2>1. TargetSide(s', target, tq, Tail(rq), g)
    BY <1>3, <1>6, <1>9, TargetSame
  <2> QED
    BY <1>7, <2>1
<1>12. MailOK(s', target, cq', tq', rq')
  <2>1. AllToTarget(s', tq) /\ AllFromTarget(s', rq)
    BY <1>1, <1>3, <1>6, MailSame DEF MailOK
  <2>2. AllFromTarget(s', Tail(rq))
    BY <1>1, <2>1, MailTail
  <2> QED
    BY <1>1, <1>7, <2>1, <2>2 DEF MailOK
<1>13. TargetOK(s', target, tq', rq')
  BY <1>1, <1>3, <1>5, <1>6, <1>7 DEF TargetOK
<1> QED
  BY <1>1, <1>6, <1>8, <1>10, <1>11, <1>12, <1>13, StillInv

\* A control message of the target makes the server move on, and say so to the
\* client.
LEMMA MovesOn ==
    ASSUME IInv, TargetOpen(s), rq # << >>, NEW r, ServerOK(r), r.redirect = "no", Becomes(r, cq, Tail(rq)), Still,
           r.state["H"] # "Disconnected", r.state["T"] \in {"HelloSent", "Connected"},
           NEW n \in Message, r.out["H"] = <<n>>, r.out["T"] = << >>,
           NEW g2 \in Int, ClientSide(r, cq, client, Append(hq, n), g2), TargetSide(r, target, tq, Tail(rq), g2),
           AskOK(r, cq)
    PROVE  IInv'
<1>1. /\ TypeOK /\ cq \in Seq(Message) /\ hq \in Seq(Message) /\ tq \in Seq(Message) /\ rq \in Seq(Message)
      /\ MailOK(s, target, cq, tq, rq) /\ TargetOK(s, target, tq, rq)
  BY InvParts
<1>2. Tail(rq) \in Seq(Message) /\ r.state["T"] # "Disconnected"
  BY <1>1
<1>3. /\ ServerOK(s') /\ s'.out = Empty /\ s'.state = r.state /\ s'.redirect = r.redirect /\ s'.rtoken = r.rtoken
      /\ hq' = hq \o r.out["H"] /\ tq' = tq \o r.out["T"] /\ cq' = cq /\ rq' = Tail(rq)
      /\ cq' \in Seq(Message) /\ hq' \in Seq(Message) /\ tq' \in Seq(Message) /\ rq' \in Seq(Message)
  BY <1>1, <1>2, BecomesDoes
<1>4. hq' = Append(hq, n) /\ tq' = tq
  BY <1>1, <1>3, Concat
<1>5. AskOK(s', cq') /\ ClientSide(s', cq', client, hq', g2)
  <2>1. AskOK(s', cq') /\ (Asking(s', cq') => Asking(r, cq)) /\ s'.state = r.state
    BY <1>3 DEF AskOK, Asking
  <2>2. ClientSide(s', cq', client, Append(hq, n), g2)
    BY <2>1, ClientSame
  <2> QED
    BY <1>4, <2>1, <2>2
<1>6. TargetSide(s', target, tq', rq', g2)
  BY <1>3, <1>4, TargetSame
<1>7. s'.state["T"] \in {"HelloSent", "Connected"}
  BY <1>3
<1>8. MailOK(s', target, cq', tq', rq')
  <2>1. AllToTarget(s', tq) /\ AllFromTarget(s', rq)
    BY <1>1, <1>7, MailSame DEF MailOK
  <2>2. AllFromTarget(s', Tail(rq))
    BY <1>1, <2>1, MailTail
  <2> QED
    BY <1>1, <1>3, <1>4, <2>1, <2>2 DEF MailOK
<1>9. TargetOK(s', target, tq', rq')
  BY <1>1, <1>4, <1>7 DEF TargetOK
<1> QED
  BY <1>1, <1>3, <1>5, <1>6, <1>8, <1>9, StillInv

\* A reply or an event of the target goes to the client.
LEMMA RelaysReply ==
    ASSUME NEW m \in Message, FromTarget(s, m), m.type \in {"R", "N", "E"}, s.state["H"] # "Disconnected"
    PROVE  /\ TargetMessage(s, m) = Put(s, "H", Relayed(m)) /\ Relayed(m) \in Message
           /\ Relayed(m).type = m.type /\ Relayed(m).id = m.id /\ Relayed(m).gen = m.gen
<1>1. m.type \in {"R", "N"} => m.depth = 1
  BY DEF FromTarget
<1>2. TargetMessage(s, m) = Relay(s, "T", m)
  BY <1>1 DEF TargetMessage
<1>3. Relay(s, "T", m) = Put(s, "H", Relayed(m))
  BY <1>1, TwoChans DEF Relay, IsClosed
<1>4. /\ Relayed(m) \in Message /\ Relayed(m).type = m.type /\ Relayed(m).id = m.id
      /\ Relayed(m).gen = m.gen
  <2>1. CASE m.type = "E"
    BY <2>1 DEF Relayed
  <2>2. CASE m.type # "E"
    <3>1. m.depth - 1 = 0
      BY <1>1, <2>2
    <3>2. Relayed(m) = [m EXCEPT !.depth = 0] /\ 0 \in Nat
      BY <2>2, <3>1 DEF Relayed
    <3> QED
      BY <3>2 DEF Message
  <2> QED
    BY <2>1, <2>2
<1> QED
  BY <1>2, <1>3, <1>4

\* handle_protocol_message() on the target.
LEMMA HandleTargetStep ==
    ASSUME IInv, HandleTarget
    PROVE  IInv'
<1> DEFINE m == Head(rq)
<1>1. rq # << >> /\ s.state["T"] # "Disconnected" /\ Still /\ Becomes(TargetMessage(s, m), cq, Tail(rq))
  BY DEF HandleTarget, Still
<1>2. /\ ServerOK(s) /\ Sent(s, << >>, << >>) /\ AskOK(s, cq) /\ rq \in Seq(Message) /\ hq \in Seq(Message)
      /\ MailOK(s, target, cq, tq, rq) /\ TargetOK(s, target, tq, rq)
  BY InvParts
<1>3. PICK g \in Int : ClientSide(s, cq, client, hq, g) /\ TargetSide(s, target, tq, rq, g)
  BY InvParts
<1>4. m \in Message /\ Tail(rq) \in Seq(Message) /\ FromTarget(s, m)
  BY <1>1, <1>2, MailTail DEF MailOK
<1>5. TargetOpen(s) /\ s.proxy = "made" /\ s.state["H"] # "Disconnected"
  <2>1. s.state["T"] # "none"
    BY <1>1, <1>2 DEF TargetOK
  <2> QED
    BY <1>1, <1>2, <2>1, Open DEF TargetOpen
<1>6. CASE m.type = "EOS"
  <2>1. TargetMessage(s, m) = Closed(s, "T")
    BY <1>6 DEF TargetMessage
  <2> QED
    BY <1>1, <1>4, <1>5, <2>1, ClosesTarget
<1>7. CASE m.type = "Hello"
  <2>1. s.state["T"] = "HelloSent"
    BY <1>1, <1>2, <1>3, <1>5, <1>7, TargetReadHello
  <2>2. Is(s, "made", "HelloReceived", "HelloSent", "no") /\ m.gen \in Nat
    BY <1>2, <1>4, <2>1 DEF ServerOK, Mode, Is, Message
  <2> DEFINE r == ProxyConnected([s EXCEPT !.state["T"] = "Connected"], m.gen)
             n == Msg("Hello", 0, 0, m.gen)
  <2>3. n \in Message /\ n.type = "Hello" /\ n.gen = m.gen
    BY <2>2, MsgType DEF Types
  <2>4. TargetMessage(s, m) = r
    BY <1>7, <2>1 DEF TargetMessage
  <2>5. ServerOK(r) /\ Is(r, "made", "Connected", "Connected", "no") /\ r.out["H"] = <<n>> /\ r.out["T"] = << >>
    BY <1>2, <2>2, ConnectedOK DEF Sent
  <2> HIDE DEF r, n
  <2>6. Lacks(cq, "redirect")
    BY <1>2, <2>2 DEF AskOK, Is
  <2>7. ~Asking(r, cq) /\ AskOK(r, cq) /\ r.state["H"] = "Connected" /\ r.state["T"] = "Connected" /\ r.redirect = "no"
    BY <1>2, <2>5, <2>6 DEF Asking, AskOK, Is
  <2>8. ClientSide(r, cq, client, Append(hq, n), n.gen)
    BY <1>2, <1>3, <2>2, <2>3, <2>7, ClientHello DEF Is
  <2>9. TargetSide(r, target, tq, Tail(rq), n.gen)
    BY <1>1, <1>2, <1>3, <1>5, <1>7, <2>3, <2>7, TargetReadHello
  <2>10. n.gen \in Int
    BY <2>2, <2>3
  <2> QED
    BY <1>1, <1>5, <2>3, <2>4, <2>5, <2>7, <2>8, <2>9, <2>10, MovesOn
<1>8. CASE m.type \in Answers
  <2>1. s.state["T"] = "RedirectSent"
    BY <1>1, <1>2, <1>3, <1>5, <1>8, TargetReadRefusal, TargetReadAcceptance DEF Answers
  <2>2. Is(s, "made", "Connected", "RedirectSent", "sent")
    BY <1>2, <2>1 DEF ServerOK, Mode, Is
  <2>3. m.depth = 0 /\ m.id = s.rtoken
    BY <1>4, <1>8, <2>1 DEF FromTarget
  <2>4. TargetMessage(s, m) = RedirectDone(s, m.type = "redirectFailed")
    BY <1>8, <2>2, <2>3 DEF TargetMessage, Answers, Is
  <2>5. Asking(s, cq) /\ Lacks(cq, "redirect")
    BY <1>2, <2>2 DEF Asking, AskOK, Is
  <2>6. CASE m.type = "redirectFailed"
    <3> DEFINE r == RedirectDone(s, TRUE)
    <3>1. TargetMessage(s, m) = r
      BY <2>4, <2>6
    <3>2. ServerOK(r) /\ Is(r, "made", "Connected", "Connected", "no") /\ r.out["H"] = <<Failed>> /\ r.out["T"] = << >>
      BY <1>2, <2>2, RefusedOK DEF Sent
    <3> HIDE DEF r
    <3>3. ~Asking(r, cq) /\ AskOK(r, cq) /\ r.state["H"] = "Connected" /\ r.state["T"] = "Connected" /\ r.redirect = "no"
      BY <1>2, <2>5, <3>2 DEF Asking, AskOK, Is
    <3>4. Failed \in Message /\ Failed.type \in Answers /\ After(g, Failed) = g
      BY EndMessages DEF Answers, After
    <3>5. ClientSide(r, cq, client, Append(hq, Failed), After(g, Failed))
      BY <1>2, <1>3, <2>5, <3>3, <3>4, ClientAnswer
    <3>6. TargetSide(r, target, tq, Tail(rq), g)
      BY <1>1, <1>2, <1>3, <1>5, <2>6, <3>3, TargetReadRefusal
    <3>7. ClientSide(r, cq, client, Append(hq, Failed), g)
      BY <3>4, <3>5
    <3> QED
      BY <1>1, <1>5, <3>1, <3>2, <3>3, <3>4, <3>6, <3>7, MovesOn
  <2>7. CASE m.type = "redirected"
    <3> DEFINE r == RedirectDone(s, FALSE)
    <3>1. TargetMessage(s, m) = r
      <4>1. (m.type = "redirectFailed") = FALSE
        BY <2>7
      <4> QED
        BY <2>4, <4>1
    <3>2. /\ ServerOK(r) /\ Is(r, "made", "HelloReceived", "HelloSent", "no")
          /\ r.out["H"] = <<Redirected>> /\ r.out["T"] = << >>
      BY <1>2, <2>2, AcceptedOK DEF Sent
    <3> HIDE DEF r
    <3>3. ~Asking(r, cq) /\ AskOK(r, cq) /\ r.state["H"] = "HelloReceived" /\ r.state["T"] = "HelloSent" /\ r.redirect = "no"
      BY <1>2, <2>5, <3>2 DEF Asking, AskOK, Is
    <3>4. Redirected \in Message /\ Redirected.type \in Answers /\ After(g, Redirected) = -1 /\ Redirected.type = "redirected"
      BY RedirectedMessage DEF Answers, After
    <3>5. ClientSide(r, cq, client, Append(hq, Redirected), After(g, Redirected))
      BY <1>2, <1>3, <2>5, <3>3, <3>4, ClientAnswer
    <3>6. TargetSide(r, target, tq, Tail(rq), -1)
      BY <1>1, <1>2, <1>3, <1>5, <2>7, <3>3, TargetReadAcceptance
    <3>7. ClientSide(r, cq, client, Append(hq, Redirected), -1) /\ -1 \in Int
      BY <3>4, <3>5
    <3> QED
      BY <1>1, <1>5, <3>1, <3>2, <3>3, <3>4, <3>6, <3>7, MovesOn
  <2> QED
    BY <1>8, <2>6, <2>7 DEF Answers
<1>9. CASE m.type \in {"R", "N", "E"}
  BY <1>1, <1>2, <1>4, <1>5, <1>9, RelaysReply, RelaysToClient DEF Control
<1> QED
  BY <1>4, <1>6, <1>7, <1>8, <1>9 DEF FromTarget, Control, Answers

\* The server closes a channel.
LEMMA CloseChannelStep ==
    ASSUME IInv, NEW c \in Chans, CloseChannel(c)
    PROVE  IInv'
<1>1. s.state[c] \notin {"none", "Disconnected"} /\ Becomes(Closed(s, c), cq, rq) /\ Still
  BY DEF CloseChannel, Still
<1>2. ServerOK(s) /\ cq \in Seq(Message) /\ rq \in Seq(Message)
  BY InvParts
<1>3. CASE c = "H"
  BY <1>1, <1>2, <1>3, ClosesHost
<1>4. CASE c = "T"
  <2>1. TargetOpen(s)
    BY <1>1, <1>2, <1>4, Open DEF TargetOpen
  <2> QED
    BY <1>1, <1>2, <1>4, <2>1, ClosesTarget
<1> QED
  BY <1>3, <1>4, TwoChans

\* The last read of a closed channel.
LEMMA ReaderDoneStep ==
    ASSUME IInv, NEW c \in Chans, ReaderDone(c)
    PROVE  IInv'
<1> DEFINE a == Unlock(s, c)
<1>1. /\ s.state[c] = "Disconnected" /\ c \notin s.read /\ s' = [a EXCEPT !.read = @ \cup {c}] /\ Still
      /\ cq' = cq /\ hq' = hq /\ tq' = tq /\ rq' = rq
  BY DEF ReaderDone, Still
<1>2. /\ TypeOK /\ ServerOK(s) /\ AskOK(s, cq) /\ s.out = Empty
      /\ cq \in Seq(Message) /\ hq \in Seq(Message) /\ tq \in Seq(Message) /\ rq \in Seq(Message)
      /\ MailOK(s, target, cq, tq, rq) /\ TargetOK(s, target, tq, rq)
  BY InvParts DEF IInv
<1>3. PICK g \in Int : ClientSide(s, cq, client, hq, g) /\ TargetSide(s, target, tq, rq, g)
  BY InvParts
<1>4. /\ s \in Server /\ s.proxy # "made" /\ s.lock \in [Chans -> Nat] /\ s.read \subseteq Chans /\ s.bcg = {} /\ s.assert
  <2>1. s \in Server /\ s.lock \in [Chans -> Nat] /\ s.read \subseteq Chans /\ s.assert
    BY <1>2 DEF ServerOK, Server
  <2>2. s.proxy # "made"
    BY <1>1, <1>2, Open, TwoChans DEF TargetOpen
  <2> QED
    BY <1>2, <2>1, <2>2 DEF ServerOK, Books
<1>5. /\ s.lock["H"] = Holds("H" \notin s.read) + Holds(s.redirect # "no")
      /\ s.state["T"] # "none" => s.lock["T"] = Holds("T" \notin s.read)
  BY <1>2, <1>4 DEF ServerOK, Books, Holds
<1>6. s.lock[c] > 0
  BY <1>1, <1>5, TwoChans DEF Holds
<1>7. /\ a \in Server /\ Like(s, a) /\ a.state = s.state /\ a.out = s.out /\ a.redirect = s.redirect
      /\ a.lock = [s.lock EXCEPT ![c] = @ - 1]
  BY <1>4, <1>6, UnlockDoes
<1> HIDE DEF a
<1>8. /\ s' \in Server /\ s'.state = s.state /\ s'.out = s.out /\ s'.redirect = s.redirect /\ s'.lock = a.lock
      /\ s'.proxy = s.proxy /\ s'.bcg = s.bcg /\ s'.assert = s.assert /\ s'.rtoken = s.rtoken
      /\ s'.read = s.read \cup {c}
  <2>1. a.read \cup {c} \in SUBSET Chans
    BY <1>4, <1>7 DEF Like
  <2> QED
    BY <1>1, <1>7, <2>1 DEF Server, Like
<1>9. ServerOK(s')
  <2>1. Mode(s')
    BY <1>2, <1>8 DEF ServerOK, Mode, Is
  <2>2. \A d \in s'.read : s'.state[d] = "Disconnected"
    BY <1>1, <1>2, <1>8 DEF ServerOK, Books
  <2>3. \A d \in Chans : s'.lock[d] = (IF d = c THEN s.lock[d] - 1 ELSE s.lock[d])
    BY <1>4, <1>7, <1>8
  <2>4. s'.lock["H"] = Holds("H" \notin s'.read) + Holds(s'.redirect # "no")
    BY <1>1, <1>5, <1>8, <2>3, TwoChans DEF Holds
  <2>5. s'.state["T"] # "none" => s'.lock["T"] = Holds("T" \notin s'.read)
    BY <1>1, <1>5, <1>8, <2>3, TwoChans DEF Holds
  <2>6. Books(s')
    BY <1>4, <1>8, <2>2, <2>4, <2>5 DEF Books, Holds
  <2> QED
    BY <1>4, <1>8, <2>1, <2>6 DEF ServerOK
<1>10. s'.out = Empty /\ AskOK(s', cq')
  BY <1>1, <1>2, <1>8 DEF AskOK
<1>11. ClientSide(s', cq', client, hq', g)
  <2>1. Asking(s', cq) => Asking(s, cq)
    BY <1>8 DEF Asking
  <2>2. ClientSide(s', cq, client, hq, g)
    BY <1>3, <1>8, <2>1, ClientSame
  <2> QED
    BY <1>1, <2>2
<1>12. TargetSide(s', target, tq', rq', g)
  <2>1. TargetSide(s', target, tq, rq, g)
    BY <1>3, <1>8, TargetSame
  <2> QED
    BY <1>1, <2>1
<1>13. MailOK(s', target, cq', tq', rq')
  <2>1. AllToTarget(s', tq) /\ AllFromTarget(s', rq)
    BY <1>2, <1>8, MailSame DEF MailOK
  <2> QED
    BY <1>1, <1>2, <2>1 DEF MailOK
<1>14. TargetOK(s', target, tq', rq')
  BY <1>1, <1>2, <1>8 DEF TargetOK
<1> QED
  BY <1>1, <1>2, <1>9, <1>10, <1>11, <1>12, <1>13, <1>14, StillInv

\* An event of the server's own services.
LEMMA BroadcastStep ==
    ASSUME IInv, Broadcast
    PROVE  IInv'
<1> DEFINE n == Msg("E", 0, 0, 0)
           r == Put(s, "H", n)
<1>1. /\ s.proxy = "none" /\ s.state["H"] # "Disconnected" /\ Becomes(r, cq, rq) /\ client' = client /\ target' = target
      /\ ev' = [ev EXCEPT !.server = @ + 1]
  BY DEF Broadcast, BroadcastOk
<1>2. /\ TypeOK /\ ServerOK(s) /\ Sent(s, << >>, << >>) /\ AskOK(s, cq)
      /\ cq \in Seq(Message) /\ hq \in Seq(Message) /\ tq \in Seq(Message) /\ rq \in Seq(Message)
      /\ MailOK(s, target, cq, tq, rq) /\ TargetOK(s, target, tq, rq)
  BY InvParts
<1>3. PICK g \in Int : ClientSide(s, cq, client, hq, g) /\ TargetSide(s, target, tq, rq, g)
  BY InvParts
<1>4. n \in Message /\ n.type = "E" /\ n.gen = 0
  BY MsgType DEF Types
<1> HIDE DEF n
<1>5. /\ ServerOK(r) /\ r.state = s.state /\ r.redirect = s.redirect /\ r.rtoken = s.rtoken
  BY <1>2, <1>4, PutOK, TwoChans
<1>6. r.out["H"] = <<n>> /\ r.out["T"] = << >>
  <2>1. s \in Server /\ s.out \in [Chans -> Seq(Message)]
    BY <1>2 DEF ServerOK, Server
  <2>2. r.out = [s.out EXCEPT !["H"] = Append(@, n)]
    BY <1>4, <2>1, PutDoes, TwoChans
  <2>3. r.out["H"] = Append(s.out["H"], n) /\ r.out["T"] = s.out["T"]
    BY <2>1, <2>2, TwoChans
  <2> QED
    BY <1>2, <1>4, <2>3 DEF Sent
<1> HIDE DEF r
<1>7. s.state["T"] = "none" /\ g = 0
  <2>1. s.state["T"] = "none"
    BY <1>1, <1>2 DEF ServerOK, Mode, Is
  <2> QED
    BY <1>3, <2>1 DEF TargetSide
<1>8. /\ ServerOK(s') /\ s'.out = Empty /\ s'.state = r.state /\ s'.redirect = r.redirect /\ s'.rtoken = r.rtoken
      /\ hq' = hq \o r.out["H"] /\ tq' = tq \o r.out["T"]
      /\ cq' = (IF r.state["H"] = "Disconnected" THEN << >> ELSE cq)
      /\ rq' = (IF r.state["T"] = "Disconnected" THEN << >> ELSE rq)
      /\ cq' \in Seq(Message) /\ hq' \in Seq(Message) /\ tq' \in Seq(Message) /\ rq' \in Seq(Message)
  BY <1>1, <1>2, <1>5, BecomesDoes
<1>9. hq' = Append(hq, n) /\ tq' = tq /\ cq' = cq /\ rq' = rq
  BY <1>1, <1>2, <1>4, <1>5, <1>6, <1>7, <1>8, Concat
<1>10. ClientSide(s', cq', client, hq', g)
  <2>1. ClientSide(s', cq', client, hq, g)
    BY <1>3, <1>5, <1>8, <1>9, ClientSame DEF Asking
  <2>2. n.type \notin Control /\ n.gen = g
    BY <1>4, <1>7 DEF Control
  <2> QED
    BY <1>2, <1>4, <1>9, <2>1, <2>2, ClientPlain
<1>11. TargetSide(s', target, tq', rq', g)
  <2>1. TargetSide(s', target, tq, rq, g)
    BY <1>3, <1>5, <1>8, TargetSame
  <2> QED
    BY <1>9, <2>1
<1>12. MailOK(s', target, cq', tq', rq')
  <2>1. AllToTarget(s', tq) /\ AllFromTarget(s', rq)
    BY <1>2, <1>5, <1>8, MailSame DEF MailOK
  <2> QED
    BY <1>2, <1>9, <2>1 DEF MailOK
<1>13. TargetOK(s', target, tq', rq') /\ AskOK(s', cq')
  BY <1>2, <1>5, <1>8, <1>9 DEF TargetOK, AskOK
<1>14. TypeOK'
  <2>0. ev \in [server : Nat, target : Nat]
    BY <1>2 DEF TypeOK
  <2>1. ev' \in [server : Nat, target : Nat]
    BY <1>1, <2>0
  <2> QED
    BY <1>1, <1>2, <1>8, <2>1 DEF TypeOK, ServerOK
<1>15. Sessions'
  BY <1>1, <1>10, <1>11 DEF Sessions
<1> QED
  BY <1>1, <1>8, <1>12, <1>13, <1>14, <1>15 DEF IInv

\* What becomes of the server when a connection is made or has failed.
ConnectResult(p, error) ==
    IF ~IsClosed(p, "H") THEN (IF error THEN Refused(Tried(p)) ELSE Accepted(Tried(p)))
    ELSE IF error THEN Tried(p) ELSE Closed(Met(Tried(p)), "T")

\* The state the connection leaves, and the messages that connect_done()
\* has sent, in each of the four cases.
LEMMA ConnectDoes ==
    ASSUME NEW p, ServerOK(p), Sent(p, << >>, << >>), p.redirect = "connect", NEW error \in BOOLEAN,
           NEW r, r = ConnectResult(p, error)
    PROVE  /\ ServerOK(r) /\ r.redirect = "no"
           /\ \/ Is(r, "none", "Connected", "none", "no") /\ Sent(r, <<Failed>>, << >>) /\ error
              \/ Is(r, "made", "HelloReceived", "HelloSent", "no") /\ Sent(r, <<Redirected>>, <<Msg("Hello", 0, 0, 0)>>) /\ ~error
              \/ Is(r, "none", "Disconnected", "none", "no") /\ Sent(r, << >>, << >>) /\ error
              \/ Is(r, "none", "Disconnected", "Disconnected", "no") /\ Sent(r, << >>, <<EOS>>) /\ ~error
<1>1. CASE p.state["H"] # "Disconnected" /\ error
  <2>1. r = Refused(Tried(p))
    BY <1>1 DEF IsClosed, ConnectResult
  <2> QED
    BY <1>1, <2>1, ConnectFailsOK DEF Is
<1>2. CASE p.state["H"] # "Disconnected" /\ ~error
  <2>1. r = Accepted(Tried(p))
    BY <1>2 DEF IsClosed, ConnectResult
  <2> QED
    BY <1>2, <2>1, CreateOK DEF Is
<1>3. CASE p.state["H"] = "Disconnected" /\ error
  <2>1. r = Tried(p)
    BY <1>3 DEF IsClosed, ConnectResult
  <2>2. Sent(r, << >>, << >>)
    BY <2>1, TriedDoes DEF Sent
  <2> QED
    BY <1>3, <2>1, <2>2, TriedOK DEF Is
<1>4. CASE p.state["H"] = "Disconnected" /\ ~error
  <2>1. r = Closed(Met(Tried(p)), "T")
    BY <1>4 DEF IsClosed, ConnectResult
  <2> QED
    BY <1>4, <2>1, LateOK DEF Is
<1> QED
  BY <1>1, <1>2, <1>3, <1>4

\* connect_done() of the Locator service.
LEMMA ConnectDoneStep ==
    ASSUME IInv, NEW error \in BOOLEAN, ConnectDone(error)
    PROVE  IInv'
<1> DEFINE r == ConnectResult(s, error)
<1>1. /\ s.redirect = "connect" /\ Becomes(r, cq, rq) /\ client' = client /\ ev' = ev
      /\ target' = IF error THEN target ELSE [target EXCEPT !.state = "Started", !.gen = 1]
  BY DEF ConnectDone, ConnectResult, Refused, Accepted, Tried, Met, Failed, Redirected
<1>2. /\ TypeOK /\ ServerOK(s) /\ Sent(s, << >>, << >>) /\ AskOK(s, cq)
      /\ cq \in Seq(Message) /\ hq \in Seq(Message) /\ tq \in Seq(Message) /\ rq \in Seq(Message)
      /\ MailOK(s, target, cq, tq, rq) /\ TargetOK(s, target, tq, rq)
  BY InvParts
<1>3. PICK g \in Int : ClientSide(s, cq, client, hq, g) /\ TargetSide(s, target, tq, rq, g)
  BY InvParts
<1>4. /\ s.state["T"] = "none" /\ target.state = "none" /\ target.pending = {} /\ tq = << >> /\ rq = << >>
      /\ Asking(s, cq) /\ Lacks(cq, "redirect") /\ AtMostOne(cq, "redirect")
  <2>1. s.state["T"] = "none"
    BY <1>1, <1>2, Open
  <2> QED
    BY <1>1, <1>2, <2>1 DEF TargetOK, Asking, AskOK
<1>5. /\ ServerOK(r) /\ r.redirect = "no"
      /\ \/ Is(r, "none", "Connected", "none", "no") /\ Sent(r, <<Failed>>, << >>) /\ error
         \/ Is(r, "made", "HelloReceived", "HelloSent", "no") /\ Sent(r, <<Redirected>>, <<Msg("Hello", 0, 0, 0)>>) /\ ~error
         \/ Is(r, "none", "Disconnected", "none", "no") /\ Sent(r, << >>, << >>) /\ error
         \/ Is(r, "none", "Disconnected", "Disconnected", "no") /\ Sent(r, << >>, <<EOS>>) /\ ~error
  BY <1>1, <1>2, ConnectDoes
<1> HIDE DEF r
<1>6. /\ ServerOK(s') /\ s'.out = Empty /\ s'.state = r.state /\ s'.redirect = "no"
      /\ hq' = hq \o r.out["H"] /\ tq' = tq \o r.out["T"]
      /\ cq' = (IF r.state["H"] = "Disconnected" THEN << >> ELSE cq) /\ rq' = << >>
      /\ cq' \in Seq(Message) /\ hq' \in Seq(Message) /\ tq' \in Seq(Message) /\ rq' \in Seq(Message)
  BY <1>1, <1>2, <1>4, <1>5, BecomesDoes
<1>7. Lacks(cq', "redirect") /\ AtMostOne(cq', "redirect") /\ ~Asking(s', cq') /\ AskOK(s', cq') /\ AllFromClient(cq')
  BY <1>2, <1>4, <1>6, LacksEmpty, MailEmpty DEF Asking, AskOK, MailOK
<1>8. TypeOK'
  <2>1. target \in [state : {"none", "Started", "HelloSent", "HelloReceived", "Connected", "closed"},
                    gen : Nat, pending : SUBSET Message]
    BY <1>2 DEF TypeOK
  <2>2. target' \in [state : {"none", "Started", "HelloSent", "HelloReceived", "Connected", "closed"},
                     gen : Nat, pending : SUBSET Message]
    BY <1>1, <2>1
  <2> QED
    BY <1>1, <1>2, <1>6, <2>2 DEF TypeOK, ServerOK
<1>9. /\ error => target' = target
      /\ ~error => target'.state = "Started" /\ target'.pending = {}
  <2>1. target \in [state : {"none", "Started", "HelloSent", "HelloReceived", "Connected", "closed"},
                    gen : Nat, pending : SUBSET Message]
    BY <1>2 DEF TypeOK
  <2> QED
    BY <1>1, <1>4, <2>1
<1>10. target'.pending = {} /\ g = 0
  BY <1>3, <1>4, <1>9 DEF TargetSide
<1>11. CASE error
  <2>1. s'.state["T"] = "none" /\ r.out["T"] = << >> /\ target' = target
    BY <1>5, <1>6, <1>9, <1>11 DEF Is, Sent
  <2>2. tq' = << >>
    BY <1>2, <1>4, <1>6, <2>1, Concat, EndMessages
  <2>3. ClientSide(s', cq', client, hq', g)
    <3>1. CASE Sent(r, <<Failed>>, << >>)
      <4>1. hq' = Append(hq, Failed)
        BY <1>2, <1>6, <3>1, Concat, EndMessages DEF Sent
      <4>2. Failed \in Message /\ Failed.type \in Answers /\ After(g, Failed) = g
        BY EndMessages DEF Answers, After
      <4>3. s'.state["H"] # "HelloReceived"
        BY <1>5, <1>6, <1>11 DEF Is
      <4>4. ClientSide(s', cq', client, Append(hq, Failed), After(g, Failed))
        BY <1>2, <1>3, <1>4, <1>7, <4>2, <4>3, ClientAnswer
      <4> QED
        BY <4>1, <4>2, <4>4
    <3>2. CASE Sent(r, << >>, << >>)
      <4>1. hq' = hq
        BY <1>2, <1>6, <3>2, Concat, EndMessages DEF Sent
      <4>2. s'.state["H"] # "HelloReceived"
        BY <1>5, <1>6, <1>11 DEF Is
      <4>3. ClientSide(s', cq', client, hq, g)
        BY <1>3, <1>7, <4>2, ClientSame
      <4> QED
        BY <4>1, <4>3
    <3> QED
      BY <1>5, <1>11, <3>1, <3>2
  <2>4. TargetSide(s', target', tq', rq', g)
    BY <1>10, <2>1 DEF TargetSide, TargetOpen
  <2>5. MailOK(s', target', cq', tq', rq') /\ TargetOK(s', target', tq', rq')
    BY <1>4, <1>6, <1>7, <1>10, <2>1, <2>2, MailEmpty, LacksEmpty DEF MailOK, TargetOK
  <2> QED
    BY <1>1, <1>6, <1>7, <1>8, <2>3, <2>4, <2>5 DEF IInv, Sessions
<1>12. CASE ~error /\ Is(r, "made", "HelloReceived", "HelloSent", "no")
            /\ Sent(r, <<Redirected>>, <<Msg("Hello", 0, 0, 0)>>)
  <2> DEFINE n == Msg("Hello", 0, 0, 0)
  <2>1. n \in Message /\ n.type = "Hello"
    BY MsgType DEF Types
  <2>2. s'.state["H"] = "HelloReceived" /\ s'.state["T"] = "HelloSent" /\ r.out["T"] = <<n>> /\ r.out["H"] = <<Redirected>>
    BY <1>6, <1>12 DEF Is, Sent
  <2> HIDE DEF n
  <2>3. hq' = Append(hq, Redirected) /\ tq' = Append(<< >>, n) /\ << >> \in Seq(Message)
    BY <1>2, <1>4, <1>6, <2>1, <2>2, Concat, RedirectedMessage
  <2>4. Redirected \in Message /\ Redirected.type \in Answers /\ After(g, Redirected) = -1 /\ Redirected.type = "redirected"
    BY RedirectedMessage DEF Answers, After
  <2>5. ClientSide(s', cq', client, hq', -1)
    <3>1. ClientSide(s', cq', client, Append(hq, Redirected), After(g, Redirected))
      BY <1>2, <1>3, <1>4, <1>7, <2>4, ClientAnswer
    <3> QED
      BY <2>3, <2>4, <3>1
  <2>6. TargetSide(s', target', tq', rq', -1)
    <3>1. Lacks(tq', "redirect")
      BY <2>1, <2>3, LacksAppend, LacksEmpty
    <3>2. TargetWord(s', target', tq', "none") /\ "none" \in Words
      BY <1>9, <1>12, <2>2, <3>1 DEF TargetWord, Owes, Words
    <3>3. Shape(rq', -1, "none", -1) /\ -1 \in Int
      BY <1>6, ShapeEmpty
    <3>4. target'.state \notin {"HelloSent", "Connected"}
      BY <1>9, <1>12
    <3> QED
      BY <2>2, <3>2, <3>3, <3>4 DEF TargetSide
  <2>7. MailOK(s', target', cq', tq', rq')
    <3>1. ToTarget(s', n)
      BY <2>1 DEF ToTarget
    <3>2. AllToTarget(s', tq')
      BY <2>1, <2>3, <3>1, MailAppend, MailEmpty
    <3> QED
      BY <1>6, <1>7, <1>10, <3>2, MailEmpty DEF MailOK
  <2>8. TargetOK(s', target', tq', rq')
    <3>1. AtMostOne(tq', "Hello")
      BY <2>1, <2>3, LacksAppend, LacksEmpty
    <3> QED
      BY <1>9, <1>12, <2>2, <3>1 DEF TargetOK
  <2> QED
    BY <1>1, <1>6, <1>7, <1>8, <2>5, <2>6, <2>7, <2>8 DEF IInv, Sessions
<1>13. CASE ~error /\ Is(r, "none", "Disconnected", "Disconnected", "no") /\ Sent(r, << >>, <<EOS>>)
  <2>1. s'.state["H"] = "Disconnected" /\ s'.state["T"] = "Disconnected" /\ r.out["T"] = <<EOS>> /\ r.out["H"] = << >>
    BY <1>6, <1>13 DEF Is, Sent
  <2>2. hq' = hq /\ tq' = Append(<< >>, EOS) /\ << >> \in Seq(Message)
    BY <1>2, <1>4, <1>6, <2>1, Concat, EndMessages
  <2>3. ClientSide(s', cq', client, hq', g)
    <3>1. ClientSide(s', cq', client, hq, g)
      BY <1>3, <1>7, <2>1, ClientSame
    <3> QED
      BY <2>2, <3>1
  <2>4. TargetSide(s', target', tq', rq', g)
    BY <2>1, TargetClosed
  <2>5. MailOK(s', target', cq', tq', rq')
    <3>1. ToTarget(s', EOS)
      BY EndMessages DEF ToTarget
    <3>2. AllToTarget(s', tq')
      BY <2>2, <3>1, MailAppend, MailEmpty, EndMessages
    <3> QED
      BY <1>6, <1>7, <1>10, <3>2, MailEmpty DEF MailOK
  <2>6. TargetOK(s', target', tq', rq')
    <3>1. Lacks(tq', "Hello") /\ AtMostOne(tq', "Hello")
      BY <2>2, LacksAppend, LacksEmpty, EndMessages
    <3> QED
      BY <2>1, <3>1 DEF TargetOK
  <2> QED
    BY <1>1, <1>6, <1>7, <1>8, <2>3, <2>4, <2>5, <2>6 DEF IInv, Sessions
<1> QED
  BY <1>5, <1>11, <1>12, <1>13

-----------------------------------------------------------------------------
(* Steps of the client.                                                       *)

Clients == [state : {"Connected", "RedirectSent", "HelloSent", "closed"}, gen : Nat,
            sent : SUBSET Cmds, done : Seq(Nat), redirects : Nat]
Targets == [state : {"none", "Started", "HelloSent", "HelloReceived", "Connected", "closed"},
            gen : Nat, pending : SUBSET Message]

\* Putting the invariant together after a step of the client.
LEMMA ClientInv ==
    ASSUME IInv, UNCHANGED <<s, target, ev, tq, rq>>, client' \in Clients, cq' \in Seq(Message), hq' \in Seq(Message),
           AskOK(s, cq'), AllFromClient(cq'), NEW g \in Int,
           ClientSide(s, cq', client', hq', g), TargetSide(s, target, tq, rq, g)
    PROVE  IInv'
<1>1. TypeOK'
  BY DEF IInv, TypeOK, Clients
<1>2. Sessions'
  BY DEF Sessions
<1>3. MailOK(s, target, cq', tq, rq)
  BY DEF IInv, MailOK
<1> QED
  BY <1>1, <1>2, <1>3 DEF IInv

\* What the client sends is added to its queue, or dropped.
LEMMA SentByClient ==
    ASSUME NEW m \in Message, cq \in Seq(Message), AllFromClient(cq), FromClient(m), cq' = ToServer("H", cq, m)
    PROVE  cq' \in Seq(Message) /\ AllFromClient(cq')
           /\ (m.type # "redirect" => /\ Lacks(cq', "redirect") <=> Lacks(cq, "redirect")
                                      /\ AtMostOne(cq, "redirect") => AtMostOne(cq', "redirect"))
<1>1. CASE cq' = cq
  BY <1>1
<1>2. CASE cq' = Append(cq, m)
  <2>1. Append(cq, m) \in Seq(Message)
    BY AppendEntries
  <2>2. AllFromClient(Append(cq, m))
    BY AppendEntries DEF AllFromClient
  <2>3. m.type # "redirect" => /\ Lacks(Append(cq, m), "redirect") <=> Lacks(cq, "redirect")
                               /\ AtMostOne(cq, "redirect") => AtMostOne(Append(cq, m), "redirect")
    BY LacksAppend
  <2> QED
    BY <1>2, <2>1, <2>2, <2>3
<1> QED
  BY <1>1, <1>2 DEF ToServer

\* A command.
LEMMA ClientSendStep ==
    ASSUME IInv, NEW k \in Cmds, ClientSend(k)
    PROVE  IInv'
<1> DEFINE m == Msg("C", k, 0, 0)
<1>1. /\ UNCHANGED <<s, target, ev, hq, tq, rq>> /\ client' = [client EXCEPT !.sent = @ \cup {k}]
      /\ cq' = ToServer("H", cq, m)
  BY DEF ClientSend
<1>2. /\ AskOK(s, cq) /\ cq \in Seq(Message) /\ hq \in Seq(Message) /\ MailOK(s, target, cq, tq, rq)
  BY InvParts
<1>3. PICK g \in Int : ClientSide(s, cq, client, hq, g) /\ TargetSide(s, target, tq, rq, g)
  BY InvParts
<1>4. m \in Message /\ m.type = "C" /\ m.depth = 0
  <2>1. k \in Nat
    BY ConstantAssumption
  <2> QED
    BY <2>1, MsgType DEF Types
<1> HIDE DEF m
<1>5. client \in Clients
  BY DEF IInv, TypeOK, Clients
<1>6. client' \in Clients /\ client'.state = client.state /\ client'.gen = client.gen
  BY <1>1, <1>5 DEF Clients
<1>7. FromClient(m)
  BY <1>4 DEF FromClient
<1>8. /\ cq' \in Seq(Message) /\ AllFromClient(cq') /\ (Lacks(cq', "redirect") <=> Lacks(cq, "redirect"))
      /\ AtMostOne(cq, "redirect") => AtMostOne(cq', "redirect")
  BY <1>1, <1>2, <1>4, <1>7, SentByClient DEF MailOK
<1>9. AskOK(s, cq')
  BY <1>2, <1>8 DEF AskOK
<1>10. ClientSide(s, cq', client', hq, g)
  <2>1. ClientSide(s, cq', client, hq, g)
    BY <1>3, <1>8, ClientSame DEF Asking
  <2> QED
    BY <1>6, <2>1 DEF ClientSide, ClientSession, ClientWord
<1> QED
  BY <1>1, <1>2, <1>3, <1>6, <1>8, <1>9, <1>10, ClientInv

\* A redirection.
LEMMA ClientRedirectStep ==
    ASSUME IInv, ClientRedirect
    PROVE  IInv'
<1> DEFINE m == Msg("redirect", 0, 0, 0)
<1>1. /\ UNCHANGED <<s, target, ev, hq, tq, rq>> /\ client.state = "Connected"
      /\ client' = [client EXCEPT !.state = "RedirectSent", !.redirects = @ + 1]
      /\ cq' = ToServer("H", cq, m)
  BY DEF ClientRedirect
<1>2. /\ AskOK(s, cq) /\ cq \in Seq(Message) /\ hq \in Seq(Message) /\ MailOK(s, target, cq, tq, rq)
  BY InvParts
<1>3. PICK g \in Int : ClientSide(s, cq, client, hq, g) /\ TargetSide(s, target, tq, rq, g)
  BY InvParts
<1>4. m \in Message /\ m.type = "redirect"
  BY MsgType DEF Types
<1> HIDE DEF m
<1>5. client \in Clients
  BY DEF IInv, TypeOK, Clients
<1>6. client' \in Clients /\ client'.state = "RedirectSent" /\ client'.gen = client.gen
  <2>1. client.redirects + 1 \in Nat
    BY <1>5 DEF Clients
  <2> QED
    BY <1>1, <1>5, <2>1 DEF Clients
<1>7. PICK word \in Words : Shape(hq, ClientSession(client), word, g) /\ ClientWord(s, cq, client, word)
  BY <1>1, <1>3 DEF ClientSide
<1>8. ~Asking(s, cq) /\ word = "none" /\ s.state["H"] # "HelloReceived"
  BY <1>1, <1>7 DEF ClientWord
<1>9. cq' \in Seq(Message) /\ AllFromClient(cq')
  <2>1. FromClient(m)
    BY <1>4 DEF FromClient
  <2> QED
    BY <1>1, <1>2, <1>4, <2>1, SentByClient DEF MailOK
<1>10. AskOK(s, cq')
  <2>1. Lacks(cq, "redirect") /\ s.redirect = "no"
    BY <1>8 DEF Asking
  <2>2. AtMostOne(cq', "redirect")
    BY <1>1, <1>2, <1>4, <2>1, LacksAppend DEF ToServer, AskOK
  <2> QED
    BY <1>8, <2>1, <2>2 DEF AskOK
<1>11. ClientSide(s, cq', client', hq, g)
  <2>1. ClientSession(client') = ClientSession(client)
    BY <1>1, <1>6 DEF ClientSession
  <2>2. ClientWord(s, cq', client', word)
    BY <1>6, <1>8 DEF ClientWord
  <2> QED
    BY <1>7, <2>1, <2>2 DEF ClientSide
<1> QED
  BY <1>1, <1>2, <1>3, <1>6, <1>9, <1>10, <1>11, ClientInv

\* The client closes the connection.
LEMMA ClientCloseStep ==
    ASSUME IInv, ClientClose
    PROVE  IInv'
<1>1. /\ UNCHANGED <<s, target, ev, hq, tq, rq>> /\ client' = [client EXCEPT !.state = "closed"]
      /\ cq' = ToServer("H", cq, EOS)
  BY DEF ClientClose, EOS
<1>2. /\ AskOK(s, cq) /\ cq \in Seq(Message) /\ hq \in Seq(Message) /\ MailOK(s, target, cq, tq, rq)
  BY InvParts
<1>3. PICK g \in Int : ClientSide(s, cq, client, hq, g) /\ TargetSide(s, target, tq, rq, g)
  BY InvParts
<1>4. client \in Clients
  BY DEF IInv, TypeOK, Clients
<1>5. client' \in Clients /\ client'.state = "closed"
  BY <1>1, <1>4 DEF Clients
<1>6. EOS \in Message /\ EOS.type = "EOS" /\ FromClient(EOS)
  BY EndMessages DEF FromClient
<1>7. /\ cq' \in Seq(Message) /\ AllFromClient(cq') /\ (Lacks(cq', "redirect") <=> Lacks(cq, "redirect"))
      /\ AtMostOne(cq, "redirect") => AtMostOne(cq', "redirect")
  BY <1>1, <1>2, <1>6, SentByClient DEF MailOK
<1>8. AskOK(s, cq') /\ ClientSide(s, cq', client', hq, g)
  BY <1>2, <1>5, <1>7 DEF AskOK, ClientSide
<1> QED
  BY <1>1, <1>2, <1>3, <1>5, <1>7, <1>8, ClientInv

\* The client reads a message.
LEMMA ClientReceiveStep ==
    ASSUME IInv, ClientReceive
    PROVE  IInv'
<1> DEFINE m == Head(hq)
<1>1. /\ UNCHANGED <<s, target, ev, cq, tq, rq>> /\ hq # << >> /\ client.state # "closed" /\ hq' = Tail(hq)
      /\ client' = CASE m.type \in {"R", "N"} -> [client EXCEPT !.done = Append(@, m.id)]
                       [] m.type = "redirected" -> [client EXCEPT !.state = "HelloSent"]
                       [] m.type = "redirectFailed" -> [client EXCEPT !.state = "Connected"]
                       [] m.type = "Hello" -> [client EXCEPT !.state = "Connected", !.gen = m.gen]
                       [] m.type = "EOS" -> [client EXCEPT !.state = "closed"]
                       [] OTHER -> client
  BY DEF ClientReceive
<1>2. /\ AskOK(s, cq) /\ cq \in Seq(Message) /\ hq \in Seq(Message) /\ MailOK(s, target, cq, tq, rq)
  BY InvParts
<1>3. PICK g \in Int : ClientSide(s, cq, client, hq, g) /\ TargetSide(s, target, tq, rq, g)
  BY InvParts
<1>4. m \in Message /\ Tail(hq) \in Seq(Message) /\ m.id \in Nat /\ m.gen \in Nat
  <2>1. m \in Message /\ Tail(hq) \in Seq(Message)
    BY <1>1, <1>2, TailEntries
  <2> HIDE DEF m
  <2>2. m.id \in Nat /\ m.gen \in Nat
    BY <2>1 DEF Message
  <2> QED
    BY <2>1, <2>2
<1>5. client \in Clients
  BY DEF IInv, TypeOK, Clients
<1>6. PICK word \in Words : Shape(hq, ClientSession(client), word, g) /\ ClientWord(s, cq, client, word)
  BY <1>1, <1>3 DEF ClientSide
<1>7. \/ m.type \notin Control /\ Shape(Tail(hq), ClientSession(client), word, g)
      \/ /\ m.type \in Control /\ word = m.type
         /\ Shape(Tail(hq), After(ClientSession(client), m), "none", g)
      \/ m.type = "redirected" /\ word = "both" /\ Shape(Tail(hq), -1, "Hello", g)
  BY <1>1, <1>2, <1>6, ShapeTail
<1> HIDE DEF m
<1>8. SUFFICES client' \in Clients /\ ClientSide(s, cq, client', Tail(hq), g)
  BY <1>1, <1>2, <1>3, <1>4, ClientInv DEF MailOK
<1>9. CASE m.type = "EOS"
  <2>1. client' = [client EXCEPT !.state = "closed"]
    BY <1>1, <1>9
  <2> QED
    BY <1>5, <2>1 DEF Clients, ClientSide
<1>10. CASE m.type \notin Control /\ m.type # "EOS"
  <2>1. client' \in Clients /\ client'.state = client.state /\ client'.gen = client.gen
    <3>1. CASE m.type \in {"R", "N"}
      <4>1. client' = [client EXCEPT !.done = Append(@, m.id)]
        BY <1>1, <3>1
      <4>2. Append(client.done, m.id) \in Seq(Nat)
        BY <1>4, <1>5 DEF Clients
      <4> QED
        BY <1>5, <4>1, <4>2 DEF Clients
    <3>2. CASE m.type \notin {"R", "N"}
      BY <1>1, <1>5, <1>10, <3>2 DEF Control
    <3> QED
      BY <3>1, <3>2
  <2>2. Shape(Tail(hq), ClientSession(client), word, g)
    BY <1>7, <1>10 DEF Control
  <2> QED
    BY <1>6, <2>1, <2>2 DEF ClientSide, ClientSession, ClientWord
<1>11. CASE m.type = "redirectFailed"
  <2>1. client' = [client EXCEPT !.state = "Connected"]
    BY <1>1, <1>11
  <2>2. client' \in Clients /\ client'.state = "Connected" /\ client'.gen = client.gen
    BY <1>5, <2>1 DEF Clients
  <2>3. word = "redirectFailed" /\ Shape(Tail(hq), ClientSession(client), "none", g)
    BY <1>7, <1>11 DEF Control, After
  <2>4. client.state = "RedirectSent" /\ ~Asking(s, cq) /\ s.state["H"] # "HelloReceived"
    BY <1>1, <1>5, <1>6, <2>3 DEF ClientWord, Clients
  <2>5. ClientSession(client') = ClientSession(client)
    BY <2>2, <2>4 DEF ClientSession
  <2>6. ClientWord(s, cq, client', "none") /\ "none" \in Words
    BY <2>2, <2>4 DEF ClientWord, Words
  <2> QED
    BY <2>2, <2>3, <2>5, <2>6 DEF ClientSide
<1>12. CASE m.type = "Hello"
  <2>1. client' = [client EXCEPT !.state = "Connected", !.gen = m.gen]
    BY <1>1, <1>12
  <2>2. client' \in Clients /\ client'.state = "Connected" /\ client'.gen = m.gen
    BY <1>4, <1>5, <2>1 DEF Clients
  <2>3. word = "Hello" /\ Shape(Tail(hq), m.gen, "none", g)
    BY <1>7, <1>12 DEF Control, After
  <2>4. client.state = "HelloSent" /\ ~Asking(s, cq) /\ s.state["H"] # "HelloReceived"
    BY <1>1, <1>5, <1>6, <2>3 DEF ClientWord, Clients
  <2>5. ClientWord(s, cq, client', "none") /\ "none" \in Words /\ ClientSession(client') = m.gen
    BY <2>2, <2>4 DEF ClientWord, Words, ClientSession
  <2> QED
    BY <2>2, <2>3, <2>5 DEF ClientSide
<1>13. CASE m.type = "redirected"
  <2>1. client' = [client EXCEPT !.state = "HelloSent"]
    BY <1>1, <1>13
  <2>2. client' \in Clients /\ client'.state = "HelloSent" /\ ClientSession(client') = -1
    BY <1>5, <2>1 DEF Clients, ClientSession
  <2>3. \/ word = "redirected" /\ Shape(Tail(hq), -1, "none", g)
        \/ word = "both" /\ Shape(Tail(hq), -1, "Hello", g)
    BY <1>7, <1>13 DEF Control, After
  <2>4. /\ client.state = "RedirectSent" /\ ~Asking(s, cq)
        /\ word = "both" => s.state["H"] # "HelloReceived"
    BY <1>1, <1>5, <1>6, <2>3 DEF ClientWord, Clients
  <2>5. CASE word = "redirected"
    <3>1. ClientWord(s, cq, client', "none") /\ "none" \in Words
      BY <2>2, <2>4 DEF ClientWord, Words
    <3> QED
      BY <2>2, <2>3, <2>5, <3>1 DEF ClientSide
  <2>6. CASE word = "both"
    <3>1. ClientWord(s, cq, client', "Hello") /\ "Hello" \in Words
      BY <2>2, <2>4, <2>6 DEF ClientWord, Words, Control
    <3> QED
      BY <2>2, <2>3, <2>6, <3>1 DEF ClientSide
  <2> QED
    BY <2>3, <2>5, <2>6
<1> QED
  BY <1>9, <1>10, <1>11, <1>12, <1>13 DEF Control

-----------------------------------------------------------------------------
(* Steps of the target.                                                       *)

\* How a target that sends nothing moves on.
Moves(tg, tg2) ==
    \/ tg2.state = tg.state /\ tg2.gen = tg.gen
    \/ tg2.state = "closed"
    \/ tg.state = "Started" /\ tg2.state = "HelloReceived"
    \/ tg.state = "HelloSent" /\ tg2.state = "Connected" /\ tg2.gen = tg.gen

\* Its part of the invariant is kept.
LEMMA TargetMoves ==
    ASSUME NEW r, NEW tg, NEW tg2, NEW out, NEW out2, NEW in, NEW g, TargetSide(r, tg, out, in, g),
           Moves(tg, tg2), Lacks(out, "redirect") => Lacks(out2, "redirect"),
           AtMostOne(out, "redirect") => AtMostOne(out2, "redirect")
    PROVE  TargetSide(r, tg2, out2, in, g)
<1>1. ASSUME TargetOpen(r)
      PROVE  \E word \in Words, h \in Int : /\ Shape(in, g, word, h) /\ TargetWord(r, tg2, out2, word)
                                            /\ tg2.state \in {"HelloSent", "Connected"} => h = tg2.gen
  <2>1. PICK word \in Words, h \in Int : /\ Shape(in, g, word, h) /\ TargetWord(r, tg, out, word)
                                         /\ tg.state \in {"HelloSent", "Connected"} => h = tg.gen
    BY <1>1 DEF TargetSide
  <2>2. TargetWord(r, tg2, out2, word)
    BY <2>1 DEF TargetWord, Moves, Owes
  <2>3. tg2.state \in {"HelloSent", "Connected"} => h = tg2.gen
    BY <2>1 DEF Moves
  <2> QED
    BY <2>1, <2>2, <2>3
<1> QED
  BY <1>1 DEF TargetSide

\* It sends a message that starts or ends no session.
LEMMA TargetSends ==
    ASSUME NEW r, NEW tg, NEW out, NEW in \in Seq(Message), NEW g, TargetSide(r, tg, out, in, g),
           NEW m \in Message, m.type \notin Control,
           m.type = "E" => tg.state \in {"HelloSent", "Connected"} /\ m.gen = tg.gen
    PROVE  TargetSide(r, tg, out, Append(in, m), g)
<1>1. ASSUME TargetOpen(r)
      PROVE  \E word \in Words, h \in Int : /\ Shape(Append(in, m), g, word, h) /\ TargetWord(r, tg, out, word)
                                            /\ tg.state \in {"HelloSent", "Connected"} => h = tg.gen
  <2>1. PICK word \in Words, h \in Int : /\ Shape(in, g, word, h) /\ TargetWord(r, tg, out, word)
                                         /\ tg.state \in {"HelloSent", "Connected"} => h = tg.gen
    BY <1>1 DEF TargetSide
  <2>2. Shape(Append(in, m), g, word, h)
    BY <2>1, ShapePlain
  <2> QED
    BY <2>1, <2>2
<1> QED
  BY <1>1 DEF TargetSide

\* Putting the invariant together after a step of the target.
LEMMA TargetInv ==
    ASSUME IInv, UNCHANGED <<s, client, cq, hq>>, s.state["T"] # "none", target' \in Targets,
           ev' \in [server : Nat, target : Nat], tq' \in Seq(Message), rq' \in Seq(Message),
           AllToTarget(s, tq'), AllFromTarget(s, rq'),
           \A m \in target'.pending : m.type = "C" /\ m.depth = 1,
           AtMostOne(tq', "Hello"), ~Lacks(tq', "Hello") => target'.state \in {"Started", "HelloSent", "closed"},
           NEW g \in Int, ClientSide(s, cq, client, hq, g), TargetSide(s, target', tq', rq', g)
    PROVE  IInv'
<1>1. TypeOK'
  BY DEF IInv, TypeOK, Targets
<1>2. Sessions'
  BY DEF Sessions
<1>3. MailOK(s, target', cq, tq', rq')
  BY DEF IInv, MailOK
<1>4. TargetOK(s, target', tq', rq')
  BY DEF TargetOK
<1> QED
  BY <1>1, <1>2, <1>3, <1>4 DEF IInv

\* What is known of a target that is there.
LEMMA TargetParts ==
    ASSUME IInv, s.state["T"] # "none"
    PROVE  /\ target \in Targets /\ ev \in [server : Nat, target : Nat]
           /\ tq \in Seq(Message) /\ rq \in Seq(Message) /\ AllToTarget(s, tq) /\ AllFromTarget(s, rq)
           /\ \A m \in target.pending : m \in Message /\ m.type = "C" /\ m.depth = 1
           /\ AtMostOne(tq, "Hello") /\ (~Lacks(tq, "Hello") => target.state \in {"Started", "HelloSent", "closed"})
<1>1. target \in Targets /\ ev \in [server : Nat, target : Nat]
  BY DEF IInv, TypeOK, Targets
<1>2. tq \in Seq(Message) /\ rq \in Seq(Message)
  BY InvParts
<1>3. AtMostOne(tq, "Hello") /\ (~Lacks(tq, "Hello") => target.state \in {"Started", "HelloSent", "closed"})
  BY DEF IInv, TargetOK
<1>4. /\ AllToTarget(s, tq) /\ AllFromTarget(s, rq)
      /\ \A m \in target.pending : m.type = "C" /\ m.depth = 1
  BY DEF IInv, MailOK
<1>5. \A m \in target.pending : m \in Message
  BY <1>1 DEF Targets
<1> QED
  BY <1>1, <1>2, <1>3, <1>4, <1>5

\* A message that starts or ends no session is added to the queue of the
\* target, or dropped.
LEMMA SentByTarget ==
    ASSUME NEW m \in Message, rq \in Seq(Message), AllFromTarget(s, rq), FromTarget(s, m), rq' = ToServer("T", rq, m),
           NEW tg, NEW g, NEW out, TargetSide(s, tg, out, rq, g), m.type \notin Control,
           m.type = "E" => tg.state \in {"HelloSent", "Connected"} /\ m.gen = tg.gen
    PROVE  rq' \in Seq(Message) /\ AllFromTarget(s, rq') /\ TargetSide(s, tg, out, rq', g)
<1>1. CASE rq' = rq
  BY <1>1
<1>2. CASE rq' = Append(rq, m)
  <2>1. Append(rq, m) \in Seq(Message)
    BY AppendEntries
  <2>2. AllFromTarget(s, Append(rq, m))
    BY MailAppend
  <2>3. TargetSide(s, tg, out, Append(rq, m), g)
    BY TargetSends
  <2> QED
    BY <1>2, <2>1, <2>2, <2>3
<1> QED
  BY <1>1, <1>2 DEF ToServer

\* An event.
LEMMA TargetEventStep ==
    ASSUME IInv, TargetEvent
    PROVE  IInv'
<1> DEFINE m == Msg("E", 0, 0, target.gen)
<1>1. /\ UNCHANGED <<s, client, target, cq, hq, tq>> /\ target.state = "Connected"
      /\ ev' = [ev EXCEPT !.target = @ + 1] /\ rq' = ToServer("T", rq, m)
  BY DEF TargetEvent
<1>2. s.state["T"] # "none"
  BY <1>1 DEF IInv, TargetOK
<1>3. PICK g \in Int : ClientSide(s, cq, client, hq, g) /\ TargetSide(s, target, tq, rq, g)
  BY InvParts
<1>4. m \in Message /\ m.type = "E" /\ m.gen = target.gen
  <2>1. target.gen \in Nat
    BY <1>2, TargetParts DEF Targets
  <2> QED
    BY <2>1, MsgType DEF Types
<1> HIDE DEF m
<1>5. FromTarget(s, m) /\ m.type \notin Control
  BY <1>4 DEF FromTarget, Control, Answers
<1>6. rq' \in Seq(Message) /\ AllFromTarget(s, rq') /\ TargetSide(s, target, tq, rq', g)
  <2>1. rq \in Seq(Message) /\ AllFromTarget(s, rq)
    BY <1>2, TargetParts
  <2> QED
    BY <1>1, <1>3, <1>4, <1>5, <2>1, SentByTarget
<1>7. ev' \in [server : Nat, target : Nat]
  <2>1. ev \in [server : Nat, target : Nat]
    BY <1>2, TargetParts
  <2>2. ev.target + 1 \in Nat
    BY <2>1
  <2> QED
    BY <1>1, <2>1, <2>2
<1>8. /\ target' = target /\ tq' = tq /\ UNCHANGED <<s, client, cq, hq>>
  BY <1>1
<1>9. /\ target \in Targets /\ tq \in Seq(Message) /\ AllToTarget(s, tq)
      /\ \A n \in target.pending : n.type = "C" /\ n.depth = 1
      /\ AtMostOne(tq, "Hello") /\ (~Lacks(tq, "Hello") => target.state \in {"Started", "HelloSent", "closed"})
  BY <1>2, TargetParts
<1> QED
  BY <1>2, <1>3, <1>6, <1>7, <1>8, <1>9, TargetInv

\* The reply to a command.
LEMMA TargetReplyStep ==
    ASSUME IInv, NEW n \in target.pending, TargetReply(n)
    PROVE  IInv'
<1> DEFINE m == [n EXCEPT !.type = "R"]
           tg == [target EXCEPT !.pending = @ \ {n}]
<1>1. /\ UNCHANGED <<s, client, ev, cq, hq, tq>> /\ target' = tg
      /\ rq' = ToServer("T", rq, m)
  BY DEF TargetReply
<1>2. s.state["T"] # "none"
  BY DEF IInv, TargetOK
<1>3. PICK g \in Int : ClientSide(s, cq, client, hq, g) /\ TargetSide(s, target, tq, rq, g)
  BY InvParts
<1>4. m \in Message /\ m.type = "R" /\ m.depth = 1
  <2>1. n \in Message /\ n.depth = 1
    BY <1>2, TargetParts
  <2> QED
    BY <2>1 DEF Message, Types
<1> HIDE DEF m
<1>5. FromTarget(s, m) /\ m.type \notin Control
  BY <1>4 DEF FromTarget, Control, Answers
<1>6. rq' \in Seq(Message) /\ AllFromTarget(s, rq') /\ TargetSide(s, target, tq, rq', g)
  <2>1. rq \in Seq(Message) /\ AllFromTarget(s, rq)
    BY <1>2, TargetParts
  <2> QED
    BY <1>1, <1>3, <1>4, <1>5, <2>1, SentByTarget
<1>7. /\ tg \in Targets /\ tg.state = target.state /\ tg.gen = target.gen
      /\ tg.pending \subseteq target.pending
  <2>1. target \in Targets
    BY <1>2, TargetParts
  <2>2. target.pending \ {n} \in SUBSET Message
    BY <2>1 DEF Targets
  <2> QED
    BY <2>1, <2>2 DEF Targets
<1> HIDE DEF tg
<1>8. TargetSide(s, tg, tq, rq', g)
  <2>1. Moves(target, tg)
    BY <1>7 DEF Moves
  <2> QED
    BY <1>6, <2>1, TargetMoves
<1>9. /\ tq \in Seq(Message) /\ AllToTarget(s, tq) /\ ev \in [server : Nat, target : Nat]
      /\ \A x \in target.pending : x.type = "C" /\ x.depth = 1
      /\ AtMostOne(tq, "Hello") /\ (~Lacks(tq, "Hello") => target.state \in {"Started", "HelloSent", "closed"})
  BY <1>2, TargetParts
<1>10. /\ \A x \in tg.pending : x.type = "C" /\ x.depth = 1
       /\ ~Lacks(tq, "Hello") => tg.state \in {"Started", "HelloSent", "closed"}
  BY <1>7, <1>9
<1>11. tq' = tq /\ ev' = ev /\ UNCHANGED <<s, client, cq, hq>>
  BY <1>1
<1> QED
  BY <1>1, <1>2, <1>3, <1>6, <1>7, <1>8, <1>9, <1>10, <1>11, TargetInv

\* The target closes the connection.
LEMMA TargetCloseStep ==
    ASSUME IInv, TargetClose
    PROVE  IInv'
<1> DEFINE tg == [target EXCEPT !.state = "closed"]
<1>1. /\ UNCHANGED <<s, client, ev, cq, hq, tq>> /\ target' = tg /\ target.state # "none"
      /\ rq' = ToServer("T", rq, EOS)
  BY DEF TargetClose, EOS
<1>2. s.state["T"] # "none"
  BY <1>1 DEF IInv, TargetOK
<1>3. PICK g \in Int : ClientSide(s, cq, client, hq, g) /\ TargetSide(s, target, tq, rq, g)
  BY InvParts
<1>4. EOS \in Message /\ EOS.type = "EOS"
  BY EndMessages
<1>5. FromTarget(s, EOS) /\ EOS.type \notin Control /\ EOS.type # "E"
  BY <1>4 DEF FromTarget, Control, Answers
<1>6. rq' \in Seq(Message) /\ AllFromTarget(s, rq') /\ TargetSide(s, target, tq, rq', g)
  <2>1. rq \in Seq(Message) /\ AllFromTarget(s, rq)
    BY <1>2, TargetParts
  <2> QED
    BY <1>1, <1>3, <1>4, <1>5, <2>1, SentByTarget
<1>7. tg \in Targets /\ tg.state = "closed" /\ tg.pending = target.pending
  <2>1. target \in Targets
    BY <1>2, TargetParts
  <2> QED
    BY <2>1 DEF Targets
<1> HIDE DEF tg
<1>8. TargetSide(s, tg, tq, rq', g)
  <2>1. Moves(target, tg)
    BY <1>7 DEF Moves
  <2> QED
    BY <1>6, <2>1, TargetMoves
<1>9. /\ tq \in Seq(Message) /\ AllToTarget(s, tq) /\ ev \in [server : Nat, target : Nat]
      /\ \A x \in target.pending : x.type = "C" /\ x.depth = 1
      /\ AtMostOne(tq, "Hello")
  BY <1>2, TargetParts
<1>10. /\ \A x \in tg.pending : x.type = "C" /\ x.depth = 1
       /\ ~Lacks(tq, "Hello") => tg.state \in {"Started", "HelloSent", "closed"}
  BY <1>7, <1>9
<1>11. tq' = tq /\ ev' = ev /\ UNCHANGED <<s, client, cq, hq>>
  BY <1>1
<1> QED
  BY <1>1, <1>2, <1>3, <1>6, <1>7, <1>8, <1>9, <1>10, <1>11, TargetInv

\* The Hello of the target that a redirection led to.
LEMMA TargetSaysHello ==
    ASSUME NEW r, NEW tg, NEW tg2, NEW out, NEW in \in Seq(Message), NEW g, TargetSide(r, tg, out, in, g), Owes(tg),
           tg2.state \in {"HelloSent", "Connected"}, tg2.gen = tg.gen, tg.gen \in Nat,
           NEW m \in Message, m.type = "Hello", m.gen = tg.gen
    PROVE  TargetSide(r, tg2, out, Append(in, m), g)
<1>1. ASSUME TargetOpen(r)
      PROVE  \E word \in Words, h \in Int : /\ Shape(Append(in, m), g, word, h) /\ TargetWord(r, tg2, out, word)
                                            /\ tg2.state \in {"HelloSent", "Connected"} => h = tg2.gen
  <2>1. PICK word \in Words, h \in Int : Shape(in, g, word, h) /\ TargetWord(r, tg, out, word)
    BY <1>1 DEF TargetSide
  <2>2. CASE r.state["T"] = "HelloSent"
    <3>1. word = "none" /\ Lacks(out, "redirect")
      BY <2>1, <2>2 DEF TargetWord
    <3>2. Shape(Append(in, m), g, "Hello", tg.gen)
      BY <2>1, <3>1, ShapeControl DEF Control, After
    <3>3. TargetWord(r, tg2, out, "Hello") /\ "Hello" \in Words /\ tg.gen \in Int
      BY <2>2, <3>1 DEF TargetWord, Owes, Words, Control
    <3> QED
      BY <3>2, <3>3
  <2>3. CASE r.state["T"] = "RedirectSent"
    <3>1. word = "redirected" /\ Lacks(out, "redirect")
      BY <2>1, <2>3 DEF TargetWord
    <3>2. Shape(Append(in, m), g, "both", tg.gen)
      BY <2>1, <3>1, ShapeControl
    <3>3. TargetWord(r, tg2, out, "both") /\ "both" \in Words /\ tg.gen \in Int
      BY <2>3, <3>1 DEF TargetWord, Owes, Words
    <3> QED
      BY <3>2, <3>3
  <2>4. r.state["T"] # "Connected"
    BY <2>1 DEF TargetWord
  <2> QED
    BY <1>1, <2>2, <2>3, <2>4 DEF TargetOpen
<1> QED
  BY <1>1 DEF TargetSide

\* The target says Hello.
LEMMA TargetHelloStep ==
    ASSUME IInv, TargetHello
    PROVE  IInv'
<1> DEFINE m == Msg("Hello", 0, 0, target.gen)
           tg == [target EXCEPT !.state = IF @ = "Started" THEN "HelloSent" ELSE "Connected"]
<1>1. /\ UNCHANGED <<s, client, ev, cq, hq, tq>> /\ target' = tg /\ target.state \in {"Started", "HelloReceived"}
      /\ rq' = ToServer("T", rq, m)
  BY DEF TargetHello
<1>2. s.state["T"] # "none"
  BY <1>1 DEF IInv, TargetOK
<1>3. PICK g \in Int : ClientSide(s, cq, client, hq, g) /\ TargetSide(s, target, tq, rq, g)
  BY InvParts
<1>4. m \in Message /\ m.type = "Hello" /\ m.gen = target.gen /\ target.gen \in Nat
  <2>1. target.gen \in Nat
    BY <1>2, TargetParts DEF Targets
  <2> QED
    BY <2>1, MsgType DEF Types
<1> HIDE DEF m
<1>5. FromTarget(s, m)
  BY <1>4 DEF FromTarget, Control, Answers
<1>6. /\ tg \in Targets /\ tg.state = (IF target.state = "Started" THEN "HelloSent" ELSE "Connected")
      /\ tg.gen = target.gen /\ tg.pending = target.pending
  <2>1. target \in Targets
    BY <1>2, TargetParts
  <2> QED
    BY <2>1 DEF Targets
<1> HIDE DEF tg
<1>7. /\ tq \in Seq(Message) /\ AllToTarget(s, tq) /\ ev \in [server : Nat, target : Nat]
      /\ \A x \in target.pending : x.type = "C" /\ x.depth = 1
      /\ AtMostOne(tq, "Hello") /\ (~Lacks(tq, "Hello") => target.state \in {"Started", "HelloSent", "closed"})
      /\ rq \in Seq(Message) /\ AllFromTarget(s, rq)
  BY <1>2, TargetParts
<1>8. rq' \in Seq(Message) /\ AllFromTarget(s, rq') /\ TargetSide(s, tg, tq, rq', g)
  <2>1. CASE s.state["T"] = "Disconnected"
    <3>1. rq' = rq
      BY <1>1, <2>1 DEF ToServer
    <3>2. TargetSide(s, tg, tq, rq', g)
      BY <2>1, TargetClosed
    <3> QED
      BY <1>7, <3>1, <3>2
  <2>2. CASE s.state["T"] # "Disconnected"
    <3>1. rq' = Append(rq, m)
      BY <1>1, <2>2 DEF ToServer
    <3>2. Append(rq, m) \in Seq(Message)
      BY <1>4, <1>7, AppendEntries
    <3>3. AllFromTarget(s, Append(rq, m))
      BY <1>4, <1>5, <1>7, MailAppend
    <3>4. Owes(target) /\ tg.state \in {"HelloSent", "Connected"}
      BY <1>1, <1>6 DEF Owes
    <3>5. TargetSide(s, tg, tq, Append(rq, m), g)
      BY <1>3, <1>4, <1>6, <1>7, <3>4, TargetSaysHello
    <3> QED
      BY <3>1, <3>2, <3>3, <3>5
  <2> QED
    BY <2>1, <2>2
<1>9. /\ \A x \in tg.pending : x.type = "C" /\ x.depth = 1
      /\ ~Lacks(tq, "Hello") => tg.state \in {"Started", "HelloSent", "closed"}
  BY <1>1, <1>6, <1>7
<1>10. tq' = tq /\ ev' = ev /\ UNCHANGED <<s, client, cq, hq>>
  BY <1>1
<1> QED
  BY <1>1, <1>2, <1>3, <1>6, <1>7, <1>8, <1>9, <1>10, TargetInv

\* The target answers the redirection of the server.
LEMMA TargetAnswers ==
    ASSUME NEW r, NEW tg, NEW tg2, NEW out, NEW out2, NEW in \in Seq(Message), NEW g \in Int,
           TargetSide(r, tg, out, in, g), ~Lacks(out, "redirect"), Lacks(out2, "redirect"), NEW m \in Message,
           \/ m.type = "redirectFailed" /\ tg2.state = tg.state /\ tg2.gen = tg.gen
           \/ m.type = "redirected" /\ tg2.state = "HelloReceived"
    PROVE  TargetSide(r, tg2, out2, Append(in, m), g)
<1>1. ASSUME TargetOpen(r)
      PROVE  \E word \in Words, h \in Int : /\ Shape(Append(in, m), g, word, h) /\ TargetWord(r, tg2, out2, word)
                                            /\ tg2.state \in {"HelloSent", "Connected"} => h = tg2.gen
  <2>1. PICK word \in Words, h \in Int : /\ Shape(in, g, word, h) /\ TargetWord(r, tg, out, word)
                                         /\ tg.state \in {"HelloSent", "Connected"} => h = tg.gen
    BY <1>1 DEF TargetSide
  <2>2. r.state["T"] = "RedirectSent" /\ word = "none" /\ ~Owes(tg)
    BY <1>1, <2>1 DEF TargetWord, TargetOpen
  <2>3. h = g
    BY <2>1, <2>2 DEF Shape, Control
  <2>4. m.type \in Control /\ m.type \in Words
    BY DEF Control, Words
  <2>5. Shape(Append(in, m), g, m.type, After(g, m))
    BY <2>1, <2>2, <2>4, ShapeControl
  <2>6. TargetWord(r, tg2, out2, m.type)
    BY <2>2 DEF TargetWord, Owes
  <2>7. After(g, m) \in Int /\ (tg2.state \in {"HelloSent", "Connected"} => After(g, m) = tg2.gen)
    BY <2>1, <2>3 DEF After
  <2> QED
    BY <2>4, <2>5, <2>6, <2>7
<1> QED
  BY <1>1 DEF TargetSide

\* The target reads a message.
LEMMA TargetReceiveStep ==
    ASSUME IInv, TargetReceive
    PROVE  IInv'
<1> DEFINE m == Head(tq)
           Reply(type) == rq' = ToServer("T", rq, [m EXCEPT !.type = type])
<1>1. /\ UNCHANGED <<s, client, ev, cq, hq>> /\ tq # << >> /\ target.state # "closed" /\ tq' = Tail(tq)
      /\ \/ /\ m.type = "Hello" /\ UNCHANGED rq
            /\ target' = [target EXCEPT !.state = IF @ = "Started" THEN "HelloReceived" ELSE "Connected"]
         \/ m.type = "EOS" /\ target' = [target EXCEPT !.state = "closed"] /\ UNCHANGED rq
         \/ m.type = "C" /\ target' = [target EXCEPT !.pending = @ \cup {m}] /\ UNCHANGED rq
         \/ m.type = "C" /\ Reply("N") /\ UNCHANGED target
         \/ m.type = "redirect" /\ Reply("redirectFailed") /\ UNCHANGED target
         \/ /\ m.type = "redirect" /\ target.state = "Connected" /\ Reply("redirected")
            /\ target' = [target EXCEPT !.state = "HelloReceived", !.gen = @ + 1]
  BY DEF TargetReceive
<1>2. s.state["T"] # "none"
  BY <1>1 DEF IInv, TargetOK
<1>3. PICK g \in Int : ClientSide(s, cq, client, hq, g) /\ TargetSide(s, target, tq, rq, g)
  BY InvParts
<1>4. /\ tq \in Seq(Message) /\ AllToTarget(s, tq) /\ ev \in [server : Nat, target : Nat]
      /\ \A x \in target.pending : x.type = "C" /\ x.depth = 1
      /\ AtMostOne(tq, "Hello") /\ (~Lacks(tq, "Hello") => target.state \in {"Started", "HelloSent", "closed"})
      /\ rq \in Seq(Message) /\ AllFromTarget(s, rq) /\ target \in Targets
  BY <1>2, TargetParts
<1>5. Tail(tq) \in Seq(Message) /\ m \in Message
  BY <1>1, <1>4, TailEntries
<1>6. AllToTarget(s, Tail(tq)) /\ ToTarget(s, m)
  BY <1>1, <1>4, MailTail
<1>7. /\ AtMostOne(Tail(tq), "Hello") /\ (Lacks(tq, "Hello") => Lacks(Tail(tq), "Hello"))
      /\ m.type = "Hello" => Lacks(Tail(tq), "Hello") /\ ~Lacks(tq, "Hello")
  BY <1>1, <1>4, LacksTail
<1>8. /\ Lacks(tq, "redirect") => Lacks(Tail(tq), "redirect")
      /\ AtMostOne(tq, "redirect") => AtMostOne(Tail(tq), "redirect")
      /\ m.type = "redirect" => ~Lacks(tq, "redirect") /\ (AtMostOne(tq, "redirect") => Lacks(Tail(tq), "redirect"))
  BY <1>1, <1>4, LacksTail
<1> HIDE DEF m
<1>9. \A type \in Types : LET n == [m EXCEPT !.type = type]
                          IN  n \in Message /\ n.type = type /\ n.depth = m.depth /\ n.id = m.id
  BY <1>5 DEF Message
<1>10. tq' = Tail(tq) /\ ev' = ev /\ UNCHANGED <<s, client, cq, hq>>
  BY <1>1
<1>11. SUFFICES /\ target' \in Targets /\ rq' \in Seq(Message) /\ AllFromTarget(s, rq')
                /\ \A x \in target'.pending : x.type = "C" /\ x.depth = 1
                /\ ~Lacks(Tail(tq), "Hello") => target'.state \in {"Started", "HelloSent", "closed"}
                /\ TargetSide(s, target', Tail(tq), rq', g)
  BY <1>2, <1>3, <1>4, <1>5, <1>6, <1>7, <1>10, TargetInv
<1>12. CASE /\ m.type = "Hello" /\ UNCHANGED rq
            /\ target' = [target EXCEPT !.state = IF @ = "Started" THEN "HelloReceived" ELSE "Connected"]
  <2>1. target.state \in {"Started", "HelloSent"} /\ Lacks(Tail(tq), "Hello")
    BY <1>1, <1>4, <1>7, <1>12
  <2>2. /\ target' \in Targets /\ target'.gen = target.gen /\ target'.pending = target.pending
        /\ target'.state = IF target.state = "Started" THEN "HelloReceived" ELSE "Connected"
    BY <1>4, <1>12 DEF Targets
  <2>3. Moves(target, target')
    BY <2>1, <2>2 DEF Moves
  <2>4. TargetSide(s, target', Tail(tq), rq, g)
    BY <1>3, <1>8, <2>3, TargetMoves
  <2> QED
    BY <1>4, <1>12, <2>1, <2>2, <2>4
<1>13. CASE m.type = "EOS" /\ target' = [target EXCEPT !.state = "closed"] /\ UNCHANGED rq
  <2>1. target' \in Targets /\ target'.state = "closed" /\ target'.pending = target.pending
    BY <1>4, <1>13 DEF Targets
  <2>2. TargetSide(s, target', Tail(tq), rq, g)
    BY <1>3, <1>8, <2>1, TargetMoves DEF Moves
  <2> QED
    BY <1>4, <1>13, <2>1, <2>2
<1>14. CASE m.type = "C" /\ target' = [target EXCEPT !.pending = @ \cup {m}] /\ UNCHANGED rq
  <2>1. target.pending \cup {m} \in SUBSET Message
    BY <1>4, <1>5 DEF Targets
  <2>2. /\ target' \in Targets /\ target'.state = target.state /\ target'.gen = target.gen
        /\ target'.pending = target.pending \cup {m}
    BY <1>4, <1>14, <2>1 DEF Targets
  <2>3. m.depth = 1
    BY <1>6, <1>14 DEF ToTarget
  <2>4. \A x \in target'.pending : x.type = "C" /\ x.depth = 1
    BY <1>4, <1>14, <2>2, <2>3
  <2>5. Moves(target, target')
    BY <2>2 DEF Moves
  <2>6. TargetSide(s, target', Tail(tq), rq, g)
    BY <1>3, <1>8, <2>5, TargetMoves
  <2> QED
    BY <1>4, <1>7, <1>14, <2>2, <2>4, <2>6
<1>15. CASE m.type = "C" /\ Reply("N") /\ UNCHANGED target
  <2> DEFINE n == [m EXCEPT !.type = "N"]
  <2>1. rq' = ToServer("T", rq, n)
    BY <1>15
  <2>2. n \in Message /\ n.type = "N" /\ n.depth = 1
    <3>1. m.depth = 1
      BY <1>6, <1>15 DEF ToTarget
    <3> QED
      BY <1>9, <3>1 DEF Types
  <2> HIDE DEF n
  <2>3. FromTarget(s, n) /\ n.type \notin Control /\ n.type # "E"
    BY <2>2 DEF FromTarget, Control, Answers
  <2>4. TargetSide(s, target, Tail(tq), rq, g)
    BY <1>3, <1>8, TargetMoves DEF Moves
  <2>5. rq' \in Seq(Message) /\ AllFromTarget(s, rq') /\ TargetSide(s, target, Tail(tq), rq', g)
    BY <1>4, <2>1, <2>2, <2>3, <2>4, SentByTarget
  <2> QED
    BY <1>4, <1>7, <1>15, <2>5
<1>16. CASE \/ m.type = "redirect" /\ Reply("redirectFailed") /\ UNCHANGED target
            \/ /\ m.type = "redirect" /\ target.state = "Connected" /\ Reply("redirected")
               /\ target' = [target EXCEPT !.state = "HelloReceived", !.gen = @ + 1]
  <2>1. PICK type \in Answers :
          /\ Reply(type)
          /\ \/ type = "redirectFailed" /\ UNCHANGED target
             \/ /\ type = "redirected" /\ target.state = "Connected"
                /\ target' = [target EXCEPT !.state = "HelloReceived", !.gen = @ + 1]
    BY <1>16 DEF Answers
  <2> DEFINE n == [m EXCEPT !.type = type]
  <2>2. rq' = ToServer("T", rq, n)
    BY <2>1
  <2>3. type \in Types /\ type \in Control
    BY <2>1 DEF Answers, Types, Control
  <2>4. n \in Message /\ n.type = type /\ n.depth = m.depth /\ n.id = m.id
    BY <1>9, <2>3
  <2> HIDE DEF n
  <2>5. FromTarget(s, n)
    <3>1. s.state["T"] = "RedirectSent" => m.id = s.rtoken /\ m.depth = 0
      BY <1>6, <1>16 DEF ToTarget
    <3>2. n.type \notin {"R", "N"}
      BY <2>1, <2>4 DEF Answers
    <3> QED
      BY <2>3, <2>4, <3>1, <3>2 DEF FromTarget
  <2>6. /\ target' \in Targets /\ target'.pending = target.pending
        /\ \/ type = "redirectFailed" /\ target'.state = target.state /\ target'.gen = target.gen
           \/ type = "redirected" /\ target'.state = "HelloReceived" /\ target.state = "Connected"
    <3>1. target.gen + 1 \in Nat
      BY <1>4 DEF Targets
    <3> QED
      BY <1>4, <2>1, <3>1 DEF Targets
  <2>7. ~Lacks(Tail(tq), "Hello") => target'.state \in {"Started", "HelloSent", "closed"}
    BY <1>4, <1>7, <2>6
  <2>8. rq' \in Seq(Message) /\ AllFromTarget(s, rq') /\ TargetSide(s, target', Tail(tq), rq', g)
    <3>1. CASE s.state["T"] = "Disconnected"
      <4>1. rq' = rq
        BY <2>2, <3>1 DEF ToServer
      <4>2. TargetSide(s, target', Tail(tq), rq, g)
        BY <3>1, TargetClosed
      <4> QED
        BY <1>4, <4>1, <4>2
    <3>2. CASE s.state["T"] # "Disconnected"
      <4>1. rq' = Append(rq, n)
        BY <2>2, <3>2 DEF ToServer
      <4>2. Append(rq, n) \in Seq(Message)
        BY <1>4, <2>4, AppendEntries
      <4>3. AllFromTarget(s, Append(rq, n))
        BY <1>4, <2>4, <2>5, MailAppend
      <4>4. ~Lacks(tq, "redirect") /\ Lacks(Tail(tq), "redirect")
        <5>1. TargetOpen(s)
          BY <1>2, <3>2, InvParts, Open DEF TargetOpen
        <5>2. ~Lacks(tq, "redirect")
          BY <1>8, <1>16
        <5>3. AtMostOne(tq, "redirect")
          BY <1>3, <5>1, <5>2 DEF TargetSide, TargetWord, TargetOpen
        <5> QED
          BY <1>8, <1>16, <5>2, <5>3
      <4>5. TargetSide(s, target', Tail(tq), Append(rq, n), g)
        BY <1>3, <1>4, <2>4, <2>6, <4>4, TargetAnswers
      <4> QED
        BY <4>1, <4>2, <4>3, <4>5
    <3> QED
      BY <3>1, <3>2
  <2> QED
    BY <1>4, <2>6, <2>7, <2>8
<1> QED
  BY <1>1, <1>12, <1>13, <1>14, <1>15, <1>16

-----------------------------------------------------------------------------
(* The theorems.                                                              *)

\* The client is connected to the server, and no target is known.
LEMMA InitInv == Init => IInv
<1> SUFFICES ASSUME Init PROVE IInv
  OBVIOUS
<1>1. /\ s.state["H"] = "Connected" /\ s.state["T"] = "none" /\ s.lock["H"] = 1 /\ s.lock["T"] = 0
      /\ s.proxy = "none" /\ s.bcg = {} /\ s.redirect = "no" /\ s.read = {} /\ s.assert /\ s.out = Empty
      /\ client.state = "Connected" /\ client.gen = 0 /\ target.state = "none" /\ target.pending = {}
      /\ cq = << >> /\ hq = << >> /\ tq = << >> /\ rq = << >>
  BY DEF Init, Chans
<1>2. s \in Server
  BY DEF Init, Server, States, Chans, Empty
<1>3. TypeOK
  BY <1>2 DEF Init, TypeOK
<1>4. ServerOK(s)
  BY <1>1, <1>2 DEF ServerOK, Mode, Is, Books, Holds
<1>5. AskOK(s, cq) /\ ~Asking(s, cq)
  BY <1>1, LacksEmpty DEF AskOK, Asking
<1>6. Sessions
  <2>1. ClientSession(client) = 0 /\ Shape(hq, 0, "none", 0)
    BY <1>1, ShapeEmpty DEF ClientSession
  <2>2. ClientWord(s, cq, client, "none") /\ "none" \in Words
    BY <1>1, <1>5 DEF ClientWord, Words
  <2>3. TargetSide(s, target, tq, rq, 0)
    BY <1>1 DEF TargetSide, TargetOpen
  <2> QED
    BY <2>1, <2>2, <2>3 DEF Sessions, ClientSide
<1>7. MailOK(s, target, cq, tq, rq)
  BY <1>1, MailEmpty DEF MailOK
<1>8. TargetOK(s, target, tq, rq)
  BY <1>1, LacksEmpty DEF TargetOK
<1> QED
  BY <1>1, <1>3, <1>4, <1>5, <1>6, <1>7, <1>8 DEF IInv

\* Every step of the server, the client or a target keeps the invariant.
LEMMA NextInv == IInv /\ [Next]_vars => IInv'
<1> SUFFICES ASSUME IInv, [Next]_vars PROVE IInv'
  OBVIOUS
<1>1. CASE UNCHANGED vars
  BY <1>1 DEF vars, IInv, TypeOK, Sessions
<1>2. CASE ServerNext
  <2>1. CASE HandleHost
    BY <2>1, HandleHostStep
  <2>2. CASE HandleRedirect
    BY <2>2, HandleRedirectStep
  <2>3. CASE HandleTarget
    BY <2>3, HandleTargetStep
  <2>4. ASSUME NEW error \in BOOLEAN, ConnectDone(error) PROVE IInv'
    BY <2>4, ConnectDoneStep
  <2>5. ASSUME NEW c \in Chans, CloseChannel(c) PROVE IInv'
    BY <2>5, CloseChannelStep
  <2>6. ASSUME NEW c \in Chans, ReaderDone(c) PROVE IInv'
    BY <2>6, ReaderDoneStep
  <2>7. CASE Broadcast
    BY <2>7, BroadcastStep
  <2> QED
    BY <1>2, <2>1, <2>2, <2>3, <2>4, <2>5, <2>6, <2>7 DEF ServerNext
<1>3. CASE PeersNext
  <2>1. ASSUME NEW k \in Cmds, ClientSend(k) PROVE IInv'
    BY <2>1, ClientSendStep
  <2>2. CASE ClientRedirect
    BY <2>2, ClientRedirectStep
  <2>3. CASE ClientReceive
    BY <2>3, ClientReceiveStep
  <2>4. CASE ClientClose
    BY <2>4, ClientCloseStep
  <2>5. CASE TargetHello
    BY <2>5, TargetHelloStep
  <2>6. CASE TargetReceive
    BY <2>6, TargetReceiveStep
  <2>7. CASE TargetEvent
    BY <2>7, TargetEventStep
  <2>8. CASE TargetClose
    BY <2>8, TargetCloseStep
  <2>9. ASSUME NEW m \in target.pending, TargetReply(m) PROVE IInv'
    BY <2>9, TargetReplyStep
  <2> QED
    BY <1>3, <2>1, <2>2, <2>3, <2>4, <2>5, <2>6, <2>7, <2>8, <2>9 DEF PeersNext
<1> QED
  BY <1>1, <1>2, <1>3 DEF Next

\* The two channels of a proxy agree: for any client and any targets that
\* follow the protocol, no assertion of proxy.c, protocol.c or discovery.c
\* fails, a channel is open while its proxy lives, and the locks of each
\* channel are those of its reader, its proxy and its redirection.
THEOREM PairCorrect == Spec => []PairSound
<1>1. IInv => PairSound
  <2> SUFFICES ASSUME IInv PROVE PairSound
    OBVIOUS
  <2>1. TypeOK /\ s.assert /\ Mode(s) /\ Books(s)
    BY DEF IInv, ServerOK
  <2>2. /\ s.proxy = "made" /\ s.state["H"] = "Connected" => s.state["T"] \in {"Connected", "RedirectSent"}
        /\ s.proxy = "made" => s.state["H"] # "Disconnected" /\ s.state["T"] # "Disconnected"
        /\ s.redirect = "sent" => s.proxy = "made"
    BY <2>1 DEF Mode, Is
  <2>3. ProxyStates
    BY <2>1, <2>2, TwoChans DEF ProxyStates
  <2>4. LocksBalance
    <3>1. s.bcg = IF s.proxy = "made" THEN Chans ELSE {}
      BY <2>1 DEF Books
    <3>2. s.lock["H"] = (IF "H" \in s.read THEN 0 ELSE 1) + (IF s.proxy = "made" THEN 1 ELSE 0)
                          + (IF s.redirect # "no" THEN 1 ELSE 0)
      BY <2>1 DEF Books, Holds
    <3>3. s.state["T"] # "none" =>
            s.lock["T"] = (IF "T" \in s.read THEN 0 ELSE 1) + (IF s.proxy = "made" THEN 1 ELSE 0) + 0
      BY <2>1 DEF Books, Holds
    <3> QED
      BY <2>2, <3>1, <3>2, <3>3, TwoChans DEF LocksBalance
  <2> QED
    BY <2>3, <2>4 DEF PairSound
<1> QED
  BY <1>1, InitInv, NextInv, PTL DEF Spec

\* The last of the positions that start or end a session.
LEMMA LastOf ==
    ASSUME NEW S, S \subseteq Nat, NEW p \in S, \A x \in S : x <= p
    PROVE  Max(S) = p
<1>1. \A x \in S : (\A y \in S : x >= y) => x = p
  OBVIOUS
<1>2. \A y \in S : p >= y
  OBVIOUS
<1> QED
  BY <1>1, <1>2 DEF Max

\* An event that comes before the first message that starts or ends a session
\* belongs to the session that the client is in.
LEMMA EventOfNow ==
    ASSUME TypeOK, NEW i \in 1..Len(hq), Marks(i) = {}, hq[i].gen = ClientSession(client)
    PROVE  SessionAt(i).type = "Hello" /\ SessionAt(i).gen = hq[i].gen
<1>1. hq[i] \in Message
  BY DEF TypeOK
<1>2. hq[i].gen \in Nat
  BY <1>1 DEF Message
<1>3. client.state # "HelloSent" /\ hq[i].gen = client.gen
  BY <1>2 DEF ClientSession
<1>4. SessionAt(i) = Msg("Hello", 0, 0, client.gen)
  BY <1>3 DEF SessionAt
<1>5. SessionAt(i).type = "Hello" /\ SessionAt(i).gen = client.gen
  BY <1>4 DEF Msg
<1> QED
  BY <1>3, <1>5

\* Every event the client reads belongs to the session it is in when it reads
\* it, however many redirections came before.
THEOREM EventsCorrect == Spec => []EventsInSession
<1>1. IInv => EventsInSession
  <2> SUFFICES ASSUME IInv, client.state # "closed", NEW i \in 1..Len(hq), hq[i].type = "E"
               PROVE  SessionAt(i).type = "Hello" /\ SessionAt(i).gen = hq[i].gen
    BY DEF EventsInSession
  <2> DEFINE now == ClientSession(client)
  <2>1. PICK g \in Int, word \in Words : Shape(hq, now, word, g)
    BY DEF IInv, Sessions, ClientSide
  <2>2. TypeOK /\ hq \in Seq(Message) /\ Len(hq) \in Nat
    BY DEF IInv, TypeOK
  <2>3. hq[i].gen \in Nat
    <3>1. hq[i] \in Message
      BY <2>2
    <3> QED
      BY <3>1 DEF Message
  <2>4. ASSUME NEW k \in Nat, NEW j \in Nat, NEW x, Plain(hq, k, j, x)
        PROVE  /\ k < i /\ i < j => hq[i].gen = x
               /\ \A l \in 1..Len(hq) : k < l /\ l < j => hq[l].type \notin {"Hello", "redirected"}
    BY <2>4 DEF Plain, Control
  <2>5. Marks(i) \subseteq Nat /\ \A l \in Marks(i) : l \in 1..Len(hq) /\ l < i /\ hq[l].type \in {"Hello", "redirected"}
    BY <2>2 DEF Marks
  <2> HIDE DEF now
  <2>6. CASE Plain(hq, 0, Len(hq) + 1, now)
    <3>1. hq[i].gen = now
      BY <2>2, <2>4, <2>6
    <3>2. Marks(i) = {}
      BY <2>2, <2>4, <2>5, <2>6
    <3> QED
      BY <2>2, <3>1, <3>2, EventOfNow DEF now
  <2>7. CASE /\ word \in Control
             /\ \E p \in 1..Len(hq) : /\ hq[p].type = word /\ g = After(now, hq[p])
                                      /\ Plain(hq, 0, p, now) /\ Plain(hq, p, Len(hq) + 1, g)
    <3>1. PICK p \in 1..Len(hq) : /\ hq[p].type = word /\ g = After(now, hq[p])
                                  /\ Plain(hq, 0, p, now) /\ Plain(hq, p, Len(hq) + 1, g)
      BY <2>7
    <3>2. /\ p \in Nat /\ p # i
          /\ i < p => hq[i].gen = now /\ Marks(i) = {}
          /\ p < i => hq[i].gen = g /\ \A l \in Marks(i) : l = p
      <4>1. p \in Nat /\ p # i
        BY <2>7, <3>1 DEF Control
      <4>2. i < p => hq[i].gen = now
        BY <2>4, <3>1, <4>1
      <4>3. p < i => hq[i].gen = g
        BY <2>2, <2>4, <3>1, <4>1
      <4>4. \A l \in Marks(i) : ~(0 < l /\ l < p)
        BY <2>4, <2>5, <3>1, <4>1
      <4>5. \A l \in Marks(i) : ~(p < l /\ l < Len(hq) + 1)
        BY <2>2, <2>4, <2>5, <3>1, <4>1
      <4>6. \A l \in Marks(i) : l = p
        BY <2>2, <2>5, <4>1, <4>4, <4>5
      <4> QED
        BY <2>5, <4>1, <4>2, <4>3, <4>6
    <3>3. CASE i < p
      BY <2>2, <3>2, <3>3, EventOfNow DEF now
    <3>4. CASE p < i /\ word = "redirectFailed"
      <4>1. g = now
        BY <3>1, <3>4 DEF After
      <4>2. Marks(i) = {}
        BY <2>5, <3>1, <3>2, <3>4
      <4> QED
        BY <2>2, <3>2, <3>4, <4>1, <4>2, EventOfNow DEF now
    <3>5. CASE p < i /\ word = "redirected"
      BY <2>3, <3>1, <3>2, <3>5 DEF After
    <3>6. CASE p < i /\ word = "Hello"
      <4>1. g = hq[p].gen
        BY <3>1, <3>6 DEF After
      <4>2. p \in Marks(i)
        BY <3>1, <3>6 DEF Marks
      <4>3. Max(Marks(i)) = p
        BY <2>5, <3>2, <3>6, <4>2, LastOf
      <4> QED
        BY <3>1, <3>2, <3>6, <4>1, <4>2, <4>3 DEF SessionAt
    <3> QED
      BY <2>7, <3>2, <3>3, <3>4, <3>5, <3>6 DEF Control
  <2>8. CASE \E p, q \in 1..Len(hq) :
                /\ p < q /\ hq[p].type = "redirected" /\ hq[q].type = "Hello" /\ g = hq[q].gen
                /\ Plain(hq, 0, p, now) /\ Plain(hq, p, q, -1) /\ Plain(hq, q, Len(hq) + 1, g)
    <3>1. PICK p \in 1..Len(hq), q \in 1..Len(hq) :
                /\ p < q /\ hq[p].type = "redirected" /\ hq[q].type = "Hello" /\ g = hq[q].gen
                /\ Plain(hq, 0, p, now) /\ Plain(hq, p, q, -1) /\ Plain(hq, q, Len(hq) + 1, g)
      BY <2>8
    <3>2. p \in Nat /\ q \in Nat /\ p # i /\ q # i
      BY <3>1
    <3>3. CASE i < p
      <4>1. hq[i].gen = now
        BY <2>4, <3>1, <3>2, <3>3
      <4>2. \A l \in Marks(i) : ~(0 < l /\ l < p)
        BY <2>4, <2>5, <3>1, <3>2
      <4>3. Marks(i) = {}
        BY <2>5, <3>2, <3>3, <4>2
      <4> QED
        BY <2>2, <4>1, <4>3, EventOfNow DEF now
    <3>4. CASE p < i /\ i < q
      BY <2>3, <2>4, <3>1, <3>2, <3>4
    <3>5. CASE q < i
      <4>1. hq[i].gen = g
        BY <2>2, <2>4, <3>1, <3>2, <3>5
      <4>2. \A l \in Marks(i) : ~(q < l /\ l < Len(hq) + 1)
        BY <2>2, <2>4, <2>5, <3>1, <3>2
      <4>3. q \in Marks(i) /\ \A l \in Marks(i) : l <= q
        BY <2>2, <2>5, <3>1, <3>2, <3>5, <4>2 DEF Marks
      <4>4. Max(Marks(i)) = q
        BY <2>5, <4>3, LastOf
      <4> QED
        BY <3>1, <4>1, <4>3, <4>4 DEF SessionAt
    <3> QED
      BY <3>2, <3>3, <3>4, <3>5
  <2> QED
    BY <2>1, <2>6, <2>7, <2>8 DEF Shape
<1> QED
  BY <1>1, InitInv, NextInv, PTL DEF Spec
=============================================================================

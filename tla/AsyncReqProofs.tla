--------------------------- MODULE AsyncReqProofs ---------------------------
(* Proofs about AsyncReq and Shutdown, for every number of workers, channels *)
(* and background requests and every MAX_WORKER_THREADS.                    *)
EXTENDS AsyncReq, ListLemmas, FiniteSetTheorems, TLAPS

-----------------------------------------------------------------------------
(* shutdown.c: what each function does to a well-formed state.              *)

Known(s) == s \in ShutdownRec /\ ActiveExact(s)

\* A shutdown that was started goes on: notify_all() will run again, or an
\* object is left that will report that it stopped.
GoesOn(s) == s.started /\ ~s.complete /\ s.active = << >> => s.notify_pending

\* An object that is not stopped is linked.
LEMMA LinkFacts ==
    ASSUME NEW s, Known(s), NEW o \in Objs, s.state[o] # "STOPPED"
    PROVE  LinkOf(s, o) \in 1..Len(s.active) /\ s.active[LinkOf(s, o)] = o
<1>1. s.active \in Seq(Objs) /\ o \in ToSet(s.active)
  BY DEF Known, ShutdownRec, ActiveExact
<1>2. \E j \in 1..Len(s.active) : s.active[j] = o
  BY <1>1, ToSetSeq
<1> QED BY <1>2 DEF LinkOf

\* shutdown_set_normal().
LEMMA SetNormalFacts ==
    ASSUME NEW s, Known(s), NEW o \in Objs
    PROVE  /\ Known(SetNormal(s, o))
           /\ SetNormal(s, o).state = [s.state EXCEPT ![o] = "NORMAL"]
           /\ SetNormal(s, o).active # << >>
           /\ SetNormal(s, o).started = s.started
           /\ SetNormal(s, o).complete = s.complete
           /\ SetNormal(s, o).notify_pending = s.notify_pending
<1> DEFINE t == SetNormal(s, o)
<1>0. /\ s \in ShutdownRec /\ ActiveExact(s)
      /\ s.state \in [Objs -> {"STOPPED", "NORMAL", "PENDING"}] /\ s.active \in Seq(Objs)
      /\ s.notify_pending \in BOOLEAN /\ s.started \in BOOLEAN /\ s.complete \in BOOLEAN
  BY DEF Known, ShutdownRec
<1>1. CASE s.state[o] = "NORMAL"
  <2>1. t = s
    BY <1>1 DEF SetNormal
  <2>2. o \in ToSet(s.active)
    BY <1>0, <1>1 DEF ActiveExact
  <2>3. s.active # << >>
    BY <2>2 DEF ToSet
  <2>4. s.state = [s.state EXCEPT ![o] = "NORMAL"]
    BY <1>0, <1>1
  <2> QED BY <2>1, <2>3, <2>4
<1>2. CASE s.state[o] # "NORMAL"
  <2> DEFINE a == IF s.state[o] = "STOPPED" THEN Append(s.active, o) ELSE s.active
             f == [s.state EXCEPT ![o] = "NORMAL"]
  <2>1. f \in [Objs -> {"STOPPED", "NORMAL", "PENDING"}]
        /\ \A p \in Objs : f[p] = IF p = o THEN "NORMAL" ELSE s.state[p]
    BY <1>0
  <2>2. /\ a \in Seq(Objs)
        /\ ToSet(a) = {p \in Objs : f[p] # "STOPPED"}
        /\ NoRepeat(a)
        /\ a # << >>
    <3>1. CASE s.state[o] = "STOPPED"
      <4>1. o \notin ToSet(s.active) /\ NoRepeat(s.active)
        BY <1>0, <3>1 DEF ActiveExact, NoRepeat
      <4>2. /\ a = Append(s.active, o) /\ a \in Seq(Objs) /\ Len(a) = Len(s.active) + 1
            /\ ToSet(a) = ToSet(s.active) \cup {o} /\ NoRepeat(a)
        BY <1>0, <3>1, <4>1, AppendMembers
      <4> HIDE DEF a, f
      <4>3. a # << >>
        <5>1. Len(s.active) \in Nat
          BY <1>0
        <5> QED BY <5>1, <4>2
      <4>4. ToSet(a) = {p \in Objs : f[p] # "STOPPED"}
        BY <1>0, <2>1, <4>2 DEF ActiveExact
      <4> QED BY <4>2, <4>3, <4>4
    <3>2. CASE s.state[o] # "STOPPED"
      <4>1. a = s.active /\ o \in ToSet(s.active)
        BY <1>0, <3>2 DEF ActiveExact
      <4>2. a # << >>
        BY <4>1 DEF ToSet
      <4> HIDE DEF a, f
      <4>3. ToSet(a) = {p \in Objs : f[p] # "STOPPED"}
        BY <1>0, <2>1, <3>2, <4>1 DEF ActiveExact
      <4> QED BY <1>0, <4>1, <4>2, <4>3 DEF ActiveExact, NoRepeat
    <3> QED BY <3>1, <3>2
  <2>3. t = [s EXCEPT !.state = f, !.active = a]
    BY <1>0, <1>2 DEF SetNormal, ShutdownRec
  <2> HIDE DEF a, f, t
  <2>4. /\ t \in ShutdownRec /\ t.state = f /\ t.active = a /\ t.started = s.started
        /\ t.complete = s.complete /\ t.notify_pending = s.notify_pending
    BY <1>0, <2>1, <2>2, <2>3 DEF ShutdownRec
  <2>5. ActiveExact(t)
    BY <2>2, <2>4 DEF ActiveExact, NoRepeat
  <2> QED BY <2>2, <2>4, <2>5 DEF Known, t, f
<1> QED BY <1>1, <1>2

\* shutdown_set_stopped().
LEMMA SetStoppedFacts ==
    ASSUME NEW s, Known(s), NEW o \in Objs
    PROVE  /\ Known(SetStopped(s, o))
           /\ SetStopped(s, o).state = [s.state EXCEPT ![o] = "STOPPED"]
           /\ SetStopped(s, o).started = s.started
           /\ SetStopped(s, o).complete = s.complete
           /\ GoesOn(s) => GoesOn(SetStopped(s, o))
<1> DEFINE t == SetStopped(s, o)
<1>0. /\ s \in ShutdownRec /\ ActiveExact(s)
      /\ s.state \in [Objs -> {"STOPPED", "NORMAL", "PENDING"}] /\ s.active \in Seq(Objs)
      /\ s.notify_pending \in BOOLEAN /\ s.started \in BOOLEAN /\ s.complete \in BOOLEAN
  BY DEF Known, ShutdownRec
<1>1. CASE s.state[o] = "STOPPED"
  <2>1. t = s
    BY <1>1 DEF SetStopped
  <2>2. s.state = [s.state EXCEPT ![o] = "STOPPED"]
    BY <1>0, <1>1
  <2> QED BY <2>1, <2>2
<1>2. CASE s.state[o] # "STOPPED"
  <2> DEFINE a == RemoveAt(s.active, LinkOf(s, o))
             f == [s.state EXCEPT ![o] = "STOPPED"]
             n == s.notify_pending \/ s.started
  <2>1. f \in [Objs -> {"STOPPED", "NORMAL", "PENDING"}]
        /\ \A p \in Objs : f[p] = IF p = o THEN "STOPPED" ELSE s.state[p]
    BY <1>0
  <2>2. LinkOf(s, o) \in 1..Len(s.active) /\ s.active[LinkOf(s, o)] = o
    BY <1>0, <1>2, LinkFacts
  <2>3. a \in Seq(Objs) /\ ToSet(a) = ToSet(s.active) \ {o} /\ NoRepeat(a)
    BY <1>0, <2>2, RemoveAtMembers DEF ActiveExact, NoRepeat
  <2>4. t = [s EXCEPT !.state = f, !.active = a, !.notify_pending = n]
    BY <1>0, <1>2 DEF SetStopped, ShutdownRec
  <2>5. n \in BOOLEAN /\ (s.started => n)
    BY <1>0
  <2> HIDE DEF a, f, n, t
  <2>6. /\ t \in ShutdownRec /\ t.state = f /\ t.active = a /\ t.started = s.started
        /\ t.complete = s.complete /\ t.notify_pending = n
    BY <1>0, <2>1, <2>3, <2>4, <2>5 DEF ShutdownRec
  <2>7. ToSet(a) = {p \in Objs : f[p] # "STOPPED"}
    BY <1>0, <2>1, <2>3 DEF ActiveExact
  <2>8. ActiveExact(t)
    BY <2>3, <2>6, <2>7 DEF ActiveExact, NoRepeat
  <2>9. GoesOn(t)
    BY <2>5, <2>6 DEF GoesOn
  <2> QED BY <2>6, <2>8, <2>9 DEF Known, t, f
<1> QED BY <1>1, <1>2

\* The other functions of shutdown.c keep the list as it is.
LEMMA StartFacts ==
    ASSUME NEW s, Known(s)
    PROVE  /\ Known(Start(s))
           /\ Start(s).state = s.state
           /\ Start(s).active = s.active
           /\ Start(s).complete = s.complete
           /\ Start(s).started
           /\ GoesOn(s) => GoesOn(Start(s))
<1>1. CASE s.started
  BY <1>1 DEF Start
<1>2. CASE ~s.started
  <2>1. Start(s) = [s EXCEPT !.started = TRUE, !.notify_pending = TRUE]
    BY <1>2 DEF Start
  <2>2. /\ Start(s) \in ShutdownRec /\ Start(s).state = s.state
        /\ Start(s).active = s.active /\ Start(s).complete = s.complete
        /\ Start(s).started = TRUE /\ Start(s).notify_pending = TRUE
    BY <2>1 DEF Known, ShutdownRec
  <2> QED BY <2>2 DEF Known, ActiveExact, GoesOn
<1> QED BY <1>1, <1>2

\* The head of notify_all(): it clears the pending flag and completes the
\* shutdown exactly if no object is registered.
LEMMA NotifyBeginFacts ==
    ASSUME NEW s, Known(s), s.complete = FALSE
    PROVE  /\ Known(NotifyBegin(s))
           /\ NotifyBegin(s).state = s.state
           /\ NotifyBegin(s).active = s.active
           /\ NotifyBegin(s).started = s.started
           /\ NotifyBegin(s).notify_pending = FALSE
           /\ NotifyBegin(s).complete <=> s.active = << >>
<1> DEFINE b == s.active = << >>
           t == NotifyBegin(s)
<1>0. s \in ShutdownRec /\ ActiveExact(s) /\ b \in BOOLEAN
  BY DEF Known
<1>1. t = [s EXCEPT !.notify_pending = FALSE, !.complete = b]
  BY <1>0 DEF NotifyBegin, ShutdownRec
<1> HIDE DEF b, t
<1>2. /\ t \in ShutdownRec /\ t.state = s.state /\ t.active = s.active
      /\ t.started = s.started /\ t.notify_pending = FALSE /\ t.complete = b
  BY <1>0, <1>1 DEF ShutdownRec
<1>3. Known(t)
  BY <1>0, <1>2 DEF Known, ActiveExact
<1> QED BY <1>2, <1>3 DEF t, b

\* notify_all() marks an object it visits and changes nothing else.
LEMMA NotifyVisitFacts ==
    ASSUME NEW s, Known(s), NEW o \in Objs, s.state[o] # "STOPPED"
    PROVE  /\ Known(NotifyVisit(s, o))
           /\ NotifyVisit(s, o).state = [s.state EXCEPT ![o] = "PENDING"]
           /\ NotifyVisit(s, o).active = s.active
           /\ NotifyVisit(s, o).started = s.started
           /\ NotifyVisit(s, o).complete = s.complete
           /\ NotifyVisit(s, o).notify_pending = s.notify_pending
<1> DEFINE f == [s.state EXCEPT ![o] = "PENDING"]
           t == NotifyVisit(s, o)
<1>0. /\ s \in ShutdownRec /\ ActiveExact(s)
      /\ s.state \in [Objs -> {"STOPPED", "NORMAL", "PENDING"}]
  BY DEF Known, ShutdownRec
<1>1. f \in [Objs -> {"STOPPED", "NORMAL", "PENDING"}]
      /\ \A p \in Objs : f[p] = IF p = o THEN "PENDING" ELSE s.state[p]
  BY <1>0
<1>2. t = [s EXCEPT !.state = f]
  BY <1>0 DEF NotifyVisit, ShutdownRec
<1> HIDE DEF f, t
<1>3. /\ t \in ShutdownRec /\ t.state = f /\ t.active = s.active
      /\ t.started = s.started /\ t.notify_pending = s.notify_pending /\ t.complete = s.complete
  BY <1>0, <1>1, <1>2 DEF ShutdownRec
<1>4. {p \in Objs : f[p] # "STOPPED"} = {p \in Objs : s.state[p] # "STOPPED"}
  BY <1>1
<1>5. Known(t)
  BY <1>0, <1>3, <1>4 DEF Known, ActiveExact
<1> QED BY <1>3, <1>5 DEF t, f

\* The saved pointer of notify_all() is NULL or a linked object.
LEMMA NextActiveFacts ==
    ASSUME NEW s, Known(s), NEW o \in Objs, s.state[o] # "STOPPED", NEW end
    PROVE  \/ NextActive(s, o, end) = end
           \/ NextActive(s, o, end) \in Objs /\ s.state[NextActive(s, o, end)] # "STOPPED"
<1> DEFINE i == LinkOf(s, o)
           n == NextActive(s, o, end)
<1>0. s.active \in Seq(Objs) /\ ActiveExact(s)
  BY DEF Known, ShutdownRec
<1>1. i \in 1..Len(s.active)
  BY LinkFacts
<1>2. CASE i = Len(s.active)
  BY <1>2 DEF NextActive
<1>3. CASE i # Len(s.active)
  <2>1. n = s.active[i + 1]
    BY <1>3 DEF NextActive
  <2> HIDE DEF i, n
  <2>2. i + 1 \in 1..Len(s.active)
    BY <1>0, <1>1, <1>3
  <2>3. n \in ToSet(s.active)
    BY <1>0, <2>1, <2>2, ToSetSeq
  <2>4. n \in Objs /\ s.state[n] # "STOPPED"
    BY <2>3, <1>0 DEF ActiveExact
  <2> QED BY <2>4 DEF n
<1> QED BY <1>2, <1>3

-----------------------------------------------------------------------------
(* The inductive invariant.                                                 *)

Live == {w \in Workers : wpc[w] # "none"}

\* The books of the pool.
Books ==
    /\ Len(wtlist) <= MaxIdle
    /\ ToSet(wtlist) = {w \in Workers : wpc[w] = "idle"}
    /\ NoRepeat(wtlist)
    /\ \A w \in Workers : wpc[w] = "run" <=> wreq[w] # None
    /\ wtrunning_count = Cardinality(Live)

\* What a posted event says of the thread that posted it, and of its request.
EventsTrue ==
    /\ \A w \in Workers : ExitEv(w) \in posted => wpc[w] = "exited"
    /\ \A w \in Workers, r \in Reqs : DoneEv(r, w) \in posted => wpc[w] # "none"
    /\ \A r \in Reqs : AddEv(r) \in posted => r.kind = "bg"

\* Where a request is.
RunBy(r)  == {w \in Workers : wreq[w] = r}
InPost(r) == posted \cap (DoneEvs(r) \cup {AddEv(r)})
Free(r)    == RunBy(r) = {} /\ InPost(r) = {}
Running(r) == (\E w \in Workers : RunBy(r) = {w}) /\ InPost(r) = {}
Waiting(r) == RunBy(r) = {} /\ \E e \in posted : InPost(r) = {e}
OnePlace(r) == Free(r) \/ Running(r) \/ Waiting(r)

\* The requests of channel c are the ones its state calls for.
ChanReqs(c) ==
    /\ chan[c] \in {"connecting", "open", "closing"} <=> ~Free(ReadReq(c))
    /\ chan[c] = "draining" => ~Free(WriteReq(c))
    /\ chan[c] \in {"none", "connecting", "open"} => Free(WriteReq(c))
Requests == (\A r \in Reqs : OnePlace(r)) /\ (\A c \in Chans : ChanReqs(c))

\* A channel that has registered.
Registered(x) == x \notin {"none", "connecting"}

\* shutdown.c and the loop of notify_all().
Manager ==
    /\ Known(sd)
    /\ GoesOn(sd)
    /\ sd.notify_pending => sd.started
    /\ sd.complete => sd.started /\ sd.active = << >> /\ dpc = "idle"
    /\ dpc = "idle" => iter = None
    /\ iter # None => sd.state[iter] # "STOPPED"
    /\ sd.state["async"] # "STOPPED" <=> wtrunning_count > 0
    /\ sd.state["channel"] # "STOPPED" <=> \E c \in Chans : Registered(chan[c])

IInv == TypeOK /\ Books /\ EventsTrue /\ Requests /\ NoSleeperLeft /\ Manager

-----------------------------------------------------------------------------
(* Events and requests.                                                     *)

AllEvs == (UNION {DoneEvs(r) : r \in Reqs}) \cup {AddEv(r) : r \in Reqs}
          \cup {ExitEv(w) : w \in Workers}

\* Requests of different kinds or channels are different.
LEMMA ReqShapes ==
    /\ \A c \in Chans : ReadReq(c) \in Reqs /\ WriteReq(c) \in Reqs
    /\ \A c, d \in Chans : /\ ReadReq(c) # WriteReq(d)
                           /\ ReadReq(c) = ReadReq(d) => c = d
                           /\ WriteReq(c) = WriteReq(d) => c = d
    /\ \A c \in Chans : ReadReq(c).kind # "bg" /\ WriteReq(c).kind # "bg"
    /\ \A b \in BgReqs : [chan |-> b, kind |-> "bg"] \in Reqs
  BY DEF ReadReq, WriteReq, Reqs

\* Events of different kinds, requests or workers are different.
LEMMA EvShapes ==
    /\ \A q, r, v, w : DoneEv(q, v) = DoneEv(r, w) => q = r /\ v = w
    /\ \A q, r : AddEv(q) = AddEv(r) => q = r
    /\ \A v, w : ExitEv(v) = ExitEv(w) => v = w
    /\ \A q, r, v, w : DoneEv(q, v) # AddEv(r) /\ DoneEv(q, v) # ExitEv(w) /\ AddEv(q) # ExitEv(w)
    /\ \A q, w : DoneEv(q, w).by = w
  BY DEF DoneEv, AddEv, ExitEv

\* The events that are posted are of the three kinds.
LEMMA EvTypes ==
    /\ \A r \in Reqs, w \in Workers : DoneEv(r, w) \in AllEvs
    /\ \A r \in Reqs : AddEv(r) \in AllEvs
    /\ \A w \in Workers : ExitEv(w) \in AllEvs
    /\ \A r \in Reqs : DoneEvs(r) \subseteq AllEvs
<1>1. \A r \in Reqs : DoneEvs(r) \subseteq UNION {DoneEvs(q) : q \in Reqs}
  OBVIOUS
<1>2. \A r \in Reqs, w \in Workers : DoneEv(r, w) \in DoneEvs(r)
  BY DEF DoneEvs
<1> DEFINE D == UNION {DoneEvs(r) : r \in Reqs}
<1>3. AllEvs = D \cup {AddEv(r) : r \in Reqs} \cup {ExitEv(w) : w \in Workers}
  BY Zenon DEF AllEvs
<1>4. \A r \in Reqs : DoneEvs(r) \subseteq D
  BY <1>1
<1> HIDE DEF D
<1>5. (\A r \in Reqs : AddEv(r) \in AllEvs) /\ (\A w \in Workers : ExitEv(w) \in AllEvs)
  BY <1>3, Zenon
<1> QED BY <1>2, <1>3, <1>4, <1>5, Zenon

\* What happens to one request.
Kept(r) == RunBy(r)' = RunBy(r) /\ InPost(r)' = InPost(r)

\* A request that stays with its worker and its event is as free as before, and
\* is still in one place.
LEMMA KeptFacts ==
    ASSUME NEW r \in Reqs, Kept(r)
    PROVE  (Free(r)' <=> Free(r)) /\ (OnePlace(r) => OnePlace(r)')
<1>1. RunBy(r)' = RunBy(r) /\ InPost(r)' = InPost(r)
  BY DEF Kept
<1>2. (Free(r)' <=> Free(r)) /\ (Running(r)' <=> Running(r))
  BY <1>1 DEF Free, Running
<1>3. Waiting(r) => Waiting(r)'
  <2>1. \A e : InPost(r)' = {e} => e \in posted'
    BY DEF InPost
  <2> QED BY <1>1, <2>1 DEF Waiting
<1> QED BY <1>2, <1>3 DEF OnePlace

\* Outstanding, in these terms.
LEMMA OutstandingFree ==
    ASSUME NEW r \in Reqs
    PROVE  Outstanding(r) <=> ~Free(r)
  BY DEF Outstanding, Free, RunBy, InPost

\* The worker of r, while it runs.
LEMMA HandFacts ==
    ASSUME TypeOK, NEW r \in Reqs \cup {TimerReq, ShutdownReq}, NEW w \in Workers, wreq[w] = None,
           wreq' = [wreq EXCEPT ![w] = r]
    PROVE  /\ r \in Reqs => RunBy(r)' = RunBy(r) \cup {w}
           /\ \A q \in Reqs : q # r => RunBy(q)' = RunBy(q)
<1>1. \A v \in Workers : wreq'[v] = IF v = w THEN r ELSE wreq[v]
  BY DEF TypeOK
<1>2. \A q \in Reqs : q # None
  BY NullAssumption
<1>3. r \in Reqs => RunBy(r)' = RunBy(r) \cup {w}
  BY <1>1, <1>2 DEF RunBy
<1>4. \A q \in Reqs : q # r => RunBy(q)' = RunBy(q)
  BY <1>1, <1>2 DEF RunBy
<1> QED BY <1>3, <1>4

\* A worker that drops its request takes it from no other worker.
LEMMA DropFacts ==
    ASSUME TypeOK, NEW w \in Workers, wreq' = [wreq EXCEPT ![w] = None]
    PROVE  \A q \in Reqs : RunBy(q)' = RunBy(q) \ {w} /\ (q # wreq[w] => RunBy(q)' = RunBy(q))
<1>1. \A v \in Workers : wreq'[v] = IF v = w THEN None ELSE wreq[v]
  BY DEF TypeOK
<1>2. \A q \in Reqs : q # None
  BY NullAssumption
<1>3. \A q \in Reqs : RunBy(q)' = RunBy(q) \ {w}
  BY <1>1, <1>2 DEF RunBy
<1>4. \A q \in Reqs : q # wreq[w] => w \notin RunBy(q)
  BY DEF RunBy
<1> QED BY <1>3, <1>4

\* The events of the requests, as events are posted and dispatched.
LEMMA PostFacts ==
    ASSUME NEW r \in Reqs, NEW e \in DoneEvs(r) \cup {AddEv(r)}, posted' = posted \cup {e}
    PROVE  InPost(r)' = InPost(r) \cup {e} /\ \A q \in Reqs : q # r => InPost(q)' = InPost(q)
<1>1. \A q \in Reqs : q # r => e \notin DoneEvs(q) \cup {AddEv(q)}
  BY EvShapes DEF DoneEvs
<1> QED BY <1>1 DEF InPost, DoneEvs, DoneEv, AddEv

\* Taking events of one request off the queue leaves those of the others.
LEMMA TakeFacts ==
    ASSUME NEW r \in Reqs, NEW D \in SUBSET (DoneEvs(r) \cup {AddEv(r)}), posted' = posted \ D
    PROVE  InPost(r)' = InPost(r) \ D /\ \A q \in Reqs : q # r => InPost(q)' = InPost(q)
<1>1. \A q \in Reqs : q # r => (DoneEvs(q) \cup {AddEv(q)}) \cap D = {}
  BY EvShapes DEF DoneEvs
<1> QED BY <1>1 DEF InPost, DoneEvs, DoneEv, AddEv

\* The event by which a worker reports its exit belongs to no request.
LEMMA ExitPostFacts ==
    ASSUME NEW w \in Workers, posted' = posted \cup {ExitEv(w)} \/ posted' = posted \ {ExitEv(w)}
    PROVE  \A q \in Reqs : InPost(q)' = InPost(q)
<1>1. \A q \in Reqs : ExitEv(w) \notin DoneEvs(q) \cup {AddEv(q)}
  BY EvShapes DEF DoneEvs
<1> QED BY <1>1 DEF InPost, DoneEvs, DoneEv, AddEv

-----------------------------------------------------------------------------
(* The pool.                                                                *)

PoolTypes ==
    /\ wpc \in [Workers -> {"none", "run", "idle", "leaving", "exited"}]
    /\ wreq \in [Workers -> Reqs \cup {None, TimerReq, ShutdownReq}]
    /\ wtlist \in Seq(Workers)
    /\ wtrunning_count \in 0..Cardinality(Workers)

\* Sets of workers are finite, so wtrunning_count can be compared with them.
LEMMA ThreadSets ==
    ASSUME NEW S \in SUBSET Workers
    PROVE  /\ IsFiniteSet(S) /\ Cardinality(S) \in 0..Cardinality(Workers)
           /\ Cardinality(S) = 0 <=> S = {}
           /\ Cardinality(S) > 0 <=> S # {}
<1>1. IsFiniteSet(Workers)
  BY ConstantAssumption
<1>2. IsFiniteSet(S) /\ Cardinality(S) <= Cardinality(Workers)
  BY <1>1, FS_Subset
<1>3. Cardinality(S) \in Nat /\ Cardinality(Workers) \in Nat
  BY <1>1, <1>2, FS_CardinalityType
<1>4. Cardinality(S) = 0 <=> S = {}
  BY <1>2, FS_EmptySet
<1> QED BY <1>2, <1>3, <1>4

\* A thread that is created.
LEMMA NewThread ==
    ASSUME PoolTypes, Books, NEW w \in Workers, wpc[w] = "none",
           NEW r \in Reqs \cup {TimerReq},
           wpc' = [wpc EXCEPT ![w] = "run"], wreq' = [wreq EXCEPT ![w] = r],
           wtrunning_count' = wtrunning_count + 1, wtlist' = wtlist
    PROVE  PoolTypes' /\ Books' /\ wtrunning_count' > 0 /\ wreq[w] = None
<1>1. \A v \in Workers : wpc'[v] = IF v = w THEN "run" ELSE wpc[v]
  BY DEF PoolTypes
<1>2. \A v \in Workers : wreq'[v] = IF v = w THEN r ELSE wreq[v]
  BY DEF PoolTypes
<1>3. r # None
  BY NullAssumption
<1>4. Live' = Live \cup {w} /\ w \notin Live
  BY <1>1 DEF Live
<1>5. IsFiniteSet(Live) /\ Cardinality(Live) \in Nat
  BY ThreadSets DEF Live
<1>6. Cardinality(Live') = Cardinality(Live) + 1
  BY <1>4, <1>5, FS_AddElement
<1>7. Cardinality(Live') \in 0..Cardinality(Workers)
  <2>1. Live' \in SUBSET Workers
    BY DEF Live
  <2> QED BY <2>1, ThreadSets
<1>8. wtrunning_count' = Cardinality(Live')
  BY <1>6 DEF Books
<1>9. wtrunning_count' > 0
  BY <1>5, <1>6, <1>8
<1>10. PoolTypes'
  <2>1. wpc' \in [Workers -> {"none", "run", "idle", "leaving", "exited"}]
    BY DEF PoolTypes
  <2>2. wreq' \in [Workers -> Reqs \cup {None, TimerReq, ShutdownReq}]
    BY DEF PoolTypes
  <2> QED BY <1>7, <1>8, <2>1, <2>2 DEF PoolTypes
<1>11. ToSet(wtlist)' = {v \in Workers : wpc'[v] = "idle"}
  BY <1>1 DEF Books
<1>12. NoRepeat(wtlist)'
  BY DEF Books, NoRepeat
<1>13. \A v \in Workers : wpc'[v] = "run" <=> wreq'[v] # None
  BY <1>1, <1>2, <1>3 DEF Books
<1>14. Books'
  BY <1>8, <1>11, <1>12, <1>13 DEF Books
<1>15. wreq[w] = None
  BY DEF Books
<1> QED BY <1>9, <1>10, <1>14, <1>15

\* The first idle worker is unlinked and given a request.
LEMMA WakeFirst ==
    ASSUME PoolTypes, Books, wtlist # << >>, NEW w, w = Head(wtlist),
           NEW r \in Reqs \cup {TimerReq},
           wpc' = [wpc EXCEPT ![w] = "run"], wreq' = [wreq EXCEPT ![w] = r],
           wtrunning_count' = wtrunning_count, wtlist' = Tail(wtlist)
    PROVE  PoolTypes' /\ Books' /\ wtrunning_count > 0 /\ w \in Workers
           /\ wpc[w] = "idle" /\ wreq[w] = None
<1>0. /\ wtlist \in Seq(Workers) /\ Len(wtlist) \in Nat /\ MaxIdle \in Nat
      /\ Len(wtlist) <= MaxIdle /\ NoRepeat(wtlist)
  BY ConstantAssumption DEF PoolTypes, Books
<1>1. w \in Workers /\ wtlist' \in Seq(Workers) /\ Len(wtlist') = Len(wtlist) - 1
  BY <1>0, TailMembers
<1>2. ToSet(wtlist') = ToSet(wtlist) \ {w} /\ NoRepeat(wtlist') /\ w \in ToSet(wtlist)
  BY <1>0, TailMembers
<1>3. wpc[w] = "idle" /\ wreq[w] = None
  BY <1>1, <1>2 DEF Books
<1>4. \A v \in Workers : wpc'[v] = IF v = w THEN "run" ELSE wpc[v]
  BY DEF PoolTypes
<1>5. \A v \in Workers : wreq'[v] = IF v = w THEN r ELSE wreq[v]
  BY DEF PoolTypes
<1>6. r # None
  BY NullAssumption
<1>7. Live' = Live /\ Live # {} /\ Live \in SUBSET Workers
  BY <1>1, <1>3, <1>4 DEF Live
<1>8. wtrunning_count > 0 /\ wtrunning_count' = Cardinality(Live')
  BY <1>7, ThreadSets DEF Books
<1>9. PoolTypes'
  <2>1. wpc' \in [Workers -> {"none", "run", "idle", "leaving", "exited"}]
    BY DEF PoolTypes
  <2>2. wreq' \in [Workers -> Reqs \cup {None, TimerReq, ShutdownReq}]
    BY DEF PoolTypes
  <2> QED BY <1>1, <2>1, <2>2 DEF PoolTypes
<1>10. Books'
  <2>1. ToSet(wtlist') = {v \in Workers : wpc'[v] = "idle"}
    BY <1>1, <1>2, <1>4 DEF Books
  <2>2. \A v \in Workers : wpc'[v] = "run" <=> wreq'[v] # None
    BY <1>4, <1>5, <1>6 DEF Books
  <2>3. Len(wtlist') <= MaxIdle
    BY <1>0, <1>1
  <2> QED BY <1>2, <1>8, <2>1, <2>2, <2>3 DEF Books, NoRepeat
<1> QED BY <1>1, <1>3, <1>8, <1>9, <1>10

\* A worker that has a request gives it up and joins the list, or leaves.
LEMMA WorkerEnds ==
    ASSUME PoolTypes, Books, NEW w \in Workers, wpc[w] = "run",
           wreq' = [wreq EXCEPT ![w] = None], wtrunning_count' = wtrunning_count,
           \/ wpc' = [wpc EXCEPT ![w] = "leaving"] /\ wtlist' = wtlist
           \/ /\ wpc' = [wpc EXCEPT ![w] = "idle"] /\ wtlist' = Append(wtlist, w)
              /\ ~(Len(wtlist) >= MaxIdle)
    PROVE  PoolTypes' /\ Books'
<1>0. wtlist \in Seq(Workers) /\ Len(wtlist) \in Nat /\ MaxIdle \in Nat /\ NoRepeat(wtlist)
  BY ConstantAssumption DEF PoolTypes, Books
<1>1. w \notin ToSet(wtlist)
  BY DEF Books
<1>2. PICK x \in {"leaving", "idle"} : wpc' = [wpc EXCEPT ![w] = x]
  OBVIOUS
<1>3. \A v \in Workers : wpc'[v] = IF v = w THEN x ELSE wpc[v]
  BY <1>2 DEF PoolTypes
<1>4. \A v \in Workers : wreq'[v] = IF v = w THEN None ELSE wreq[v]
  BY DEF PoolTypes
<1>5. Live' = Live
  BY <1>3 DEF Live
<1>6. wpc' \in [Workers -> {"none", "run", "idle", "leaving", "exited"}]
  BY <1>2 DEF PoolTypes
<1>7. wreq' \in [Workers -> Reqs \cup {None, TimerReq, ShutdownReq}]
  BY DEF PoolTypes
<1>8. \A v \in Workers : wpc'[v] = "run" <=> wreq'[v] # None
  BY <1>3, <1>4 DEF Books
<1>9. wtrunning_count' = Cardinality(Live')
  BY <1>5 DEF Books
<1>10. /\ wtlist' \in Seq(Workers) /\ Len(wtlist') <= MaxIdle /\ NoRepeat(wtlist')
       /\ ToSet(wtlist') = {v \in Workers : wpc'[v] = "idle"}
  <2>1. CASE wpc' = [wpc EXCEPT ![w] = "leaving"] /\ wtlist' = wtlist
    <3>1. wpc'[w] = "leaving"
      BY <2>1 DEF PoolTypes
    <3> QED BY <1>0, <1>1, <1>3, <2>1, <3>1 DEF Books
  <2>2. CASE /\ wpc' = [wpc EXCEPT ![w] = "idle"] /\ wtlist' = Append(wtlist, w)
             /\ ~(Len(wtlist) >= MaxIdle)
    <3>1. wpc'[w] = "idle"
      BY <2>2 DEF PoolTypes
    <3>2. /\ wtlist' \in Seq(Workers) /\ Len(wtlist') = Len(wtlist) + 1
          /\ ToSet(wtlist') = ToSet(wtlist) \cup {w} /\ NoRepeat(wtlist')
      BY <1>0, <1>1, <2>2, AppendMembers
    <3>3. Len(wtlist') <= MaxIdle
      BY <1>0, <2>2, <3>2
    <3>4. ToSet(wtlist') = {v \in Workers : wpc'[v] = "idle"}
      BY <1>3, <3>1, <3>2 DEF Books
    <3> QED BY <3>2, <3>3, <3>4
  <2> QED BY <2>1, <2>2
<1>11. PoolTypes'
  BY <1>6, <1>7, <1>10 DEF PoolTypes
<1>12. Books'
  BY <1>8, <1>9, <1>10 DEF Books, NoRepeat
<1> QED BY <1>11, <1>12

\* A worker on its way out.
LEMMA WorkerGoes ==
    ASSUME PoolTypes, Books, NEW w \in Workers,
           wreq' = wreq, wtlist' = wtlist,
           \/ /\ wpc[w] = "leaving" /\ wpc' = [wpc EXCEPT ![w] = "exited"]
              /\ wtrunning_count' = wtrunning_count
           \/ /\ wpc[w] = "exited" /\ wpc' = [wpc EXCEPT ![w] = "none"]
              /\ wtrunning_count' = wtrunning_count - 1
    PROVE  /\ PoolTypes' /\ Books' /\ wtrunning_count > 0
           /\ wtrunning_count = 1 /\ wtrunning_count' # wtrunning_count => Live = {w}
<1>0. wtlist \in Seq(Workers) /\ Len(wtlist) <= MaxIdle /\ NoRepeat(wtlist)
  BY DEF PoolTypes, Books
<1>1. PICK x \in {"exited", "none"} : wpc' = [wpc EXCEPT ![w] = x]
  OBVIOUS
<1>2. \A v \in Workers : wpc'[v] = IF v = w THEN x ELSE wpc[v]
  BY <1>1 DEF PoolTypes
<1>3. wpc' \in [Workers -> {"none", "run", "idle", "leaving", "exited"}]
  BY <1>1 DEF PoolTypes
<1>4. ToSet(wtlist') = {v \in Workers : wpc'[v] = "idle"}
  BY <1>2 DEF Books
<1>5. \A v \in Workers : wpc'[v] = "run" <=> wreq'[v] # None
  BY <1>2 DEF Books
<1>6. Live \in SUBSET Workers /\ Live' \in SUBSET Workers /\ w \in Live
  BY DEF Live
<1>7. IsFiniteSet(Live) /\ Cardinality(Live) \in Nat /\ Cardinality(Live) > 0
  BY <1>6, ThreadSets
<1>8. wtrunning_count' = Cardinality(Live')
  <2>1. CASE wpc[w] = "leaving" /\ wpc' = [wpc EXCEPT ![w] = "exited"]
             /\ wtrunning_count' = wtrunning_count
    <3>1. \A v \in Workers : wpc'[v] = IF v = w THEN "exited" ELSE wpc[v]
      BY <2>1 DEF PoolTypes
    <3>2. Live' = Live
      BY <2>1, <3>1 DEF Live
    <3> QED BY <2>1, <3>2 DEF Books
  <2>2. CASE wpc[w] = "exited" /\ wpc' = [wpc EXCEPT ![w] = "none"]
             /\ wtrunning_count' = wtrunning_count - 1
    <3>1. \A v \in Workers : wpc'[v] = IF v = w THEN "none" ELSE wpc[v]
      BY <2>2 DEF PoolTypes
    <3>2. Live' = Live \ {w}
      BY <2>2, <3>1 DEF Live
    <3>3. Cardinality(Live') = Cardinality(Live) - 1
      BY <1>6, <1>7, <3>2, FS_RemoveElement
    <3> QED BY <2>2, <3>3 DEF Books
  <2> QED BY <2>1, <2>2
<1>9. Cardinality(Live') \in 0..Cardinality(Workers)
  BY <1>6, ThreadSets
<1>10. PoolTypes'
  BY <1>0, <1>3, <1>8, <1>9 DEF PoolTypes
<1>11. Books'
  BY <1>0, <1>4, <1>5, <1>8 DEF Books, NoRepeat
<1>12. wtrunning_count = 1 => Live = {w}
  <2> SUFFICES ASSUME wtrunning_count = 1 PROVE Live = {w}
    OBVIOUS
  <2>1. Cardinality(Live) = 1
    BY DEF Books
  <2>2. PICK y : Live = {y}
    BY <1>7, <2>1, FS_Singleton
  <2> QED BY <1>6, <2>2
<1>13. wtrunning_count > 0
  BY <1>7 DEF Books
<1> QED BY <1>10, <1>11, <1>12, <1>13

\* Every idle worker is woken to leave.
LEMMA WakeAll ==
    ASSUME PoolTypes, Books, TriggerAsyncShutdown
    PROVE  /\ PoolTypes' /\ Books'
           /\ \A q \in Reqs : RunBy(q)' = RunBy(q)
           /\ \A v \in Workers : wpc'[v] = wpc[v] \/ (wpc[v] = "idle" /\ wpc'[v] = "run")
<1>1. /\ wpc' = [w \in Workers |-> IF w \in ToSet(wtlist) THEN "run" ELSE wpc[w]]
      /\ wreq' = [w \in Workers |-> IF w \in ToSet(wtlist) THEN ShutdownReq ELSE wreq[w]]
      /\ wtlist' = << >> /\ wtrunning_count' = wtrunning_count
  BY DEF TriggerAsyncShutdown
<1>2. \A w \in Workers : w \in ToSet(wtlist) <=> wpc[w] = "idle"
  BY DEF Books
<1>3. \A w \in Workers : wpc[w] = "run" <=> wreq[w] # None
  BY DEF Books
<1>4. ShutdownReq # None /\ ShutdownReq \notin Reqs /\ None \notin Reqs
  BY NullAssumption
<1>5. \A w \in Workers : /\ wpc[w] = "idle" => wpc'[w] = "run" /\ wreq'[w] = ShutdownReq
                         /\ wpc[w] # "idle" => wpc'[w] = wpc[w] /\ wreq'[w] = wreq[w]
  BY <1>1, <1>2
<1>6. wpc' \in [Workers -> {"none", "run", "idle", "leaving", "exited"}]
  BY <1>1 DEF PoolTypes
<1>7. wreq' \in [Workers -> Reqs \cup {None, TimerReq, ShutdownReq}]
  BY <1>1 DEF PoolTypes
<1>8. PoolTypes'
  BY <1>1, <1>6, <1>7 DEF PoolTypes
<1>9. Live' = Live
  BY <1>5 DEF Live
<1>10. ToSet(wtlist') = {w \in Workers : wpc'[w] = "idle"}
  <2>1. ToSet(wtlist') = {}
    BY <1>1 DEF ToSet
  <2>2. \A w \in Workers : wpc'[w] # "idle"
    BY <1>5
  <2> QED BY <2>1, <2>2
<1>11. \A w \in Workers : wpc'[w] = "run" <=> wreq'[w] # None
  BY <1>3, <1>4, <1>5
<1>12. Len(wtlist') <= MaxIdle /\ NoRepeat(wtlist')
  <2>1. Len(wtlist') = 0
    BY <1>1
  <2> QED BY <2>1, ConstantAssumption DEF NoRepeat
<1>13. wtrunning_count' = Cardinality(Live')
  BY <1>1, <1>9 DEF Books
<1>14. Books'
  BY <1>10, <1>11, <1>12, <1>13 DEF Books, NoRepeat
<1>15. \A q \in Reqs : \A w \in Workers : wreq'[w] = q <=> wreq[w] = q
  BY <1>3, <1>4, <1>5
<1>16. \A q \in Reqs : RunBy(q)' = RunBy(q)
  BY <1>15 DEF RunBy
<1> QED BY <1>5, <1>8, <1>14, <1>16

-----------------------------------------------------------------------------
(* async_req_post() and worker_thread_add().                                *)

\* t is s with objects registered, and nothing else.
Grown(s, t) ==
    /\ Known(t)
    /\ GoesOn(s) => GoesOn(t)
    /\ t.started = s.started /\ t.complete = s.complete /\ t.notify_pending = s.notify_pending
    /\ \A o \in Objs : s.state[o] # "STOPPED" => t.state[o] # "STOPPED"
    /\ \A o \in Objs : t.state[o] = "PENDING" => s.state[o] = "PENDING"

\* Grown holds of the manager's state and itself.
LEMMA GrownSame ==
    ASSUME NEW s, Known(s)
    PROVE  Grown(s, s)
  BY DEF Grown

\* Grown is transitive: async_req_post() and channel_tcp.c both register.
LEMMA GrownTwice ==
    ASSUME NEW s, NEW t, NEW u, Grown(s, t), Grown(t, u)
    PROVE  Grown(s, u)
  BY DEF Grown

\* shutdown_set_normal() only grows the list of objects.
LEMMA GrownNormal ==
    ASSUME NEW s, Known(s), NEW o \in Objs
    PROVE  /\ Grown(s, SetNormal(s, o))
           /\ SetNormal(s, o).state[o] = "NORMAL"
           /\ \A p \in Objs : p # o => SetNormal(s, o).state[p] = s.state[p]
<1> DEFINE t == SetNormal(s, o)
<1>1. /\ Known(t) /\ t.state = [s.state EXCEPT ![o] = "NORMAL"] /\ t.active # << >>
      /\ t.started = s.started /\ t.complete = s.complete /\ t.notify_pending = s.notify_pending
  BY SetNormalFacts
<1>2. s.state \in [Objs -> {"STOPPED", "NORMAL", "PENDING"}]
  BY DEF Known, ShutdownRec
<1> HIDE DEF t
<1>3. t.state[o] = "NORMAL" /\ \A p \in Objs : p # o => t.state[p] = s.state[p]
  BY <1>1, <1>2
<1>4. Grown(s, t)
  BY <1>1, <1>3 DEF Grown, GoesOn
<1> QED BY <1>3, <1>4 DEF t

\* Worker w is given r.
Handed(r, w) ==
    /\ w \in Workers /\ wpc[w] \in {"none", "idle"} /\ wreq[w] = None
    /\ wpc' = [wpc EXCEPT ![w] = "run"]
    /\ wreq' = [wreq EXCEPT ![w] = r]

\* What a request that is given to a worker does to the pool and to shutdown.c.
PoolServes(r, s) ==
    /\ PoolTypes' /\ Books'
    /\ \E w \in Workers : Handed(r, w)
    /\ wtlist = << >> => wtlist' = << >>
    /\ wtrunning_count' > 0
    /\ Grown(s, sd')
    /\ sd'.state["async"] # "STOPPED"
    /\ sd'.state["channel"] = s.state["channel"]

\* A request given to an idle worker is served by one worker of the pool.
LEMMA GiveServes ==
    ASSUME PoolTypes, Books, NEW r \in Reqs \cup {TimerReq}, NEW s, Known(s),
           s.state["async"] # "STOPPED" <=> wtrunning_count > 0,
           GiveToIdle(r, s)
    PROVE  PoolServes(r, s) /\ wtrunning_count > 0
<1>1. /\ wtlist # << >> /\ wtlist' = Tail(wtlist) /\ sd' = s /\ wtrunning_count' = wtrunning_count
      /\ wpc' = [wpc EXCEPT ![Head(wtlist)] = "run"]
      /\ wreq' = [wreq EXCEPT ![Head(wtlist)] = r]
  BY DEF GiveToIdle, IdleWorker, WithoutFirst
<1>2. PICK w : w = Head(wtlist)
  OBVIOUS
<1>3. PoolTypes' /\ Books' /\ wtrunning_count > 0 /\ w \in Workers /\ wpc[w] = "idle" /\ wreq[w] = None
  BY <1>1, <1>2, WakeFirst
<1>4. Handed(r, w)
  BY <1>1, <1>2, <1>3 DEF Handed
<1>5. Grown(s, sd')
  BY <1>1, GrownSame
<1> QED BY <1>1, <1>3, <1>4, <1>5 DEF PoolServes

\* worker_thread_add() starts a thread for the request, and the first one
\* registers the pool with the shutdown manager.
LEMMA AddServes ==
    ASSUME PoolTypes, Books, NEW r \in Reqs \cup {TimerReq}, NEW s, Known(s),
           s.state["async"] # "STOPPED" <=> wtrunning_count > 0,
           WorkerThreadAdd(r, s)
    PROVE  PoolServes(r, s)
<1>1. PICK w \in Workers :
        /\ wpc[w] = "none"
        /\ wpc' = [wpc EXCEPT ![w] = "run"] /\ wreq' = [wreq EXCEPT ![w] = r]
        /\ wtrunning_count' = wtrunning_count + 1 /\ wtlist' = wtlist
        /\ sd' = IF wtrunning_count = 0 THEN SetNormal(s, "async") ELSE s
  BY DEF WorkerThreadAdd
<1>2. PoolTypes' /\ Books' /\ wtrunning_count' > 0 /\ wreq[w] = None
  BY <1>1, NewThread
<1>3. Handed(r, w)
  BY <1>1, <1>2 DEF Handed
<1>4. "async" \in Objs /\ "channel" \in Objs /\ wtrunning_count \in Nat
  BY ConstantAssumption DEF PoolTypes
<1>5. Grown(s, sd') /\ sd'.state["async"] # "STOPPED" /\ sd'.state["channel"] = s.state["channel"]
  <2>1. CASE wtrunning_count = 0
    <3>1. sd' = SetNormal(s, "async")
      BY <1>1, <2>1
    <3>2. /\ Grown(s, SetNormal(s, "async")) /\ SetNormal(s, "async").state["async"] = "NORMAL"
          /\ SetNormal(s, "async").state["channel"] = s.state["channel"]
      BY <1>4, GrownNormal
    <3> QED BY <3>1, <3>2
  <2>2. CASE wtrunning_count # 0
    <3>1. sd' = s /\ wtrunning_count > 0
      BY <1>1, <1>4, <2>2
    <3> QED BY <3>1, GrownSame
  <2> QED BY <2>1, <2>2
<1> QED BY <1>1, <1>2, <1>3, <1>5 DEF PoolServes

\* async_req_post() finds a worker for the request either way.
LEMMA PostServes ==
    ASSUME PoolTypes, Books, NEW r \in Reqs \cup {TimerReq}, NEW s, Known(s),
           s.state["async"] # "STOPPED" <=> wtrunning_count > 0,
           AsyncReqPost(r, s)
    PROVE  PoolServes(r, s)
  BY GiveServes, AddServes DEF AsyncReqPost

\* The events that are posted stay true when a worker is given a request.
LEMMA ServesEvents ==
    ASSUME TypeOK, EventsTrue, NEW r \in Reqs \cup {TimerReq}, NEW w \in Workers, Handed(r, w),
           \A e \in posted' : e \in posted \/ \E q \in Reqs : q.kind = "bg" /\ e = AddEv(q)
    PROVE  EventsTrue'
<1>1. \A v \in Workers : wpc'[v] = IF v = w THEN "run" ELSE wpc[v]
  BY DEF Handed, TypeOK
<1>2. wpc[w] # "exited"
  BY DEF Handed
<1>3. ASSUME NEW v \in Workers, ExitEv(v) \in posted'
      PROVE  wpc'[v] = "exited"
  <2>1. ExitEv(v) \in posted
    BY <1>3, EvShapes
  <2> QED BY <1>1, <1>2, <2>1 DEF EventsTrue
<1>4. ASSUME NEW v \in Workers, NEW q \in Reqs, DoneEv(q, v) \in posted'
      PROVE  wpc'[v] # "none"
  <2>1. DoneEv(q, v) \in posted
    BY <1>4, EvShapes
  <2> QED BY <1>1, <2>1 DEF EventsTrue
<1>5. ASSUME NEW q \in Reqs, AddEv(q) \in posted'
      PROVE  q.kind = "bg"
  BY <1>5, EvShapes DEF EventsTrue
<1> QED BY <1>3, <1>4, <1>5 DEF EventsTrue

-----------------------------------------------------------------------------
(* Steps of one request.                                                    *)

OthersKept(r) == \A q \in Reqs : q # r => Kept(q)

\* r was nowhere, or waiting in an event that is dispatched now.
LEMMA ServesRequest ==
    ASSUME TypeOK, NEW r \in Reqs, NEW w \in Workers, Handed(r, w),
           RunBy(r) = {}, InPost(r)' = {},
           \A q \in Reqs : q # r => InPost(q)' = InPost(q)
    PROVE  Running(r)' /\ OthersKept(r)
<1>1. wreq[w] = None /\ wreq' = [wreq EXCEPT ![w] = r]
  BY DEF Handed
<1>2. RunBy(r)' = {w} /\ \A q \in Reqs : q # r => RunBy(q)' = RunBy(q)
  BY <1>1, HandFacts
<1> QED BY <1>2 DEF Running, OthersKept, Kept

\* Handing out the timer's request moves no other request.
LEMMA ServesTimer ==
    ASSUME TypeOK, NEW w \in Workers, Handed(TimerReq, w), posted' = posted
    PROVE  \A q \in Reqs : Kept(q)
<1>1. wreq[w] = None /\ wreq' = [wreq EXCEPT ![w] = TimerReq] /\ TimerReq \notin Reqs
  BY NullAssumption DEF Handed
<1>2. \A q \in Reqs : RunBy(q)' = RunBy(q)
  BY <1>1, HandFacts
<1>3. \A q \in Reqs : InPost(q)' = InPost(q)
  BY DEF InPost, DoneEvs, DoneEv, AddEv
<1> QED BY <1>2, <1>3 DEF Kept

\* A request with an event is nowhere else.
LEMMA EventAlone ==
    ASSUME NEW r \in Reqs, OnePlace(r), NEW e \in InPost(r)
    PROVE  RunBy(r) = {} /\ InPost(r) = {e} /\ ~Free(r)
  BY DEF OnePlace, Free, Running, Waiting

\* Dispatching the completion of r takes it from the queue.
LEMMA DoneTaken ==
    ASSUME NEW r \in Reqs, OnePlace(r), DoneEvs(r) \cap posted # {}, posted' = posted \ DoneEvs(r)
    PROVE  /\ ~Free(r) /\ RunBy(r) = {} /\ InPost(r)' = {}
           /\ \A q \in Reqs : q # r => InPost(q)' = InPost(q)
<1>1. PICK e : e \in DoneEvs(r) /\ e \in posted
  OBVIOUS
<1>2. e \in InPost(r)
  BY <1>1 DEF InPost
<1>3. RunBy(r) = {} /\ InPost(r) = {e} /\ ~Free(r)
  BY <1>2, EventAlone
<1>4. InPost(r)' = InPost(r) \ DoneEvs(r) /\ \A q \in Reqs : q # r => InPost(q)' = InPost(q)
  BY TakeFacts
<1> QED BY <1>1, <1>3, <1>4

\* The requests after a step.
LEMMA RequestsSame ==
    ASSUME Requests, chan' = chan, \A q \in Reqs : Kept(q)
    PROVE  Requests'
<1>1. \A q \in Reqs : (Free(q)' <=> Free(q)) /\ OnePlace(q)'
  BY KeptFacts DEF Requests
<1>2. ASSUME NEW c \in Chans PROVE ChanReqs(c)'
  <2>1. ReadReq(c) \in Reqs /\ WriteReq(c) \in Reqs
    BY ReqShapes
  <2>2. (Free(ReadReq(c))' <=> Free(ReadReq(c))) /\ (Free(WriteReq(c))' <=> Free(WriteReq(c)))
    BY <1>1, <2>1
  <2>3. ChanReqs(c)
    BY DEF Requests
  <2> QED BY <2>2, <2>3 DEF ChanReqs
<1> QED BY <1>1, <1>2 DEF Requests

\* Requests survives a step that moves one request: one of a background thread,
\* or one that stays as free as it was.
LEMMA RequestsOne ==
    ASSUME Requests, chan' = chan, NEW r \in Reqs, OnePlace(r)', OthersKept(r),
           (Free(r)' <=> Free(r)) \/ r.kind = "bg"
    PROVE  Requests'
<1>1. \A q \in Reqs : OnePlace(q)' /\ (q # r => (Free(q)' <=> Free(q)))
  BY KeptFacts DEF Requests, OthersKept
<1>2. ASSUME NEW c \in Chans PROVE ChanReqs(c)'
  <2>1. /\ ReadReq(c) \in Reqs /\ WriteReq(c) \in Reqs
        /\ ReadReq(c).kind # "bg" /\ WriteReq(c).kind # "bg"
    BY ReqShapes
  <2>2. (Free(ReadReq(c))' <=> Free(ReadReq(c))) /\ (Free(WriteReq(c))' <=> Free(WriteReq(c)))
    BY <1>1, <2>1
  <2>3. ChanReqs(c)
    BY DEF Requests
  <2> QED BY <2>2, <2>3 DEF ChanReqs
<1> QED BY <1>1, <1>2 DEF Requests

\* Requests survives a step of channel d that moves one of its two requests.
LEMMA RequestsChan ==
    ASSUME Requests, NEW d \in Chans, NEW r \in {ReadReq(d), WriteReq(d)}, OnePlace(r)',
           OthersKept(r), \A c \in Chans : c # d => chan'[c] = chan[c], ChanReqs(d)'
    PROVE  Requests'
<1>0. r \in Reqs
  BY ReqShapes
<1>1. \A q \in Reqs : OnePlace(q)' /\ (q # r => (Free(q)' <=> Free(q)))
  BY KeptFacts DEF Requests, OthersKept
<1>2. ASSUME NEW c \in Chans, c # d PROVE ChanReqs(c)'
  <2>1. ReadReq(c) \in Reqs /\ WriteReq(c) \in Reqs /\ ReadReq(c) # r /\ WriteReq(c) # r
    BY <1>2, ReqShapes
  <2>2. (Free(ReadReq(c))' <=> Free(ReadReq(c))) /\ (Free(WriteReq(c))' <=> Free(WriteReq(c)))
    BY <1>1, <2>1
  <2>3. ChanReqs(c) /\ chan'[c] = chan[c]
    BY <1>2 DEF Requests
  <2> QED BY <2>2, <2>3 DEF ChanReqs
<1> QED BY <1>1, <1>2 DEF Requests

-----------------------------------------------------------------------------
(* Every step keeps the invariant.                                          *)

RestTypes ==
    /\ posted \subseteq AllEvs
    /\ sd \in ShutdownRec
    /\ chan \in [Chans -> {"none", "connecting", "open", "closing", "draining"}]
    /\ dpc \in {"idle", "notify", "trigger async", "trigger channel"}
    /\ iter \in Objs \cup {None}
    /\ timer_started \in BOOLEAN

\* The type invariant, split into the pool's variables and the others.
LEMMA TypeParts == (TypeOK <=> PoolTypes /\ RestTypes) /\ (TypeOK' <=> PoolTypes' /\ RestTypes')
<1>1. TypeOK <=> PoolTypes /\ RestTypes
  BY Zenon DEF TypeOK, PoolTypes, RestTypes, AllEvs
<1>2. TypeOK' <=> PoolTypes' /\ RestTypes'
  BY Zenon DEF TypeOK, PoolTypes, RestTypes, AllEvs, DoneEvs, DoneEv, AddEv, ExitEv
<1> QED BY <1>1, <1>2

\* shutdown.c when nothing but the registration of an object changes.
LEMMA ManagerGrown ==
    ASSUME TypeOK, Manager, NoSleeperLeft, ~sd.complete, iter' = iter, dpc' = dpc,
           Grown(sd, sd'), wtrunning_count' > 0, sd'.state["async"] # "STOPPED",
           sd'.state["channel"] # "STOPPED" <=> \E c \in Chans : Registered(chan'[c]),
           wtlist = << >> => wtlist' = << >>
    PROVE  Manager' /\ NoSleeperLeft'
<1>0. "async" \in Objs /\ iter \in Objs \cup {None}
  BY ConstantAssumption DEF TypeOK
<1>1. /\ Known(sd') /\ (GoesOn(sd) => GoesOn(sd'))
      /\ sd'.started = sd.started /\ sd'.complete = sd.complete
      /\ sd'.notify_pending = sd.notify_pending
      /\ \A o \in Objs : sd.state[o] # "STOPPED" => sd'.state[o] # "STOPPED"
      /\ \A o \in Objs : sd'.state[o] = "PENDING" => sd.state[o] = "PENDING"
  BY DEF Grown
<1>2. GoesOn(sd')
  BY <1>1 DEF Manager
<1>3. Known(sd)' /\ GoesOn(sd)'
  BY <1>1, <1>2 DEF Known, GoesOn, ShutdownRec, ActiveExact
<1>4. iter' # None => sd'.state[iter'] # "STOPPED"
  BY <1>0, <1>1 DEF Manager
<1>5. /\ sd'.notify_pending => sd'.started
      /\ ~sd'.complete
      /\ dpc' = "idle" => iter' = None
  BY <1>1 DEF Manager
<1>6. Manager'
  BY <1>3, <1>4, <1>5 DEF Manager, Registered
<1>7. NoSleeperLeft'
  BY <1>0, <1>1 DEF NoSleeperLeft
<1> QED BY <1>6, <1>7

\* shutdown.c when it is not called.
LEMMA ManagerSame ==
    ASSUME Manager, UNCHANGED <<sd, dpc, iter, chan>>,
           wtrunning_count' > 0 <=> wtrunning_count > 0
    PROVE  Manager'
<1>1. Known(sd)' /\ GoesOn(sd)'
  BY DEF Manager, Known, GoesOn, ShutdownRec, ActiveExact
<1> QED BY <1>1 DEF Manager, Registered

\* A worker completes its request and posts the answer.
LEMMA WorkerCompleteKeeps ==
    ASSUME IInv, NEW w \in Workers, WorkerComplete(w)
    PROVE  IInv'
<1>0. TypeOK /\ Books /\ EventsTrue /\ Requests /\ NoSleeperLeft /\ Manager /\ PoolTypes /\ RestTypes
  BY TypeParts DEF IInv
<1>1. PICK r \in Reqs : wreq[w] = r
  BY DEF WorkerComplete
<1>2. /\ wpc[w] = "run" /\ posted' = posted \cup {DoneEv(r, w)} /\ wreq' = [wreq EXCEPT ![w] = None]
      /\ \/ wpc' = [wpc EXCEPT ![w] = "leaving"] /\ wtlist' = wtlist
         \/ /\ ~(Len(wtlist) >= MaxIdle) /\ sd.state["async"] # "PENDING"
            /\ wpc' = [wpc EXCEPT ![w] = "idle"] /\ wtlist' = Append(wtlist, w)
      /\ wtrunning_count' = wtrunning_count /\ sd' = sd /\ chan' = chan /\ dpc' = dpc
      /\ iter' = iter /\ timer_started' = timer_started
  BY <1>1 DEF WorkerComplete, MustLeave
<1>3. PoolTypes' /\ Books'
  BY <1>0, <1>2, WorkerEnds
<1>4. TypeOK'
  <2>1. RestTypes'
    BY <1>0, <1>2, EvTypes DEF RestTypes, AllEvs, DoneEvs, DoneEv, AddEv, ExitEv
  <2> QED BY <1>3, <2>1, TypeParts
<1>5. EventsTrue'
  <2>1. PICK x \in {"leaving", "idle"} : wpc' = [wpc EXCEPT ![w] = x]
    BY <1>2
  <2>2. \A v \in Workers : wpc'[v] = IF v = w THEN x ELSE wpc[v]
    BY <1>0, <2>1 DEF PoolTypes
  <2>3. \A v \in Workers : ExitEv(v) \in posted' => wpc'[v] = "exited"
    BY <1>0, <1>2, <2>2, EvShapes DEF EventsTrue
  <2>4. \A v \in Workers, q \in Reqs : DoneEv(q, v) \in posted' => wpc'[v] # "none"
    BY <1>0, <1>2, <2>2, EvShapes DEF EventsTrue
  <2>5. \A q \in Reqs : AddEv(q) \in posted' => q.kind = "bg"
    BY <1>0, <1>2, EvShapes DEF EventsTrue
  <2> QED BY <2>3, <2>4, <2>5 DEF EventsTrue
<1>6. Requests'
  <2>1. OnePlace(r) /\ w \in RunBy(r)
    BY <1>0, <1>1 DEF Requests, RunBy
  <2>2. RunBy(r) = {w} /\ InPost(r) = {} /\ ~Free(r)
    BY <2>1 DEF OnePlace, Free, Running, Waiting
  <2>3. RunBy(r)' = {} /\ \A q \in Reqs : q # r => RunBy(q)' = RunBy(q)
    <3>1. \A q \in Reqs : RunBy(q)' = RunBy(q) \ {w} /\ (q # wreq[w] => RunBy(q)' = RunBy(q))
      BY <1>0, <1>2, DropFacts
    <3> QED BY <1>1, <2>2, <3>1
  <2>4. InPost(r)' = {DoneEv(r, w)} /\ \A q \in Reqs : q # r => InPost(q)' = InPost(q)
    <3>1. DoneEv(r, w) \in DoneEvs(r)
      BY DEF DoneEvs
    <3> QED BY <1>2, <2>2, <3>1, PostFacts
  <2>5. Waiting(r)' /\ ~Free(r)'
    BY <1>2, <2>3, <2>4 DEF Waiting, Free
  <2>6. OnePlace(r)' /\ OthersKept(r)
    BY <2>3, <2>4, <2>5 DEF OnePlace, OthersKept, Kept
  <2> QED BY <1>0, <1>2, <2>2, <2>5, <2>6, RequestsOne
<1>7. NoSleeperLeft'
  BY <1>0, <1>2 DEF NoSleeperLeft
<1>8. Manager'
  BY <1>0, <1>2, ManagerSame
<1> QED BY <1>3, <1>4, <1>5, <1>6, <1>7, <1>8 DEF IInv

\* A worker leaves its loop: it was woken with shutdown_req, or it is the timer.
LEMMA WorkerStopKeeps ==
    ASSUME IInv, NEW w \in Workers, WorkerStop(w)
    PROVE  IInv'
<1>0. TypeOK /\ Books /\ EventsTrue /\ Requests /\ NoSleeperLeft /\ Manager /\ PoolTypes /\ RestTypes
  BY TypeParts DEF IInv
<1>1. /\ wpc[w] = "run" /\ wreq[w] \in {ShutdownReq, TimerReq}
      /\ wpc' = [wpc EXCEPT ![w] = "leaving"] /\ wreq' = [wreq EXCEPT ![w] = None]
      /\ wtlist' = wtlist /\ wtrunning_count' = wtrunning_count
      /\ posted' = posted /\ sd' = sd /\ chan' = chan /\ dpc' = dpc /\ iter' = iter
      /\ timer_started' = timer_started
  BY DEF WorkerStop
<1>2. PoolTypes' /\ Books'
  BY <1>0, <1>1, WorkerEnds
<1>3. TypeOK'
  <2>1. RestTypes'
    BY <1>0, <1>1 DEF RestTypes, AllEvs, DoneEvs, DoneEv, AddEv, ExitEv
  <2> QED BY <1>2, <2>1, TypeParts
<1>4. EventsTrue'
  <2>1. \A v \in Workers : wpc'[v] = IF v = w THEN "leaving" ELSE wpc[v]
    BY <1>0, <1>1 DEF PoolTypes
  <2> QED BY <1>0, <1>1, <2>1 DEF EventsTrue
<1>5. Requests'
  <2>1. \A q \in Reqs : RunBy(q)' = RunBy(q) \ {w} /\ (q # wreq[w] => RunBy(q)' = RunBy(q))
    BY <1>0, <1>1, DropFacts
  <2>2. wreq[w] \notin Reqs
    BY <1>1, NullAssumption
  <2>3. \A q \in Reqs : InPost(q)' = InPost(q)
    BY <1>1 DEF InPost, DoneEvs, DoneEv, AddEv
  <2>4. \A q \in Reqs : Kept(q)
    BY <2>1, <2>2, <2>3 DEF Kept
  <2> QED BY <1>0, <1>1, <2>4, RequestsSame
<1>6. NoSleeperLeft'
  BY <1>0, <1>1 DEF NoSleeperLeft
<1>7. Manager'
  BY <1>0, <1>1, ManagerSame
<1> QED BY <1>2, <1>3, <1>4, <1>5, <1>6, <1>7 DEF IInv

\* A worker that left its loop posts its exit.
LEMMA WorkerLeaveKeeps ==
    ASSUME IInv, NEW w \in Workers, WorkerLeave(w)
    PROVE  IInv'
<1>0. TypeOK /\ Books /\ EventsTrue /\ Requests /\ NoSleeperLeft /\ Manager /\ PoolTypes /\ RestTypes
  BY TypeParts DEF IInv
<1>1. /\ wpc[w] = "leaving" /\ wpc' = [wpc EXCEPT ![w] = "exited"]
      /\ posted' = posted \cup {ExitEv(w)}
      /\ wreq' = wreq /\ wtlist' = wtlist /\ wtrunning_count' = wtrunning_count
      /\ sd' = sd /\ chan' = chan /\ dpc' = dpc /\ iter' = iter
      /\ timer_started' = timer_started
  BY DEF WorkerLeave
<1>2. PoolTypes' /\ Books'
  BY <1>0, <1>1, WorkerGoes
<1>3. TypeOK'
  <2>1. RestTypes'
    BY <1>0, <1>1, EvTypes DEF RestTypes, AllEvs, DoneEvs, DoneEv, AddEv, ExitEv
  <2> QED BY <1>2, <2>1, TypeParts
<1>4. EventsTrue'
  <2>1. \A v \in Workers : wpc'[v] = IF v = w THEN "exited" ELSE wpc[v]
    BY <1>0, <1>1 DEF PoolTypes
  <2>2. \A v \in Workers : ExitEv(v) \in posted' => wpc'[v] = "exited"
    BY <1>0, <1>1, <2>1, EvShapes DEF EventsTrue
  <2>3. \A v \in Workers, q \in Reqs : DoneEv(q, v) \in posted' => wpc'[v] # "none"
    BY <1>0, <1>1, <2>1, EvShapes DEF EventsTrue
  <2>4. \A q \in Reqs : AddEv(q) \in posted' => q.kind = "bg"
    BY <1>0, <1>1, EvShapes DEF EventsTrue
  <2> QED BY <2>2, <2>3, <2>4 DEF EventsTrue
<1>5. Requests'
  <2>1. \A q \in Reqs : RunBy(q)' = RunBy(q) /\ InPost(q)' = InPost(q)
    BY <1>1, ExitPostFacts DEF RunBy
  <2>2. \A q \in Reqs : Kept(q)
    BY <2>1 DEF Kept
  <2> QED BY <1>0, <1>1, <2>2, RequestsSame
<1>6. NoSleeperLeft'
  BY <1>0, <1>1 DEF NoSleeperLeft
<1>7. Manager'
  BY <1>0, <1>1, ManagerSame
<1> QED BY <1>2, <1>3, <1>4, <1>5, <1>6, <1>7 DEF IInv

\* shutdown.c when an object unregisters, which happens outside notify_all().
LEMMA ManagerStopped ==
    ASSUME TypeOK, Manager, ~sd.complete, dpc = "idle", iter' = iter, dpc' = dpc,
           NEW o \in Objs, sd' = SetStopped(sd, o),
           (sd'.state["async"] # "STOPPED" <=> wtrunning_count' > 0),
           (sd'.state["channel"] # "STOPPED" <=> \E c \in Chans : Registered(chan'[c]))
    PROVE  Manager' /\ sd' \in ShutdownRec
<1>1. /\ Known(sd') /\ sd'.started = sd.started /\ sd'.complete = sd.complete
      /\ (GoesOn(sd) => GoesOn(sd'))
  BY SetStoppedFacts DEF Manager
<1>2. Known(sd)' /\ GoesOn(sd)'
  BY <1>1 DEF Manager, Known, GoesOn, ShutdownRec, ActiveExact
<1>3. sd'.notify_pending => sd'.started
  <2>1. CASE sd.state[o] = "STOPPED"
    BY <2>1 DEF SetStopped, Manager
  <2>2. CASE sd.state[o] # "STOPPED"
    <3>1. sd'.notify_pending = (sd.notify_pending \/ sd.started)
      BY <2>2 DEF SetStopped, Manager, Known, ShutdownRec
    <3> QED BY <1>1, <3>1 DEF Manager
  <2> QED BY <2>1, <2>2
<1>4. ~sd'.complete /\ iter' = None
  BY <1>1 DEF Manager
<1>5. Manager'
  BY <1>2, <1>3, <1>4 DEF Manager, Registered
<1> QED BY <1>1, <1>5 DEF Known

\* worker_thread_exit() joins the thread and, after the last one, tells the
\* shutdown manager.
LEMMA WorkerThreadExitKeeps ==
    ASSUME IInv, NEW w \in Workers, WorkerThreadExit(w)
    PROVE  IInv'
<1>0. TypeOK /\ Books /\ EventsTrue /\ Requests /\ NoSleeperLeft /\ Manager /\ PoolTypes /\ RestTypes
  BY TypeParts DEF IInv
<1>1. /\ dpc = "idle" /\ ~sd.complete /\ ExitEv(w) \in posted
      /\ \A e \in posted : e.by = w => e = ExitEv(w)
      /\ posted' = posted \ {ExitEv(w)} /\ wpc' = [wpc EXCEPT ![w] = "none"]
      /\ wtrunning_count' = wtrunning_count - 1
      /\ sd' = IF wtrunning_count = 1 THEN SetStopped(sd, "async") ELSE sd
      /\ wreq' = wreq /\ wtlist' = wtlist /\ chan' = chan /\ dpc' = dpc /\ iter' = iter
      /\ timer_started' = timer_started
  BY DEF WorkerThreadExit, Ready, ThreadsAfterJoin, LastThread
<1>2. wpc[w] = "exited"
  BY <1>0, <1>1 DEF EventsTrue
<1>3. PoolTypes' /\ Books' /\ wtrunning_count > 0
  BY <1>0, <1>1, <1>2, WorkerGoes
<1>4. wtrunning_count \in Nat /\ "async" \in Objs /\ "channel" \in Objs
  BY <1>0, ConstantAssumption DEF PoolTypes
<1>5. Manager' /\ sd' \in ShutdownRec /\ NoSleeperLeft'
  <2>1. CASE wtrunning_count = 1
    <3>1. sd' = SetStopped(sd, "async") /\ ~(wtrunning_count' > 0)
      BY <1>1, <2>1
    <3>2. sd'.state = [sd.state EXCEPT !["async"] = "STOPPED"]
      BY <1>0, <1>4, <3>1, SetStoppedFacts DEF Manager
    <3>3. sd.state \in [Objs -> {"STOPPED", "NORMAL", "PENDING"}]
      BY <1>0 DEF RestTypes, ShutdownRec
    <3>4. sd'.state["async"] = "STOPPED" /\ sd'.state["channel"] = sd.state["channel"]
      BY <1>4, <3>2, <3>3
    <3>5. sd'.state["channel"] # "STOPPED" <=> \E c \in Chans : Registered(chan'[c])
      BY <1>0, <1>1, <3>4 DEF Manager
    <3>6. Manager' /\ sd' \in ShutdownRec
      BY <1>0, <1>1, <1>4, <3>1, <3>4, <3>5, ManagerStopped
    <3> QED BY <3>4, <3>6 DEF NoSleeperLeft
  <2>2. CASE wtrunning_count # 1
    <3>1. sd' = sd /\ wtrunning_count' > 0
      BY <1>1, <1>3, <1>4, <2>2
    <3>2. Manager'
      BY <1>0, <1>1, <1>3, <3>1, ManagerSame
    <3> QED BY <1>0, <1>1, <3>1, <3>2 DEF NoSleeperLeft, RestTypes
  <2> QED BY <2>1, <2>2
<1>6. TypeOK'
  <2>1. RestTypes'
    BY <1>0, <1>1, <1>5 DEF RestTypes, AllEvs, DoneEvs, DoneEv, AddEv, ExitEv
  <2> QED BY <1>3, <2>1, TypeParts
<1>7. EventsTrue'
  <2>1. \A v \in Workers : wpc'[v] = IF v = w THEN "none" ELSE wpc[v]
    BY <1>0, <1>1 DEF PoolTypes
  <2>2. \A v \in Workers : ExitEv(v) \in posted' => wpc'[v] = "exited"
    BY <1>0, <1>1, <2>1 DEF EventsTrue
  <2>3. ASSUME NEW v \in Workers, NEW q \in Reqs, DoneEv(q, v) \in posted' PROVE wpc'[v] # "none"
    <3>1. DoneEv(q, v) \in posted /\ DoneEv(q, v).by = v /\ DoneEv(q, v) # ExitEv(w)
      BY <1>1, <2>3, EvShapes
    <3>2. v # w
      BY <1>1, <3>1
    <3> QED BY <1>0, <2>1, <3>1, <3>2 DEF EventsTrue
  <2>4. \A q \in Reqs : AddEv(q) \in posted' => q.kind = "bg"
    BY <1>0, <1>1 DEF EventsTrue
  <2> QED BY <2>2, <2>3, <2>4 DEF EventsTrue
<1>8. Requests'
  <2>1. \A q \in Reqs : RunBy(q)' = RunBy(q) /\ InPost(q)' = InPost(q)
    BY <1>1, ExitPostFacts DEF RunBy
  <2>2. \A q \in Reqs : Kept(q)
    BY <2>1 DEF Kept
  <2> QED BY <1>0, <1>1, <2>2, RequestsSame
<1> QED BY <1>3, <1>5, <1>6, <1>7, <1>8 DEF IInv

\* A request is given to a worker by an action that changes no channel, or
\* one channel that is registered as shutdown.c knows.
LEMMA ServesKeeps ==
    ASSUME IInv, NEW r \in Reqs \cup {TimerReq}, NEW s, PoolServes(r, s), Grown(sd, s),
           ~sd.complete, dpc' = dpc, iter' = iter, timer_started' \in BOOLEAN,
           chan' \in [Chans -> {"none", "connecting", "open", "closing", "draining"}],
           s.state["channel"] # "STOPPED" <=> \E c \in Chans : Registered(chan'[c]),
           posted' \subseteq posted, Requests'
    PROVE  IInv'
<1>0. TypeOK /\ Books /\ EventsTrue /\ NoSleeperLeft /\ Manager /\ RestTypes
  BY TypeParts DEF IInv
<1>1. /\ PoolTypes' /\ Books' /\ (wtlist = << >> => wtlist' = << >>) /\ wtrunning_count' > 0
      /\ Grown(s, sd') /\ sd'.state["async"] # "STOPPED"
      /\ sd'.state["channel"] = s.state["channel"]
  BY DEF PoolServes
<1>2. Grown(sd, sd')
  BY <1>1, GrownTwice
<1>3. sd'.state["channel"] # "STOPPED" <=> \E c \in Chans : Registered(chan'[c])
  BY <1>1
<1>4. Manager' /\ NoSleeperLeft'
  BY <1>0, <1>1, <1>2, <1>3, ManagerGrown
<1>5. TypeOK'
  <2>1. sd' \in ShutdownRec
    BY <1>2 DEF Grown, Known
  <2>2. RestTypes'
    BY <1>0, <2>1 DEF RestTypes, AllEvs, DoneEvs, DoneEv, AddEv, ExitEv
  <2> QED BY <1>1, <2>2, TypeParts
<1>6. EventsTrue'
  <2>1. PICK w \in Workers : Handed(r, w)
    BY DEF PoolServes
  <2> QED BY <1>0, <2>1, ServesEvents
<1> QED BY <1>1, <1>4, <1>5, <1>6 DEF IInv

\* What the actions below know of the pool and of shutdown.c.
LEMMA PoolKnown ==
    ASSUME IInv
    PROVE  /\ TypeOK /\ Books /\ Requests /\ Manager /\ PoolTypes /\ RestTypes
           /\ Known(sd) /\ Grown(sd, sd)
           /\ sd.state["async"] # "STOPPED" <=> wtrunning_count > 0
           /\ sd.state["channel"] # "STOPPED" <=> \E c \in Chans : Registered(chan[c])
<1>1. TypeOK /\ Books /\ Requests /\ Manager /\ PoolTypes /\ RestTypes
  BY TypeParts DEF IInv
<1>2. /\ Known(sd)
      /\ sd.state["async"] # "STOPPED" <=> wtrunning_count > 0
      /\ sd.state["channel"] # "STOPPED" <=> \E c \in Chans : Registered(chan[c])
  BY <1>1 DEF Manager
<1> QED BY <1>1, <1>2, GrownSame

\* The timer's request is posted once.
LEMMA StartTimerKeeps ==
    ASSUME IInv, StartTimer
    PROVE  IInv'
<1>0. /\ TypeOK /\ Books /\ Requests /\ PoolTypes /\ RestTypes /\ Known(sd) /\ Grown(sd, sd)
      /\ sd.state["async"] # "STOPPED" <=> wtrunning_count > 0
      /\ sd.state["channel"] # "STOPPED" <=> \E c \in Chans : Registered(chan[c])
  BY PoolKnown
<1>1. /\ ~sd.complete /\ AsyncReqPost(TimerReq, sd) /\ timer_started' = TRUE
      /\ posted' = posted /\ chan' = chan /\ dpc' = dpc /\ iter' = iter
  BY DEF StartTimer, Ready
<1>2. PoolServes(TimerReq, sd)
  BY <1>0, <1>1, PostServes
<1>3. Requests'
  <2>1. PICK w \in Workers : Handed(TimerReq, w)
    BY <1>2 DEF PoolServes
  <2>2. \A q \in Reqs : Kept(q)
    BY <1>0, <1>1, <2>1, ServesTimer
  <2> QED BY <1>0, <1>1, <2>2, RequestsSame
<1>4. /\ chan' \in [Chans -> {"none", "connecting", "open", "closing", "draining"}]
      /\ sd.state["channel"] # "STOPPED" <=> \E c \in Chans : Registered(chan'[c])
  BY <1>0, <1>1 DEF RestTypes
<1> QED BY <1>0, <1>1, <1>2, <1>3, <1>4, ServesKeeps

\* The deferred worker_thread_add() of a background thread.
LEMMA WorkerThreadAddDeferredKeeps ==
    ASSUME IInv, NEW r \in Reqs, WorkerThreadAddDeferred(r)
    PROVE  IInv'
<1>0. /\ TypeOK /\ Books /\ Requests /\ PoolTypes /\ RestTypes /\ Known(sd) /\ Grown(sd, sd)
      /\ sd.state["async"] # "STOPPED" <=> wtrunning_count > 0
      /\ sd.state["channel"] # "STOPPED" <=> \E c \in Chans : Registered(chan[c])
  BY PoolKnown
<1>1. /\ ~sd.complete /\ AddEv(r) \in posted /\ posted' = posted \ {AddEv(r)}
      /\ WorkerThreadAdd(r, sd) /\ timer_started' = timer_started
      /\ chan' = chan /\ dpc' = dpc /\ iter' = iter
  BY DEF WorkerThreadAddDeferred, Ready
<1>2. PoolServes(r, sd)
  BY <1>0, <1>1, AddServes
<1>3. Requests'
  <2>1. PICK w \in Workers : Handed(r, w)
    BY <1>2 DEF PoolServes
  <2>2. OnePlace(r) /\ AddEv(r) \in InPost(r)
    BY <1>0, <1>1 DEF Requests, InPost
  <2>3. RunBy(r) = {} /\ InPost(r) = {AddEv(r)} /\ ~Free(r)
    BY <2>2, EventAlone
  <2>4. InPost(r)' = {} /\ \A q \in Reqs : q # r => InPost(q)' = InPost(q)
    <3>1. InPost(r)' = InPost(r) \ {AddEv(r)} /\ \A q \in Reqs : q # r => InPost(q)' = InPost(q)
      BY <1>1, TakeFacts
    <3> QED BY <2>3, <3>1
  <2>5. Running(r)' /\ OthersKept(r)
    BY <1>0, <2>1, <2>3, <2>4, ServesRequest
  <2>6. OnePlace(r)' /\ ~Free(r)'
    BY <2>5 DEF OnePlace, Running, Free
  <2> QED BY <1>0, <1>1, <2>3, <2>5, <2>6, RequestsOne
<1>4. /\ chan' \in [Chans -> {"none", "connecting", "open", "closing", "draining"}]
      /\ sd.state["channel"] # "STOPPED" <=> \E c \in Chans : Registered(chan'[c])
      /\ timer_started' \in BOOLEAN /\ posted' \subseteq posted
  BY <1>0, <1>1 DEF RestTypes
<1> QED BY <1>0, <1>1, <1>2, <1>3, <1>4, ServesKeeps

\* When the shutdown is complete there is no thread, and none is idle.
LEMMA CompleteNoThreads ==
    ASSUME IInv, sd.complete
    PROVE  /\ wtrunning_count = 0 /\ wtlist = << >>
           /\ \A w \in Workers : wpc[w] = "none"
           /\ \A c \in Chans : ~Registered(chan[c])
<1>0. TypeOK /\ Books /\ Manager /\ PoolTypes
  BY PoolKnown
<1>1. sd.active = << >> /\ ActiveExact(sd)
  BY <1>0 DEF Manager, Known
<1>2. \A o \in Objs : sd.state[o] = "STOPPED"
  <2>1. ToSet(sd.active) = {}
    BY <1>1 DEF ToSet
  <2> QED BY <1>1, <2>1 DEF ActiveExact
<1>3. ~(wtrunning_count > 0) /\ \A c \in Chans : ~Registered(chan[c])
  BY <1>0, <1>2, ConstantAssumption DEF Manager
<1>4. wtrunning_count = 0
  BY <1>0, <1>3 DEF PoolTypes
<1>5. \A w \in Workers : wpc[w] = "none"
  <2>1. Live \in SUBSET Workers /\ Cardinality(Live) = 0
    BY <1>0, <1>4 DEF Books, Live
  <2>2. Live = {}
    BY <2>1, ThreadSets
  <2> QED BY <2>2 DEF Live
<1>6. wtlist = << >>
  <2>1. ToSet(wtlist) = {} /\ wtlist \in Seq(Workers)
    BY <1>0, <1>5 DEF Books, PoolTypes
  <2>2. ASSUME wtlist # << >> PROVE FALSE
    <3>1. 1 \in 1..Len(wtlist)
      BY <2>1, <2>2
    <3>2. wtlist[1] \in ToSet(wtlist)
      <4>1. ToSet(wtlist) = {wtlist[i] : i \in 1..Len(wtlist)}
        BY <2>1, ToSetSeq
      <4> QED BY <3>1, <4>1
    <3> QED BY <2>1, <3>2
  <2> QED BY <2>2
<1> QED BY <1>3, <1>4, <1>5, <1>6

\* A background thread posts a request.
LEMMA BgPostKeeps ==
    ASSUME IInv, NEW b \in BgReqs, BgPost(b)
    PROVE  IInv'
<1> DEFINE r == [chan |-> b, kind |-> "bg"]
<1>0. /\ TypeOK /\ Books /\ Requests /\ Manager /\ PoolTypes /\ RestTypes /\ Known(sd) /\ Grown(sd, sd)
      /\ sd.state["async"] # "STOPPED" <=> wtrunning_count > 0
      /\ sd.state["channel"] # "STOPPED" <=> \E c \in Chans : Registered(chan[c])
  BY PoolKnown
<1>1. r \in Reqs /\ r.kind = "bg"
  BY ReqShapes
<1>2. /\ ~Outstanding(r) /\ timer_started' = timer_started
      /\ chan' = chan /\ dpc' = dpc /\ iter' = iter
      /\ \/ GiveToIdle(r, sd) /\ posted' = posted
         \/ /\ posted' = posted \cup {AddEv(r)}
            /\ wpc' = wpc /\ wreq' = wreq /\ wtlist' = wtlist
            /\ wtrunning_count' = wtrunning_count /\ sd' = sd
  BY Zenon DEF BgPost
<1> HIDE DEF r
<1>3. RunBy(r) = {} /\ InPost(r) = {}
  BY <1>1, <1>2, OutstandingFree DEF Free
<1>4. CASE GiveToIdle(r, sd) /\ posted' = posted
  <2>1. PoolServes(r, sd)
    BY <1>0, <1>1, <1>4, GiveServes
  <2>2. Requests'
    <3>1. PICK w \in Workers : Handed(r, w)
      BY <2>1 DEF PoolServes
    <3>2. \A q \in Reqs : InPost(q)' = InPost(q)
      BY <1>4 DEF InPost, DoneEvs, DoneEv, AddEv
    <3>3. Running(r)' /\ OthersKept(r)
      BY <1>0, <1>1, <1>3, <3>1, <3>2, ServesRequest
    <3>4. OnePlace(r)'
      BY <3>3 DEF OnePlace
    <3> QED BY <1>0, <1>1, <1>2, <3>3, <3>4, RequestsOne
  <2>3. /\ chan' \in [Chans -> {"none", "connecting", "open", "closing", "draining"}]
        /\ sd.state["channel"] # "STOPPED" <=> \E c \in Chans : Registered(chan'[c])
        /\ timer_started' \in BOOLEAN /\ posted' \subseteq posted
    BY <1>0, <1>2, <1>4 DEF RestTypes
  <2>4. ~sd.complete
    BY <1>4, CompleteNoThreads DEF GiveToIdle, IdleWorker
  <2> QED BY <1>0, <1>1, <1>2, <1>3, <2>1, <2>2, <2>3, <2>4, ServesKeeps
<1>5. CASE /\ posted' = posted \cup {AddEv(r)}
           /\ wpc' = wpc /\ wreq' = wreq /\ wtlist' = wtlist
           /\ wtrunning_count' = wtrunning_count /\ sd' = sd
  <2>1. PoolTypes'
    BY <1>0, <1>5 DEF PoolTypes
  <2>2. Books'
    BY <1>0, <1>5 DEF Books, Live, NoRepeat
  <2>3. TypeOK'
    <3>1. RestTypes'
      BY <1>0, <1>1, <1>2, <1>5, EvTypes DEF RestTypes, AllEvs, DoneEvs, DoneEv, AddEv, ExitEv
    <3> QED BY <2>1, <3>1, TypeParts
  <2>4. EventsTrue'
    <3>1. EventsTrue
      BY DEF IInv
    <3>2. \A v \in Workers : ExitEv(v) \in posted' => wpc'[v] = "exited"
      BY <1>5, <3>1, EvShapes DEF EventsTrue
    <3>3. \A v \in Workers, q \in Reqs : DoneEv(q, v) \in posted' => wpc'[v] # "none"
      BY <1>5, <3>1, EvShapes DEF EventsTrue
    <3>4. \A q \in Reqs : AddEv(q) \in posted' => q.kind = "bg"
      BY <1>1, <1>5, <3>1, EvShapes DEF EventsTrue
    <3> QED BY <3>2, <3>3, <3>4 DEF EventsTrue
  <2>5. Requests'
    <3>1. InPost(r)' = {AddEv(r)} /\ \A q \in Reqs : q # r => InPost(q)' = InPost(q)
      <4>1. InPost(r)' = InPost(r) \cup {AddEv(r)} /\ \A q \in Reqs : q # r => InPost(q)' = InPost(q)
        BY <1>1, <1>5, PostFacts
      <4> QED BY <1>3, <4>1
    <3>2. RunBy(r)' = {} /\ \A q \in Reqs : RunBy(q)' = RunBy(q)
      BY <1>3, <1>5 DEF RunBy
    <3>3. Waiting(r)'
      BY <1>5, <3>1, <3>2 DEF Waiting
    <3>4. OnePlace(r)' /\ OthersKept(r)
      BY <3>1, <3>2, <3>3 DEF OnePlace, OthersKept, Kept
    <3> QED BY <1>0, <1>1, <1>2, <3>4, RequestsOne
  <2>6. NoSleeperLeft'
    BY <1>2, <1>5 DEF NoSleeperLeft, IInv
  <2>7. Manager'
    BY <1>0, <1>2, <1>5, ManagerSame
  <2> QED BY <2>2, <2>3, <2>4, <2>5, <2>6, <2>7 DEF IInv
<1> QED BY <1>2, <1>4, <1>5

\* The pool is left alone and events are dispatched.
LEMMA PoolQuiet ==
    ASSUME IInv, UNCHANGED <<wpc, wreq, wtlist, wtrunning_count>>, posted' \subseteq posted
    PROVE  /\ PoolTypes' /\ Books' /\ EventsTrue' /\ posted' \subseteq AllEvs
           /\ \A q \in Reqs : RunBy(q)' = RunBy(q)
<1>0. TypeOK /\ Books /\ EventsTrue /\ PoolTypes /\ RestTypes
  BY TypeParts DEF IInv
<1>1. PoolTypes'
  BY <1>0 DEF PoolTypes
<1>2. Books'
  BY <1>0 DEF Books, Live, NoRepeat
<1>3. EventsTrue'
  BY <1>0 DEF EventsTrue, ExitEv, DoneEv, AddEv
<1>4. posted' \subseteq AllEvs
  BY <1>0 DEF RestTypes
<1>5. \A q \in Reqs : RunBy(q)' = RunBy(q)
  BY DEF RunBy
<1> QED BY <1>1, <1>2, <1>3, <1>4, <1>5

\* The completion of r is dispatched and r is not posted again.
LEMMA DoneDropped ==
    ASSUME IInv, UNCHANGED <<wpc, wreq, wtlist, wtrunning_count>>, NEW r \in Reqs,
           DoneEvs(r) \cap posted # {}, posted' = posted \ DoneEvs(r)
    PROVE  ~Free(r) /\ Free(r)' /\ OnePlace(r)' /\ OthersKept(r)
<1>1. OnePlace(r) /\ posted' \subseteq posted
  BY DEF IInv, Requests
<1>2. /\ ~Free(r) /\ RunBy(r) = {} /\ InPost(r)' = {}
      /\ \A q \in Reqs : q # r => InPost(q)' = InPost(q)
  BY <1>1, DoneTaken
<1>3. \A q \in Reqs : RunBy(q)' = RunBy(q)
  BY <1>1, PoolQuiet
<1> QED BY <1>2, <1>3 DEF Free, OnePlace, OthersKept, Kept

\* The answer to a request of a background thread is handled.
LEMMA BgDoneKeeps ==
    ASSUME IInv, NEW b \in BgReqs, BgDone(b)
    PROVE  IInv'
<1> DEFINE r == [chan |-> b, kind |-> "bg"]
<1>0. TypeOK /\ Requests /\ Manager /\ RestTypes
  BY PoolKnown
<1>1. r \in Reqs /\ r.kind = "bg"
  BY ReqShapes
<1>2. /\ DoneEvs(r) \cap posted # {} /\ posted' = posted \ DoneEvs(r)
      /\ wpc' = wpc /\ wreq' = wreq /\ wtlist' = wtlist /\ wtrunning_count' = wtrunning_count
      /\ sd' = sd /\ chan' = chan /\ dpc' = dpc /\ iter' = iter /\ timer_started' = timer_started
  BY DEF BgDone
<1> HIDE DEF r
<1>3. PoolTypes' /\ Books' /\ EventsTrue' /\ posted' \subseteq AllEvs
  <2>1. posted' \subseteq posted
    BY <1>2
  <2> QED BY <1>2, <2>1, PoolQuiet
<1>4. OnePlace(r)' /\ OthersKept(r)
  BY <1>1, <1>2, DoneDropped
<1>5. Requests'
  BY <1>0, <1>1, <1>2, <1>4, RequestsOne
<1>6. TypeOK'
  <2>1. RestTypes'
    BY <1>0, <1>2, <1>3 DEF RestTypes, AllEvs, DoneEvs, DoneEv, AddEv, ExitEv
  <2> QED BY <1>3, <2>1, TypeParts
<1>7. NoSleeperLeft'
  BY <1>2 DEF IInv, NoSleeperLeft
<1>8. Manager'
  BY <1>0, <1>2, ManagerSame
<1> QED BY <1>3, <1>5, <1>6, <1>7, <1>8 DEF IInv

-----------------------------------------------------------------------------
(* Channels.                                                                *)

ChanStates == {"none", "connecting", "open", "closing", "draining"}

\* One channel changes its state, the others keep theirs.
LEMMA ChanSet ==
    ASSUME RestTypes, NEW c \in Chans, NEW x \in ChanStates, chan' = [chan EXCEPT ![c] = x]
    PROVE  /\ chan' \in [Chans -> ChanStates]
           /\ chan'[c] = x /\ \A d \in Chans : d # c => chan'[d] = chan[d]
  BY DEF RestTypes, ChanStates

\* A request of channel c is posted that was not outstanding.
LEMMA ChanPosts ==
    ASSUME IInv, NEW c \in Chans, NEW r \in {ReadReq(c), WriteReq(c)}, NEW s, Grown(sd, s),
           ~sd.complete, dpc' = dpc, iter' = iter, timer_started' = timer_started,
           s.state["async"] # "STOPPED" <=> wtrunning_count > 0,
           AsyncReqPost(r, s), RunBy(r) = {}, InPost(r)' = {}, posted' \subseteq posted,
           \A q \in Reqs : q # r => InPost(q)' = InPost(q),
           NEW x \in ChanStates, chan' = [chan EXCEPT ![c] = x],
           s.state["channel"] # "STOPPED" <=> \E d \in Chans : Registered(chan'[d]),
           ~Free(r)' /\ (\A q \in Reqs : q # r => (Free(q)' <=> Free(q))) => ChanReqs(c)'
    PROVE  IInv'
<1>0. TypeOK /\ Books /\ Requests /\ PoolTypes /\ RestTypes
  BY PoolKnown
<1>1. r \in Reqs
  BY ReqShapes
<1>2. Known(s)
  BY DEF Grown
<1>3. PoolServes(r, s)
  BY <1>0, <1>1, <1>2, PostServes
<1>4. chan' \in [Chans -> ChanStates] /\ \A d \in Chans : d # c => chan'[d] = chan[d]
  BY <1>0, ChanSet
<1>5. Requests'
  <2>1. PICK w \in Workers : Handed(r, w)
    BY <1>3 DEF PoolServes
  <2>2. Running(r)' /\ OthersKept(r)
    BY <1>0, <1>1, <2>1, ServesRequest
  <2>3. OnePlace(r)' /\ ~Free(r)'
    BY <2>2 DEF OnePlace, Running, Free
  <2>4. \A q \in Reqs : q # r => (Free(q)' <=> Free(q))
    BY <2>2, KeptFacts DEF OthersKept
  <2> QED BY <1>0, <1>4, <2>2, <2>3, <2>4, RequestsChan
<1>6. timer_started' \in BOOLEAN
  BY <1>0 DEF RestTypes
<1> QED BY <1>1, <1>3, <1>4, <1>5, <1>6, ServesKeeps DEF ChanStates

\* channel_tcp.c posts a connect request.
LEMMA ChannelConnectKeeps ==
    ASSUME IInv, NEW c \in Chans, ChannelConnect(c)
    PROVE  IInv'
<1> DEFINE r == ReadReq(c)
<1>0. /\ TypeOK /\ Requests /\ RestTypes /\ Grown(sd, sd)
      /\ sd.state["async"] # "STOPPED" <=> wtrunning_count > 0
      /\ sd.state["channel"] # "STOPPED" <=> \E d \in Chans : Registered(chan[d])
  BY PoolKnown
<1>1. /\ ~sd.complete /\ chan[c] = "none" /\ ~Outstanding(WriteReq(c)) /\ AsyncReqPost(r, sd)
      /\ chan' = [chan EXCEPT ![c] = "connecting"]
      /\ posted' = posted /\ dpc' = dpc /\ iter' = iter /\ timer_started' = timer_started
  BY DEF ChannelConnect, Ready
<1>2. r \in Reqs /\ WriteReq(c) \in Reqs /\ r # WriteReq(c)
  BY ReqShapes
<1>3. ChanReqs(c) /\ Free(r) /\ Free(WriteReq(c))
  BY <1>0, <1>1, <1>2, OutstandingFree DEF Requests, ChanReqs
<1>4. \A q \in Reqs : InPost(q)' = InPost(q)
  BY <1>1 DEF InPost, DoneEvs, DoneEv, AddEv
<1>5. chan'[c] = "connecting" /\ \A d \in Chans : d # c => chan'[d] = chan[d]
  BY <1>0, <1>1, ChanSet DEF ChanStates
<1>6. sd.state["channel"] # "STOPPED" <=> \E d \in Chans : Registered(chan'[d])
  BY <1>0, <1>1, <1>5 DEF Registered
<1>7. ~Free(r)' /\ (\A q \in Reqs : q # r => (Free(q)' <=> Free(q))) => ChanReqs(c)'
  BY <1>2, <1>3, <1>5 DEF ChanReqs
<1>8. RunBy(r) = {} /\ InPost(r)' = {} /\ posted' \subseteq posted /\ "connecting" \in ChanStates
  BY <1>1, <1>2, <1>3, <1>4 DEF Free, ChanStates
<1> HIDE DEF r
<1>9. r \in {ReadReq(c), WriteReq(c)}
  BY DEF r
<1> QED BY <1>0, <1>1, <1>4, <1>6, <1>7, <1>8, <1>9, ChanPosts

\* channel_close(), from a user or from trigger_channel_shutdown().
LEMMA ChannelCloseKeeps ==
    ASSUME IInv, NEW c \in Chans, ChannelClose(c), ~sd.complete,
           UNCHANGED <<posted, dpc, iter, timer_started>>
    PROVE  IInv'
<1> DEFINE r == WriteReq(c)
<1>0. /\ TypeOK /\ Requests /\ RestTypes /\ Grown(sd, sd)
      /\ sd.state["async"] # "STOPPED" <=> wtrunning_count > 0
      /\ sd.state["channel"] # "STOPPED" <=> \E d \in Chans : Registered(chan[d])
  BY PoolKnown
<1>1. chan[c] = "open" /\ AsyncReqPost(r, sd) /\ chan' = [chan EXCEPT ![c] = "closing"]
  BY DEF ChannelClose
<1>2. r \in Reqs /\ ReadReq(c) \in Reqs /\ r # ReadReq(c)
  BY ReqShapes
<1>3. ChanReqs(c) /\ Free(r) /\ ~Free(ReadReq(c))
  BY <1>0, <1>1 DEF Requests, ChanReqs
<1>4. \A q \in Reqs : InPost(q)' = InPost(q)
  BY DEF InPost, DoneEvs, DoneEv, AddEv
<1>5. chan'[c] = "closing" /\ \A d \in Chans : d # c => chan'[d] = chan[d]
  BY <1>0, <1>1, ChanSet DEF ChanStates
<1>6. sd.state["channel"] # "STOPPED" <=> \E d \in Chans : Registered(chan'[d])
  BY <1>0, <1>1, <1>5 DEF Registered
<1>7. ~Free(r)' /\ (\A q \in Reqs : q # r => (Free(q)' <=> Free(q))) => ChanReqs(c)'
  BY <1>2, <1>3, <1>5 DEF ChanReqs
<1>8. RunBy(r) = {} /\ InPost(r)' = {} /\ posted' \subseteq posted /\ "closing" \in ChanStates
  BY <1>2, <1>3, <1>4 DEF Free, ChanStates
<1> HIDE DEF r
<1>9. r \in {ReadReq(c), WriteReq(c)}
  BY DEF r
<1> QED BY <1>0, <1>1, <1>4, <1>6, <1>7, <1>8, <1>9, ChanPosts

\* A completion is dispatched, no request is posted, channel c enters x.
LEMMA ChanEnters ==
    ASSUME IInv, UNCHANGED <<wpc, wreq, wtlist, wtrunning_count, dpc, iter, timer_started>>,
           NEW c \in Chans, NEW r \in {ReadReq(c), WriteReq(c)},
           DoneEvs(r) \cap posted # {}, posted' = posted \ DoneEvs(r),
           NEW x \in ChanStates, chan' = [chan EXCEPT ![c] = x],
           Free(r)' /\ (\A q \in Reqs : q # r => (Free(q)' <=> Free(q))) => ChanReqs(c)',
           Manager' /\ sd' \in ShutdownRec /\ NoSleeperLeft'
    PROVE  IInv'
<1>0. TypeOK /\ Requests /\ RestTypes
  BY PoolKnown
<1>1. r \in Reqs /\ posted' \subseteq posted
  BY ReqShapes
<1>2. PoolTypes' /\ Books' /\ EventsTrue' /\ posted' \subseteq AllEvs
  BY <1>1, PoolQuiet
<1>3. Free(r)' /\ OnePlace(r)' /\ OthersKept(r)
  BY <1>1, DoneDropped
<1>4. \A q \in Reqs : q # r => (Free(q)' <=> Free(q))
  BY <1>3, KeptFacts DEF OthersKept
<1>5. chan' \in [Chans -> ChanStates] /\ \A d \in Chans : d # c => chan'[d] = chan[d]
  BY <1>0, ChanSet
<1>6. Requests'
  BY <1>0, <1>3, <1>4, <1>5, RequestsChan
<1>7. TypeOK'
  <2>1. RestTypes'
    BY <1>0, <1>2, <1>5 DEF RestTypes, ChanStates, AllEvs, DoneEvs, DoneEv, AddEv, ExitEv
  <2> QED BY <1>2, <2>1, TypeParts
<1> QED BY <1>2, <1>6, <1>7 DEF IInv

\* channel_tcp.c handles the answer to its connect request.
LEMMA ConnectDoneKeeps ==
    ASSUME IInv, NEW c \in Chans, ConnectDone(c)
    PROVE  IInv'
<1> DEFINE r == ReadReq(c)
           s == SetNormal(sd, "channel")
<1>0. /\ TypeOK /\ Requests /\ RestTypes /\ Manager /\ Known(sd)
      /\ sd.state["async"] # "STOPPED" <=> wtrunning_count > 0
      /\ sd.state["channel"] # "STOPPED" <=> \E d \in Chans : Registered(chan[d])
  BY PoolKnown
<1>1. /\ ~sd.complete /\ chan[c] = "connecting"
      /\ DoneEvs(r) \cap posted # {} /\ posted' = posted \ DoneEvs(r)
      /\ dpc' = dpc /\ iter' = iter /\ timer_started' = timer_started
      /\ \/ chan' = [chan EXCEPT ![c] = "open"] /\ AsyncReqPost(r, s)
         \/ /\ chan' = [chan EXCEPT ![c] = "none"]
            /\ UNCHANGED <<wpc, wreq, wtlist, wtrunning_count, sd>>
  BY DEF ConnectDone, Ready
<1>2. r \in Reqs /\ WriteReq(c) \in Reqs /\ r # WriteReq(c)
  BY ReqShapes
<1>3. ChanReqs(c) /\ Free(WriteReq(c)) /\ OnePlace(r)
  BY <1>0, <1>1, <1>2 DEF Requests, ChanReqs
<1>4. "open" \in ChanStates /\ "none" \in ChanStates /\ posted' \subseteq posted
  BY <1>1 DEF ChanStates
<1>5. r \in {ReadReq(c), WriteReq(c)}
  OBVIOUS
<1>6. RunBy(r) = {} /\ InPost(r)' = {} /\ \A q \in Reqs : q # r => InPost(q)' = InPost(q)
  BY <1>1, <1>2, <1>3, DoneTaken
<1>7. "async" \in Objs /\ "channel" \in Objs /\ "async" # "channel"
  BY ConstantAssumption
<1>8. CASE chan' = [chan EXCEPT ![c] = "open"] /\ AsyncReqPost(r, s)
  <2>1. Grown(sd, s) /\ s.state["channel"] = "NORMAL" /\ s.state["async"] = sd.state["async"]
    BY <1>0, <1>7, GrownNormal
  <2> HIDE DEF r, s
  <2>2. chan'[c] = "open"
    BY <1>0, <1>4, <1>8, ChanSet
  <2>3. s.state["channel"] # "STOPPED" <=> \E d \in Chans : Registered(chan'[d])
    BY <2>1, <2>2 DEF Registered
  <2>4. ~Free(r)' /\ (\A q \in Reqs : q # r => (Free(q)' <=> Free(q))) => ChanReqs(c)'
    BY <1>2, <1>3, <2>2 DEF ChanReqs, r
  <2>5. s.state["async"] # "STOPPED" <=> wtrunning_count > 0
    BY <1>0, <2>1
  <2> QED BY <1>1, <1>4, <1>5, <1>6, <1>8, <2>1, <2>3, <2>4, <2>5, ChanPosts
<1>9. CASE /\ chan' = [chan EXCEPT ![c] = "none"]
           /\ UNCHANGED <<wpc, wreq, wtlist, wtrunning_count, sd>>
  <2> HIDE DEF r, s
  <2>1. chan'[c] = "none" /\ \A d \in Chans : d # c => chan'[d] = chan[d]
    BY <1>0, <1>4, <1>9, ChanSet
  <2>2. Free(r)' /\ (\A q \in Reqs : q # r => (Free(q)' <=> Free(q))) => ChanReqs(c)'
    BY <1>2, <1>3, <2>1 DEF ChanReqs, r
  <2>3. (\E d \in Chans : Registered(chan'[d])) <=> \E d \in Chans : Registered(chan[d])
    BY <1>1, <2>1 DEF Registered
  <2>4. Manager'
    <3>1. Known(sd)' /\ GoesOn(sd)'
      BY <1>0, <1>9 DEF Manager, Known, GoesOn, ShutdownRec, ActiveExact
    <3> QED BY <1>0, <1>1, <1>9, <2>3, <3>1 DEF Manager, Registered
  <2>5. sd' \in ShutdownRec
    BY <1>0, <1>9 DEF RestTypes
  <2>6. NoSleeperLeft'
    BY <1>1, <1>9 DEF NoSleeperLeft, IInv
  <2> QED BY <1>1, <1>4, <1>5, <1>9, <2>2, <2>4, <2>5, <2>6, ChanEnters
<1> QED BY <1>1, <1>8, <1>9

\* delete_channel() of a channel that had registered.
LEMMA DeleteChannelManager ==
    ASSUME IInv, NEW c \in Chans, DeleteChannel(c), Registered(chan[c]), dpc = "idle", ~sd.complete,
           UNCHANGED <<dpc, iter, wtlist, wtrunning_count>>
    PROVE  Manager' /\ sd' \in ShutdownRec /\ NoSleeperLeft'
<1>0. /\ TypeOK /\ RestTypes /\ Manager /\ Known(sd) /\ NoSleeperLeft
      /\ sd.state["async"] # "STOPPED" <=> wtrunning_count > 0
      /\ sd.state["channel"] # "STOPPED" <=> \E d \in Chans : Registered(chan[d])
  BY PoolKnown DEF IInv
<1>1. /\ chan' = [chan EXCEPT ![c] = "none"]
      /\ sd' = IF LastChannel(c) THEN SetStopped(sd, "channel") ELSE sd
  BY DEF DeleteChannel
<1>2. chan'[c] = "none" /\ \A d \in Chans : d # c => chan'[d] = chan[d]
  BY <1>0, <1>1, ChanSet DEF ChanStates
<1>3. LastChannel(c) <=> ~\E d \in Chans : Registered(chan'[d])
  BY <1>2 DEF LastChannel, Registered
<1>4. "async" \in Objs /\ "channel" \in Objs /\ "async" # "channel"
  BY ConstantAssumption
<1>5. CASE LastChannel(c)
  <2>1. sd' = SetStopped(sd, "channel")
    BY <1>1, <1>5
  <2>2. sd'.state = [sd.state EXCEPT !["channel"] = "STOPPED"]
    BY <1>0, <1>4, <2>1, SetStoppedFacts
  <2>3. sd.state \in [Objs -> {"STOPPED", "NORMAL", "PENDING"}]
    BY <1>0 DEF RestTypes, ShutdownRec
  <2>4. sd'.state["channel"] = "STOPPED" /\ sd'.state["async"] = sd.state["async"]
    BY <1>4, <2>2, <2>3
  <2>5. /\ sd'.state["async"] # "STOPPED" <=> wtrunning_count' > 0
        /\ sd'.state["channel"] # "STOPPED" <=> \E d \in Chans : Registered(chan'[d])
    BY <1>0, <1>3, <1>5, <2>4
  <2>6. Manager' /\ sd' \in ShutdownRec
    BY <1>0, <1>4, <2>1, <2>5, ManagerStopped
  <2> QED BY <1>0, <2>4, <2>6 DEF NoSleeperLeft
<1>6. CASE ~LastChannel(c)
  <2>1. sd' = sd /\ (\E d \in Chans : Registered(chan'[d])) /\ sd.state["channel"] # "STOPPED"
    BY <1>0, <1>1, <1>3, <1>6
  <2>2. Known(sd)' /\ GoesOn(sd)'
    BY <1>0, <2>1 DEF Manager, Known, GoesOn, ShutdownRec, ActiveExact
  <2>3. Manager'
    BY <1>0, <2>1, <2>2 DEF Manager, Registered
  <2> QED BY <1>0, <2>1, <2>3 DEF NoSleeperLeft, RestTypes
<1> QED BY <1>5, <1>6

\* channel_tcp.c handles the end of a read.
LEMMA ReadDoneKeeps ==
    ASSUME IInv, NEW c \in Chans, ReadDone(c)
    PROVE  IInv'
<1> DEFINE r == ReadReq(c)
<1>0. /\ TypeOK /\ Requests /\ RestTypes /\ Manager /\ Known(sd) /\ Grown(sd, sd)
      /\ sd.state["async"] # "STOPPED" <=> wtrunning_count > 0
      /\ sd.state["channel"] # "STOPPED" <=> \E d \in Chans : Registered(chan[d])
  BY PoolKnown
<1>1. /\ dpc = "idle" /\ ~sd.complete
      /\ DoneEvs(r) \cap posted # {} /\ posted' = posted \ DoneEvs(r)
      /\ dpc' = dpc /\ iter' = iter /\ timer_started' = timer_started
      /\ \/ chan[c] \in {"open", "closing"} /\ AsyncReqPost(r, sd) /\ chan' = chan
         \/ /\ chan[c] = "closing" /\ ~Outstanding(WriteReq(c)) /\ DeleteChannel(c)
            /\ UNCHANGED <<wpc, wreq, wtlist, wtrunning_count>>
         \/ /\ chan[c] = "closing" /\ Outstanding(WriteReq(c))
            /\ chan' = [chan EXCEPT ![c] = "draining"]
            /\ UNCHANGED <<wpc, wreq, wtlist, wtrunning_count, sd>>
  BY DEF ReadDone, Ready
<1>2. r \in Reqs /\ WriteReq(c) \in Reqs /\ r # WriteReq(c)
  BY ReqShapes
<1>3. ChanReqs(c) /\ OnePlace(r) /\ r \in {ReadReq(c), WriteReq(c)}
  BY <1>0, <1>2 DEF Requests
<1>4. posted' \subseteq posted
  BY <1>1
<1>5. RunBy(r) = {} /\ InPost(r)' = {} /\ \A q \in Reqs : q # r => InPost(q)' = InPost(q)
  BY <1>1, <1>2, <1>3, DoneTaken
<1>6. Outstanding(WriteReq(c)) <=> ~Free(WriteReq(c))
  BY <1>2, OutstandingFree
<1>7. CASE chan[c] \in {"open", "closing"} /\ AsyncReqPost(r, sd) /\ chan' = chan
  <2> HIDE DEF r
  <2>1. /\ chan[c] \in ChanStates /\ chan' = [chan EXCEPT ![c] = chan[c]]
        /\ chan'[c] = chan[c]
    BY <1>0, <1>7 DEF RestTypes, ChanStates
  <2>2. sd.state["channel"] # "STOPPED" <=> \E d \in Chans : Registered(chan'[d])
    BY <1>0, <1>7
  <2>3. ~Free(r)' /\ (\A q \in Reqs : q # r => (Free(q)' <=> Free(q))) => ChanReqs(c)'
    BY <1>2, <1>3, <1>7, <2>1 DEF ChanReqs, r
  <2>4. AsyncReqPost(r, sd) /\ ~sd.complete /\ dpc' = dpc /\ iter' = iter /\ timer_started' = timer_started
    BY <1>1, <1>7
  <2> QED BY <1>0, <1>3, <1>4, <1>5, <2>1, <2>2, <2>3, <2>4, ChanPosts
<1>8. CASE /\ chan[c] = "closing" /\ ~Outstanding(WriteReq(c)) /\ DeleteChannel(c)
           /\ UNCHANGED <<wpc, wreq, wtlist, wtrunning_count>>
  <2> HIDE DEF r
  <2>1. "none" \in ChanStates /\ chan' = [chan EXCEPT ![c] = "none"] /\ Registered(chan[c])
    BY <1>8 DEF DeleteChannel, ChanStates, Registered
  <2>2. chan'[c] = "none"
    BY <1>0, <2>1, ChanSet
  <2>3. Free(r)' /\ (\A q \in Reqs : q # r => (Free(q)' <=> Free(q))) => ChanReqs(c)'
    BY <1>2, <1>6, <1>8, <2>2 DEF ChanReqs, r
  <2>4. Manager' /\ sd' \in ShutdownRec /\ NoSleeperLeft'
    BY <1>1, <1>8, <2>1, DeleteChannelManager
  <2> QED BY <1>1, <1>3, <1>8, <2>1, <2>3, <2>4, ChanEnters
<1>9. CASE /\ chan[c] = "closing" /\ Outstanding(WriteReq(c))
           /\ chan' = [chan EXCEPT ![c] = "draining"]
           /\ UNCHANGED <<wpc, wreq, wtlist, wtrunning_count, sd>>
  <2> HIDE DEF r
  <2>1. /\ "draining" \in ChanStates
        /\ chan'[c] = "draining" /\ \A d \in Chans : d # c => chan'[d] = chan[d]
    BY <1>0, <1>9, ChanSet DEF ChanStates
  <2>2. Free(r)' /\ (\A q \in Reqs : q # r => (Free(q)' <=> Free(q))) => ChanReqs(c)'
    BY <1>2, <1>6, <1>9, <2>1 DEF ChanReqs, r
  <2>3. (\E d \in Chans : Registered(chan'[d])) <=> \E d \in Chans : Registered(chan[d])
    BY <1>9, <2>1 DEF Registered
  <2>4. Manager'
    <3>1. Known(sd)' /\ GoesOn(sd)'
      BY <1>0, <1>9 DEF Manager, Known, GoesOn, ShutdownRec, ActiveExact
    <3> QED BY <1>0, <1>1, <1>9, <2>3, <3>1 DEF Manager, Registered
  <2>5. sd' \in ShutdownRec
    BY <1>0, <1>9 DEF RestTypes
  <2>6. NoSleeperLeft'
    BY <1>1, <1>9 DEF NoSleeperLeft, IInv
  <2> QED BY <1>1, <1>3, <1>9, <2>1, <2>2, <2>4, <2>5, <2>6, ChanEnters
<1> QED BY <1>1, <1>7, <1>8, <1>9

\* channel_tcp.c handles the end of a write.
LEMMA WriteDoneKeeps ==
    ASSUME IInv, NEW c \in Chans, WriteDone(c)
    PROVE  IInv'
<1> DEFINE r == WriteReq(c)
<1>0. TypeOK /\ Requests /\ RestTypes /\ Manager
  BY PoolKnown
<1>1. /\ dpc = "idle" /\ ~sd.complete
      /\ DoneEvs(r) \cap posted # {} /\ posted' = posted \ DoneEvs(r)
      /\ IF chan[c] = "draining" THEN DeleteChannel(c) ELSE chan' = chan /\ sd' = sd
      /\ wpc' = wpc /\ wreq' = wreq /\ wtlist' = wtlist /\ wtrunning_count' = wtrunning_count
      /\ dpc' = dpc /\ iter' = iter /\ timer_started' = timer_started
  BY DEF WriteDone, Ready
<1>2. r \in Reqs /\ ReadReq(c) \in Reqs /\ r # ReadReq(c)
  BY ReqShapes
<1>3. ChanReqs(c) /\ r \in {ReadReq(c), WriteReq(c)}
  BY <1>0 DEF Requests
<1>4. ~Free(r)
  BY <1>1, <1>2, DoneDropped
<1>5. CASE chan[c] = "draining"
  <2> HIDE DEF r
  <2>0. DeleteChannel(c)
    BY <1>1, <1>5
  <2>1. "none" \in ChanStates /\ chan' = [chan EXCEPT ![c] = "none"] /\ Registered(chan[c])
    BY <1>5, <2>0 DEF DeleteChannel, ChanStates, Registered
  <2>2. chan'[c] = "none"
    BY <1>0, <2>1, ChanSet
  <2>3. Free(r)' /\ (\A q \in Reqs : q # r => (Free(q)' <=> Free(q))) => ChanReqs(c)'
    BY <1>2, <1>3, <1>5, <2>2 DEF ChanReqs, r
  <2>4. Manager' /\ sd' \in ShutdownRec /\ NoSleeperLeft'
    BY <1>1, <2>0, <2>1, DeleteChannelManager
  <2> QED BY <1>1, <1>3, <2>1, <2>3, <2>4, ChanEnters
<1>6. CASE chan[c] # "draining"
  <2>0. chan' = chan /\ sd' = sd
    BY <1>1, <1>6
  <2>1. chan[c] = "closing"
    BY <1>0, <1>3, <1>4, <1>6 DEF ChanReqs, RestTypes
  <2> HIDE DEF r
  <2>2. "closing" \in ChanStates /\ chan' = [chan EXCEPT ![c] = "closing"] /\ chan'[c] = "closing"
    BY <1>0, <2>0, <2>1 DEF RestTypes, ChanStates
  <2>3. Free(r)' /\ (\A q \in Reqs : q # r => (Free(q)' <=> Free(q))) => ChanReqs(c)'
    BY <1>2, <1>3, <2>1, <2>2 DEF ChanReqs, r
  <2>4. Manager'
    BY <1>0, <1>1, <2>0, ManagerSame
  <2>5. NoSleeperLeft' /\ sd' \in ShutdownRec
    BY <1>0, <1>1, <2>0 DEF NoSleeperLeft, IInv, RestTypes
  <2> QED BY <1>1, <1>3, <2>2, <2>3, <2>4, <2>5, ChanEnters
<1> QED BY <1>5, <1>6

-----------------------------------------------------------------------------
(* notify_all() and its callbacks.                                          *)

\* Steps of shutdown.c that leave the pool and the channels alone.
LEMMA PoolStill ==
    ASSUME IInv, UNCHANGED <<wpc, wreq, wtlist, wtrunning_count, posted, chan, timer_started>>,
           Manager', NoSleeperLeft',
           dpc' \in {"idle", "notify", "trigger async", "trigger channel"},
           iter' \in Objs \cup {None}
    PROVE  IInv'
<1>0. TypeOK /\ Requests /\ RestTypes
  BY PoolKnown
<1>1. PoolTypes' /\ Books' /\ EventsTrue' /\ posted' \subseteq AllEvs
      /\ \A q \in Reqs : RunBy(q)' = RunBy(q)
  BY PoolQuiet
<1>2. \A q \in Reqs : InPost(q)' = InPost(q)
  BY DEF InPost, DoneEvs, DoneEv, AddEv
<1>3. \A q \in Reqs : Kept(q)
  BY <1>1, <1>2 DEF Kept
<1>4. Requests'
  BY <1>0, <1>3, RequestsSame
<1>5. sd' \in ShutdownRec
  BY DEF Manager, Known, ShutdownRec
<1>6. TypeOK'
  <2>1. RestTypes'
    BY <1>0, <1>1, <1>5 DEF RestTypes, AllEvs, DoneEvs, DoneEv, AddEv, ExitEv
  <2> QED BY <1>1, <2>1, TypeParts
<1> QED BY <1>1, <1>4, <1>6 DEF IInv

\* The shutdown begins.
LEMMA ShutdownStartKeeps ==
    ASSUME IInv, ShutdownStart
    PROVE  IInv'
<1>0. TypeOK /\ RestTypes /\ Manager /\ Known(sd) /\ GoesOn(sd) /\ NoSleeperLeft
  BY PoolKnown DEF Manager, IInv
<1>1. /\ ~sd.complete /\ sd' = Start(sd)
      /\ UNCHANGED <<wpc, wreq, wtlist, wtrunning_count, posted, chan, dpc, iter, timer_started>>
  BY DEF ShutdownStart, Ready
<1>2. /\ Known(sd') /\ sd'.state = sd.state /\ sd'.active = sd.active /\ sd'.complete = sd.complete
      /\ sd'.started /\ GoesOn(sd')
  BY <1>0, <1>1, StartFacts
<1>3. Known(sd)' /\ GoesOn(sd)'
  BY <1>2 DEF Known, GoesOn, ShutdownRec, ActiveExact
<1>4. Manager'
  BY <1>0, <1>1, <1>2, <1>3 DEF Manager, Registered
<1>5. NoSleeperLeft'
  BY <1>0, <1>1, <1>2 DEF NoSleeperLeft
<1>6. dpc' \in {"idle", "notify", "trigger async", "trigger channel"} /\ iter' \in Objs \cup {None}
  BY <1>0, <1>1 DEF RestTypes
<1> QED BY <1>1, <1>4, <1>5, <1>6, PoolStill

\* notify_all() begins.
LEMMA NotifyAllKeeps ==
    ASSUME IInv, NotifyAll
    PROVE  IInv'
<1>0. TypeOK /\ RestTypes /\ Manager /\ Known(sd) /\ NoSleeperLeft
  BY PoolKnown DEF Manager, IInv
<1>1. /\ dpc = "idle" /\ ~sd.complete /\ sd.notify_pending /\ sd' = NotifyBegin(sd)
      /\ IF sd.active = << >> THEN dpc' = dpc /\ iter' = iter
         ELSE dpc' = "notify" /\ iter' = Head(sd.active)
      /\ UNCHANGED <<wpc, wreq, wtlist, wtrunning_count, posted, chan, timer_started>>
  BY DEF NotifyAll, Ready
<1>2. sd.complete = FALSE /\ sd.active \in Seq(Objs)
  BY <1>0, <1>1 DEF Known, ShutdownRec
<1>3. /\ Known(sd') /\ sd'.state = sd.state /\ sd'.active = sd.active /\ sd'.started = sd.started
      /\ sd'.notify_pending = FALSE /\ (sd'.complete <=> sd.active = << >>)
  BY <1>0, <1>1, <1>2, NotifyBeginFacts
<1>4. Known(sd)'
  BY <1>3 DEF Known, ShutdownRec, ActiveExact
<1>5. GoesOn(sd)' /\ sd'.started /\ (sd.state["async"] # "STOPPED" <=> wtrunning_count > 0)
      /\ (sd.state["channel"] # "STOPPED" <=> \E c \in Chans : Registered(chan[c]))
      /\ iter = None
  BY <1>0, <1>1, <1>3 DEF Manager, GoesOn
<1>6. /\ dpc' \in {"idle", "notify"} /\ iter' \in Objs \cup {None}
      /\ iter' # None => sd'.state[iter'] # "STOPPED"
      /\ sd'.complete => dpc' = "idle"
      /\ dpc' = "idle" => iter' = None
  <2>1. CASE sd.active = << >>
    BY <1>1, <1>5, <2>1
  <2>2. CASE sd.active # << >>
    <3>1. Head(sd.active) = sd.active[1] /\ 1 \in 1..Len(sd.active)
      BY <1>2, <2>2
    <3>2. Head(sd.active) \in ToSet(sd.active)
      BY <1>2, <3>1, ToSetSeq
    <3>3. Head(sd.active) \in Objs /\ sd.state[Head(sd.active)] # "STOPPED"
      BY <1>0, <3>2 DEF Known, ActiveExact
    <3> QED BY <1>1, <1>3, <2>2, <3>3
  <2> QED BY <2>1, <2>2
<1>7. Manager'
  BY <1>1, <1>3, <1>4, <1>5, <1>6 DEF Manager, Registered
<1>8. NoSleeperLeft'
  BY <1>0, <1>1, <1>3, <1>6 DEF NoSleeperLeft
<1> QED BY <1>1, <1>6, <1>7, <1>8, PoolStill

\* notify_all() visits the next object.
LEMMA NotifyObjectKeeps ==
    ASSUME IInv, NotifyObject
    PROVE  IInv'
<1>0. TypeOK /\ RestTypes /\ Manager /\ Known(sd) /\ GoesOn(sd) /\ NoSleeperLeft
  BY PoolKnown DEF Manager, IInv
<1>1. /\ dpc = "notify" /\ iter # None /\ iter' = NextActive(sd, iter, None)
      /\ IF sd.state[iter] = "NORMAL"
         THEN /\ sd' = NotifyVisit(sd, iter)
              /\ dpc' = IF iter = "async" THEN "trigger async" ELSE "trigger channel"
         ELSE sd' = sd /\ dpc' = dpc
      /\ UNCHANGED <<wpc, wreq, wtlist, wtrunning_count, posted, chan, timer_started>>
  BY DEF NotifyObject
<1>2. PICK o : o = iter
  OBVIOUS
<1>3. o \in Objs /\ sd.state[o] # "STOPPED" /\ ~sd.complete /\ "async" \in Objs
  BY <1>0, <1>1, <1>2, ConstantAssumption DEF RestTypes, Manager
<1>4. iter' = None \/ (iter' \in Objs /\ sd.state[iter'] # "STOPPED")
  BY <1>0, <1>1, <1>2, <1>3, NextActiveFacts
<1>5. sd.state \in [Objs -> {"STOPPED", "NORMAL", "PENDING"}]
  BY <1>0 DEF RestTypes, ShutdownRec
<1>6. /\ Known(sd') /\ GoesOn(sd') /\ sd'.started = sd.started /\ sd'.complete = sd.complete
      /\ sd'.notify_pending = sd.notify_pending
      /\ \A p \in Objs : sd'.state[p] # "STOPPED" <=> sd.state[p] # "STOPPED"
      /\ dpc' \in {"notify", "trigger async", "trigger channel"}
      /\ sd'.state["async"] = "PENDING" => dpc' = "trigger async" \/ sd.state["async"] = "PENDING"
  <2>1. CASE sd.state[o] = "NORMAL"
    <3>1. sd' = NotifyVisit(sd, o) /\ dpc' = IF o = "async" THEN "trigger async" ELSE "trigger channel"
      BY <1>1, <1>2, <2>1
    <3>2. /\ Known(sd') /\ sd'.state = [sd.state EXCEPT ![o] = "PENDING"] /\ sd'.active = sd.active
          /\ sd'.started = sd.started /\ sd'.complete = sd.complete
          /\ sd'.notify_pending = sd.notify_pending
      BY <1>0, <1>3, <3>1, NotifyVisitFacts
    <3>3. \A p \in Objs : sd'.state[p] = IF p = o THEN "PENDING" ELSE sd.state[p]
      BY <1>3, <1>5, <3>2
    <3>4. GoesOn(sd')
      BY <1>0, <3>2 DEF GoesOn
    <3> QED BY <1>3, <3>1, <3>2, <3>3, <3>4
  <2>2. CASE sd.state[o] # "NORMAL"
    BY <1>0, <1>1, <1>2, <2>2
  <2> QED BY <2>1, <2>2
<1>7. Known(sd)' /\ GoesOn(sd)'
  BY <1>6 DEF Known, GoesOn, ShutdownRec, ActiveExact
<1>8. "channel" \in Objs
  BY ConstantAssumption
<1>9. Manager'
  BY <1>0, <1>1, <1>3, <1>4, <1>6, <1>7, <1>8 DEF Manager, Registered
<1>10. NoSleeperLeft'
  BY <1>0, <1>1, <1>6 DEF NoSleeperLeft
<1> QED BY <1>1, <1>4, <1>6, <1>9, <1>10, PoolStill

\* notify_all() comes to the end of the list.
LEMMA NotifyReturnKeeps ==
    ASSUME IInv, NotifyReturn
    PROVE  IInv'
<1>0. TypeOK /\ RestTypes /\ Manager /\ NoSleeperLeft
  BY PoolKnown DEF IInv
<1>1. /\ dpc = "notify" /\ iter = None /\ dpc' = "idle" /\ sd' = sd /\ iter' = iter
      /\ UNCHANGED <<wpc, wreq, wtlist, wtrunning_count, posted, chan, timer_started>>
  BY DEF NotifyReturn
<1>2. Known(sd)' /\ GoesOn(sd)'
  BY <1>0, <1>1 DEF Manager, Known, GoesOn, ShutdownRec, ActiveExact
<1>3. Manager'
  BY <1>0, <1>1, <1>2 DEF Manager, Registered
<1>4. NoSleeperLeft'
  BY <1>0, <1>1 DEF NoSleeperLeft
<1> QED BY <1>1, <1>3, <1>4, PoolStill

\* The pool is asked to shut down.
LEMMA TriggerAsyncShutdownKeeps ==
    ASSUME IInv, TriggerAsyncShutdown
    PROVE  IInv'
<1>0. TypeOK /\ Books /\ EventsTrue /\ Requests /\ Manager /\ PoolTypes /\ RestTypes
  BY PoolKnown DEF IInv
<1>1. /\ dpc = "trigger async" /\ dpc' = "notify" /\ wtlist' = << >>
      /\ wtrunning_count' = wtrunning_count /\ posted' = posted /\ sd' = sd /\ chan' = chan
      /\ iter' = iter /\ timer_started' = timer_started
  BY DEF TriggerAsyncShutdown
<1>2. /\ PoolTypes' /\ Books'
      /\ \A q \in Reqs : RunBy(q)' = RunBy(q)
      /\ \A v \in Workers : wpc'[v] = wpc[v] \/ (wpc[v] = "idle" /\ wpc'[v] = "run")
  BY <1>0, WakeAll
<1>3. Requests'
  <2>1. \A q \in Reqs : InPost(q)' = InPost(q)
    BY <1>1 DEF InPost, DoneEvs, DoneEv, AddEv
  <2>2. \A q \in Reqs : Kept(q)
    BY <1>2, <2>1 DEF Kept
  <2> QED BY <1>0, <1>1, <2>2, RequestsSame
<1>4. EventsTrue'
  BY <1>0, <1>1, <1>2 DEF EventsTrue, ExitEv, DoneEv, AddEv
<1>5. TypeOK'
  <2>1. RestTypes'
    BY <1>0, <1>1 DEF RestTypes, AllEvs, DoneEvs, DoneEv, AddEv, ExitEv
  <2> QED BY <1>2, <2>1, TypeParts
<1>6. Manager'
  <2>1. Known(sd)' /\ GoesOn(sd)'
    BY <1>0, <1>1 DEF Manager, Known, GoesOn, ShutdownRec, ActiveExact
  <2> QED BY <1>0, <1>1, <2>1 DEF Manager, Registered
<1>7. NoSleeperLeft'
  BY <1>1 DEF NoSleeperLeft
<1> QED BY <1>2, <1>3, <1>4, <1>5, <1>6, <1>7 DEF IInv

\* The channels are asked to shut down.
LEMMA TriggerChannelShutdownKeeps ==
    ASSUME IInv, TriggerChannelShutdown
    PROVE  IInv'
<1>0. TypeOK /\ RestTypes /\ Manager /\ NoSleeperLeft
  BY PoolKnown DEF IInv
<1>1. /\ dpc = "trigger channel" /\ posted' = posted /\ iter' = iter /\ timer_started' = timer_started
      /\ \/ (\E c \in Chans : ChannelClose(c)) /\ dpc' = dpc
         \/ /\ dpc' = "notify"
            /\ UNCHANGED <<wpc, wreq, wtlist, wtrunning_count, sd, chan>>
  BY DEF TriggerChannelShutdown
<1>2. CASE (\E c \in Chans : ChannelClose(c)) /\ dpc' = dpc
  <2>1. PICK c \in Chans : ChannelClose(c)
    BY <1>2
  <2>2. ~sd.complete
    BY <1>0, <1>1 DEF Manager
  <2> QED BY <1>1, <1>2, <2>1, <2>2, ChannelCloseKeeps
<1>3. CASE dpc' = "notify" /\ UNCHANGED <<wpc, wreq, wtlist, wtrunning_count, sd, chan>>
  <2>1. Known(sd)' /\ GoesOn(sd)'
    BY <1>0, <1>3 DEF Manager, Known, GoesOn, ShutdownRec, ActiveExact
  <2>2. Manager'
    BY <1>0, <1>1, <1>3, <2>1 DEF Manager, Registered
  <2>3. NoSleeperLeft'
    BY <1>0, <1>1, <1>3 DEF NoSleeperLeft
  <2>4. dpc' \in {"idle", "notify", "trigger async", "trigger channel"} /\ iter' \in Objs \cup {None}
    BY <1>0, <1>1, <1>3 DEF RestTypes
  <2> QED BY <1>1, <1>3, <2>2, <2>3, <2>4, PoolStill
<1> QED BY <1>1, <1>2, <1>3

-----------------------------------------------------------------------------
(* The invariant.                                                           *)

\* The initial states satisfy the inductive invariant.
LEMMA InitIInv ==
    ASSUME Init
    PROVE  IInv
<1>0. /\ wpc = [w \in Workers |-> "none"] /\ wreq = [w \in Workers |-> None] /\ wtlist = << >>
      /\ wtrunning_count = 0 /\ posted = {} /\ sd = ShutdownInit /\ chan = [c \in Chans |-> "none"]
      /\ dpc = "idle" /\ iter = None /\ timer_started = FALSE
  BY DEF Init
<1>1. Live = {} /\ Cardinality({}) = 0 /\ Cardinality(Workers) \in Nat
  <2>1. Cardinality(Workers) \in Nat
    BY ConstantAssumption, FS_CardinalityType
  <2> QED BY <1>0, <2>1, FS_EmptySet DEF Live
<1>2. sd \in ShutdownRec /\ sd.active = << >> /\ ~sd.started /\ ~sd.complete /\ ~sd.notify_pending
      /\ \A o \in Objs : sd.state[o] = "STOPPED"
  BY <1>0 DEF ShutdownInit, ShutdownRec
<1>3. TypeOK
  <2>1. PoolTypes
    BY <1>0, <1>1 DEF PoolTypes
  <2>2. RestTypes
    BY <1>0, <1>2 DEF RestTypes
  <2> QED BY <2>1, <2>2, TypeParts
<1>4. Books
  <2>1. ToSet(wtlist) = {}
    BY <1>0 DEF ToSet
  <2>2. NoRepeat(wtlist) /\ Len(wtlist) <= MaxIdle
    BY <1>0, ConstantAssumption DEF NoRepeat
  <2>3. \A w \in Workers : wpc[w] = "none" /\ wreq[w] = None
    BY <1>0
  <2>4. wtrunning_count = Cardinality(Live)
    BY <1>0, <1>1
  <2> QED BY <2>1, <2>2, <2>3, <2>4 DEF Books
<1>5. EventsTrue
  BY <1>0 DEF EventsTrue
<1>6. Requests
  <2>1. \A r \in Reqs : Free(r)
    BY <1>0, NullAssumption DEF Free, RunBy, InPost
  <2>2. \A r \in Reqs : OnePlace(r)
    BY <2>1 DEF OnePlace
  <2>3. ASSUME NEW c \in Chans PROVE ChanReqs(c)
    <3>1. Free(ReadReq(c)) /\ Free(WriteReq(c)) /\ chan[c] = "none"
      BY <1>0, <2>1, ReqShapes
    <3> QED BY <3>1 DEF ChanReqs
  <2> QED BY <2>2, <2>3 DEF Requests
<1>7. NoSleeperLeft
  BY <1>0 DEF NoSleeperLeft
<1>8. Manager
  <2>1. ActiveExact(sd)
    <3>1. ToSet(sd.active) = {} /\ Len(sd.active) = 0
      BY <1>2 DEF ToSet
    <3> QED BY <1>2, <3>1 DEF ActiveExact
  <2>2. ~(wtrunning_count > 0) /\ \A c \in Chans : ~Registered(chan[c])
    BY <1>0 DEF Registered
  <2>3. sd.state["async"] = "STOPPED" /\ sd.state["channel"] = "STOPPED"
    BY <1>2, ConstantAssumption
  <2> QED BY <1>0, <1>2, <2>1, <2>2, <2>3 DEF Manager, Known, GoesOn
<1> QED BY <1>3, <1>4, <1>5, <1>6, <1>7, <1>8 DEF IInv

\* A step that changes nothing keeps the inductive invariant.
LEMMA StutterKeeps ==
    ASSUME IInv, UNCHANGED vars
    PROVE  IInv'
<1>0. Manager /\ RestTypes /\ NoSleeperLeft
  BY PoolKnown DEF IInv
<1>1. UNCHANGED <<wpc, wreq, wtlist, wtrunning_count, posted, chan, timer_started>>
      /\ sd' = sd /\ dpc' = dpc /\ iter' = iter
  BY DEF vars
<1>2. Manager'
  BY <1>0, <1>1, ManagerSame
<1>3. NoSleeperLeft'
  BY <1>0, <1>1 DEF NoSleeperLeft
<1>4. dpc' \in {"idle", "notify", "trigger async", "trigger channel"} /\ iter' \in Objs \cup {None}
  BY <1>0, <1>1 DEF RestTypes
<1> QED BY <1>1, <1>2, <1>3, <1>4, PoolStill

\* Every step keeps the inductive invariant.
LEMMA NextIInv ==
    ASSUME IInv, [Next]_vars
    PROVE  IInv'
<1>1. CASE \E w \in Workers : WorkerComplete(w) \/ WorkerStop(w) \/ WorkerLeave(w)
  BY <1>1, WorkerCompleteKeeps, WorkerStopKeeps, WorkerLeaveKeeps
<1>2. CASE \E b \in BgReqs : BgPost(b)
  BY <1>2, BgPostKeeps
<1>3. CASE \E c \in Chans : ChannelConnect(c)
  BY <1>3, ChannelConnectKeeps
<1>4. CASE \E c \in Chans : UserClose(c)
  <2>1. PICK c \in Chans : UserClose(c)
    BY <1>4
  <2>2. ChannelClose(c) /\ ~sd.complete /\ UNCHANGED <<posted, dpc, iter, timer_started>>
    BY <2>1 DEF UserClose, Ready
  <2> QED BY <2>2, ChannelCloseKeeps
<1>5. CASE ShutdownStart
  BY <1>5, ShutdownStartKeeps
<1>6. CASE Dispatch
  <2>1. CASE \E w \in Workers : WorkerThreadExit(w)
    BY <2>1, WorkerThreadExitKeeps
  <2>2. CASE \E r \in Reqs : WorkerThreadAddDeferred(r)
    BY <2>2, WorkerThreadAddDeferredKeeps
  <2>3. CASE \E b \in BgReqs : BgDone(b)
    BY <2>3, BgDoneKeeps
  <2>4. CASE StartTimer
    BY <2>4, StartTimerKeeps
  <2>5. CASE \E c \in Chans : ConnectDone(c) \/ ReadDone(c) \/ WriteDone(c)
    BY <2>5, ConnectDoneKeeps, ReadDoneKeeps, WriteDoneKeeps
  <2>6. CASE NotifyAll
    BY <2>6, NotifyAllKeeps
  <2> QED BY <1>6, <2>1, <2>2, <2>3, <2>4, <2>5, <2>6 DEF Dispatch
<1>7. CASE NotifyObject
  BY <1>7, NotifyObjectKeeps
<1>8. CASE NotifyReturn
  BY <1>8, NotifyReturnKeeps
<1>9. CASE TriggerAsyncShutdown
  BY <1>9, TriggerAsyncShutdownKeeps
<1>10. CASE TriggerChannelShutdown
  BY <1>10, TriggerChannelShutdownKeeps
<1>11. CASE UNCHANGED vars
  BY <1>11, StutterKeeps
<1> QED BY <1>1, <1>2, <1>3, <1>4, <1>5, <1>6, <1>7, <1>8, <1>9, <1>10, <1>11 DEF Next

-----------------------------------------------------------------------------
(* What the invariant says.                                                 *)

\* Counting the places of a request.
LEMMA PlacesCounted ==
    ASSUME NEW r \in Reqs, OnePlace(r)
    PROVE  Cardinality(RunBy(r)) + Cardinality(InPost(r)) = IF Free(r) THEN 0 ELSE 1
<1>1. Cardinality({}) = 0 /\ \A x : Cardinality({x}) = 1
  BY FS_EmptySet, FS_Singleton
<1>2. CASE Free(r)
  <2>1. Cardinality(RunBy(r)) = 0 /\ Cardinality(InPost(r)) = 0
    BY <1>1, <1>2 DEF Free
  <2> QED BY <1>2, <2>1
<1>3. CASE Running(r)
  <2>1. Cardinality(RunBy(r)) = 1 /\ Cardinality(InPost(r)) = 0 /\ ~Free(r)
    BY <1>1, <1>3 DEF Running, Free
  <2> QED BY <2>1
<1>4. CASE Waiting(r)
  <2>1. Cardinality(RunBy(r)) = 0 /\ Cardinality(InPost(r)) = 1 /\ ~Free(r)
    BY <1>1, <1>4 DEF Waiting, Free
  <2> QED BY <2>1
<1> QED BY <1>2, <1>3, <1>4 DEF OnePlace

\* The inductive invariant implies PoolSound.
LEMMA IInvPoolSound ==
    ASSUME IInv
    PROVE  PoolSound
<1>0. TypeOK /\ Books /\ Requests /\ NoSleeperLeft /\ RestTypes
  BY PoolKnown DEF IInv
<1>1. PoolBooks
  BY <1>0 DEF PoolBooks, Books, NoRepeat, Live
<1>2. ASSUME NEW r \in Reqs
      PROVE  Cardinality({w \in Workers : wreq[w] = r})
               + Cardinality(posted \cap (DoneEvs(r) \cup {AddEv(r)})) =
             CASE r.kind = "read" -> IF chan[r.chan] \in {"connecting", "open", "closing"} THEN 1 ELSE 0
               [] r.kind = "write" /\ chan[r.chan] = "draining" -> 1
               [] r.kind = "write" /\ chan[r.chan] \in {"none", "connecting", "open"} -> 0
               [] OTHER -> IF Outstanding(r) THEN 1 ELSE 0
  <2> DEFINE N == Cardinality({w \in Workers : wreq[w] = r})
                    + Cardinality(posted \cap (DoneEvs(r) \cup {AddEv(r)}))
  <2>1. N = IF Free(r) THEN 0 ELSE 1
    BY <1>0, PlacesCounted DEF Requests, RunBy, InPost
  <2> HIDE DEF N
  <2>2. Outstanding(r) <=> ~Free(r)
    BY OutstandingFree
  <2>3. \A c \in Chans : ChanReqs(c)
    BY <1>0 DEF Requests
  <2>4. CASE \E c \in Chans : r = ReadReq(c)
    <3>1. PICK c \in Chans : r = ReadReq(c)
      BY <2>4
    <3>2. r.kind = "read" /\ r.chan = c
      BY <3>1 DEF ReadReq
    <3>3. chan[c] \in {"connecting", "open", "closing"} <=> ~Free(r)
      BY <2>3, <3>1 DEF ChanReqs
    <3> QED BY <2>1, <3>2, <3>3 DEF N
  <2>5. CASE \E c \in Chans : r = WriteReq(c)
    <3>1. PICK c \in Chans : r = WriteReq(c)
      BY <2>5
    <3>2. r.kind = "write" /\ r.chan = c
      BY <3>1 DEF WriteReq
    <3>3. /\ chan[c] = "draining" => ~Free(r)
          /\ chan[c] \in {"none", "connecting", "open"} => Free(r)
      BY <2>3, <3>1 DEF ChanReqs
    <3> QED BY <2>1, <2>2, <3>2, <3>3 DEF N
  <2>6. CASE r.kind = "bg"
    BY <2>1, <2>2, <2>6 DEF N
  <2> QED BY <2>4, <2>5, <2>6 DEF Reqs
<1>3. RequestOnce
  BY <1>2, Zenon DEF RequestOnce
<1> QED BY <1>0, <1>1, <1>3 DEF PoolSound

\* The inductive invariant implies ShutdownSafe.
LEMMA IInvShutdownSafe ==
    ASSUME IInv
    PROVE  ShutdownSafe
<1>0. TypeOK /\ Books /\ EventsTrue /\ Requests /\ Manager /\ PoolTypes /\ RestTypes
  BY PoolKnown DEF IInv
<1>1. ActiveListSafe
  BY <1>0 DEF Manager, Known, ActiveListSafe
<1>2. ShutdownNotForgotten
  BY <1>0 DEF Manager, GoesOn, Registered, ShutdownNotForgotten
<1>3. ASSUME sd.complete
      PROVE  /\ wtrunning_count = 0
             /\ \A c \in Chans : chan[c] = "none"
             /\ \A r \in Reqs : r.kind # "bg" => ~Outstanding(r)
  <2>1. wtrunning_count = 0 /\ \A w \in Workers : wpc[w] = "none"
    BY <1>3, CompleteNoThreads
  <2>2. \A c \in Chans : ~Registered(chan[c])
    BY <1>3, CompleteNoThreads
  <2>3. ASSUME NEW r \in Reqs, r.kind # "bg"
        PROVE  ~Outstanding(r)
    <3>1. \A w \in Workers : wreq[w] # r
      BY <1>0, <2>1, NullAssumption DEF Books
    <3>2. \A w \in Workers : DoneEv(r, w) \notin posted
      BY <1>0, <2>1 DEF EventsTrue
    <3>3. AddEv(r) \notin posted
      BY <1>0, <2>3 DEF EventsTrue
    <3>4. DoneEvs(r) \cap posted = {}
      BY <3>2 DEF DoneEvs
    <3> QED BY <3>1, <3>3, <3>4 DEF Outstanding
  <2>4. ASSUME NEW c \in Chans PROVE chan[c] = "none"
    <3>1. ReadReq(c) \in Reqs /\ ReadReq(c).kind # "bg"
      BY ReqShapes
    <3>2. Free(ReadReq(c))
      BY <2>3, <3>1, OutstandingFree
    <3>3. chan[c] \notin {"connecting", "open", "closing"}
      BY <1>0, <3>2 DEF Requests, ChanReqs
    <3> QED BY <2>2, <3>3 DEF Registered
  <2> QED BY <2>1, <2>3, <2>4
<1>4. ShutdownSound
  BY <1>3 DEF ShutdownSound
<1> QED BY <1>1, <1>2, <1>4 DEF ShutdownSafe

\* asyncreq.c: in every reachable state, with any number of threads, channels
\* and posters, the books of the pool are right, every request is in exactly
\* one place, and no worker is left asleep by a shutdown.
THEOREM PoolCorrect == Spec => []PoolSound
<1>1. Init => IInv
  BY InitIInv
<1>2. IInv /\ [Next]_vars => IInv'
  BY NextIInv
<1>3. IInv => PoolSound
  BY IInvPoolSound
<1> QED BY <1>1, <1>2, <1>3, PTL DEF Spec

\* shutdown.c: in every reachable state the list of active objects is safe to
\* walk, the complete handler has run only when all work has ended, and a
\* shutdown that is not complete has somebody left to go on with it.
THEOREM ShutdownCorrect == Spec => []ShutdownSafe
<1>1. Init => IInv
  BY InitIInv
<1>2. IInv /\ [Next]_vars => IInv'
  BY NextIInv
<1>3. IInv => ShutdownSafe
  BY IInvShutdownSafe
<1> QED BY <1>1, <1>2, <1>3, PTL DEF Spec
=============================================================================

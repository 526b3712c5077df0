----------------------------- MODULE CacheProofs -----------------------------
(* Proofs about Cache, for any finite set of clients and any number of        *)
(* channels, entries and safe events.                                         *)
EXTENDS Cache, FiniteSetTheorems, TLAPS

-----------------------------------------------------------------------------
(* The inductive invariant.                                                   *)

\* The clients of a waiting list or buffer; none is in it twice.
ClientsOf(s) == {s[i].client : i \in 1..Len(s)}
OnceEach(s)  == \A i, j \in 1..Len(s) : s[i].client = s[j].client => i = j

\* The clients that wait in the list of a cache, in a posted buffer, and in the
\* buffer that is being run.
Listed  == UNION {ClientsOf(wait_list[a]) : a \in Caches}
Queued  == UNION {ClientsOf(buf) : buf \in posted}
Batched == ClientsOf(batch)

\* TypeOK without the lock counts, which are natural numbers because they are
\* exact.
Types ==
    /\ current_client \in Waiter \cup {NoClient}
    /\ client_exited \in BOOLEAN
    /\ cache_miss_cnt \in 0..access_cnt
    /\ access_cnt \in 0..MaxAccess
    /\ id_cnt \in 0..IdMod - 1
    /\ wait_list \in [Caches -> Seq(Waiter)]
    /\ cache_list \subseteq Caches
    /\ batch \in Seq(Waiter)
    /\ posted \subseteq Seq(Waiter)
    /\ args \in [Clients -> {"none", "stack", "heap", "freed", "gone"}]
    /\ last_event \in [Clients -> {"none", "START", "RETRY", "COMMIT", "ABORT"}]
    /\ entry \in [Entries -> [st : {"free", "linked", "orphan"}, chan : Chans \cup {NULL},
                              key : Keys \cup {NULL}, pending : BOOLEAN]]
    /\ root \subseteq Chans
    /\ chan \in [Chans -> {"open", "closing", "closed", "deleted"}]
    /\ safe_cnt \in 0..safe_posted
    /\ safe_posted \in 0..MaxSafe
    /\ flush_cnt \in 0..MaxFlush

\* No two lists, and no two buffers, hold the same client.
Apart ==
    /\ \A a \in Caches : OnceEach(wait_list[a])
    /\ \A a, b \in Caches : a # b => ClientsOf(wait_list[a]) \cap ClientsOf(wait_list[b]) = {}
    /\ \A p \in posted : p # << >> /\ OnceEach(p)
    /\ \A p, q \in posted : p # q => ClientsOf(p) \cap ClientsOf(q) = {}
    /\ OnceEach(batch)

\* Where a client is, by what it does: while it runs it is registered exactly
\* if it met a miss, and it is still in the batch exactly if it was run again;
\* between runs it is in one place exactly if a copy of its arguments exists.
RunPhase(c) ==
    /\ c \in Listed <=> cache_miss_cnt > 0
    /\ c \in Batched <=> last_event[c] = "RETRY"
    /\ args[c] = IF c \in Listed \cup Batched THEN "heap" ELSE "stack"
RestPhase(c) ==
    /\ args[c] = "heap" <=> c \in Listed \cup Queued \cup Batched
    /\ args[c] # "stack"
    /\ c \notin Listed \cap Batched
Phase(c) ==
    /\ RunningNow(c) => c \notin Queued /\ RunPhase(c)
    /\ ~RunningNow(c) => RestPhase(c)
    /\ c \notin Listed \cap Queued
    /\ c \notin Batched \cap Queued
    /\ last_event[c] = "none" => args[c] = "none"
Phases == \A c \in Clients : Phase(c)

\* The client that runs is the first of the batch, or it was just started and
\* its channel is open.
RunState ==
    /\ Running /\ batch # << >> => Head(batch) = current_client
    /\ Running /\ batch = << >> /\ ChanOf[current_client.client] # NULL =>
          chan[ChanOf[current_client.client]] = "open"
    /\ ~Running => cache_miss_cnt = 0 /\ client_exited = FALSE /\ access_cnt = 0

\* The lock counts are exact.
On(S, ch) == {c \in S : ChanOf[c] = ch}
Base(ch)  == (IF ch \in root THEN 1 ELSE 0) + (IF chan[ch] \in {"open", "closing"} THEN 1 ELSE 0)
Held(ch)  == Cardinality(On(Listed, ch)) + Cardinality(On(Queued \cup Batched, ch))
LocksExact ==
    /\ lock_cnt \in [Chans -> Nat]
    /\ \A ch \in Chans :
          /\ lock_cnt[ch] = Held(ch) + Base(ch)
          /\ chan[ch] = "deleted" <=> lock_cnt[ch] = 0
          /\ ch \in root => chan[ch] = "open"

\* WaitersHaveReply, with uniqueness in place of cardinality.
LinkedOnce ==
    \A e, f \in Entries : /\ entry[e].st = "linked" /\ entry[f].st = "linked"
                          /\ entry[e].chan = entry[f].chan /\ entry[e].key = entry[f].key
                          => e = f
EntryOK(e) ==
    /\ entry[e].pending => entry[e].st # "free"
    /\ entry[e].st = "orphan" => entry[e].pending
    /\ entry[e].st = "linked" => entry[e].chan \in root
    /\ wait_list[e] # << >> => entry[e].pending
Replies ==
    /\ LinkedOnce
    /\ \A e \in Entries : EntryOK(e)
    /\ cache_list = {a \in Caches : wait_list[a] # << >>}
    /\ wait_list[Gate] # << >> => safe_cnt > 0

IInv == Types /\ Apart /\ Phases /\ RunState /\ LocksExact /\ Replies
-----------------------------------------------------------------------------
(* Waiting lists and buffers.                                                 *)

\* An empty list has no clients.
LEMMA ClientsEmpty == ClientsOf(<< >>) = {} /\ OnceEach(<< >>)
  BY DEF ClientsOf, OnceEach

\* The fields of a waiter.
LEMMA WaiterFields ==
    ASSUME NEW w \in Waiter
    PROVE  w.client \in Clients /\ w.client # NULL /\ w # NoClient
<1>1. w.client \in Clients
  BY DEF Waiter
<1> QED BY <1>1, ConstantAssumption DEF NoClient

\* The clients of a list are clients, and none only if it is empty.
LEMMA ClientsSeq ==
    ASSUME NEW s \in Seq(Waiter)
    PROVE  /\ ClientsOf(s) \subseteq Clients
           /\ ClientsOf(s) = {} <=> s = << >>
<1>1. Len(s) \in Nat /\ \A i \in 1..Len(s) : s[i] \in Waiter
  OBVIOUS
<1>2. ClientsOf(s) \subseteq Clients
  BY <1>1, WaiterFields DEF ClientsOf
<1>3. ASSUME s # << >> PROVE ClientsOf(s) # {}
  <2>1. 1 \in 1..Len(s)
    BY <1>1, <1>3
  <2> QED BY <2>1 DEF ClientsOf
<1> QED BY <1>2, <1>3, ClientsEmpty

\* A client that waits is added behind the others.
LEMMA ClientsAppend ==
    ASSUME NEW s \in Seq(Waiter), NEW w \in Waiter
    PROVE  /\ Append(s, w) \in Seq(Waiter) /\ Append(s, w) # << >>
           /\ ClientsOf(Append(s, w)) = ClientsOf(s) \cup {w.client}
           /\ OnceEach(s) /\ w.client \notin ClientsOf(s) => OnceEach(Append(s, w))
<1> DEFINE t == Append(s, w)
<1>1. /\ t \in Seq(Waiter) /\ Len(t) = Len(s) + 1 /\ Len(s) \in Nat
      /\ \A i \in 1..Len(s) : t[i] = s[i]
      /\ t[Len(s) + 1] = w
  OBVIOUS
<1>a. Append(s, w) = t
  OBVIOUS
<1> HIDE DEF t
<1>2. \A i \in 1..Len(t) : i \in 1..Len(s) \/ i = Len(s) + 1
  BY <1>1
<1>3. \A i \in 1..Len(s) : i \in 1..Len(t)
  BY <1>1
<1>4. Len(s) + 1 \in 1..Len(t)
  BY <1>1
<1>5. ClientsOf(t) \subseteq ClientsOf(s) \cup {w.client}
  BY <1>1, <1>2 DEF ClientsOf
<1>6. ClientsOf(s) \subseteq ClientsOf(t)
  BY <1>1, <1>3 DEF ClientsOf
<1>7. w.client \in ClientsOf(t)
  BY <1>1, <1>4 DEF ClientsOf
<1>8. ASSUME OnceEach(s), w.client \notin ClientsOf(s) PROVE OnceEach(t)
  <2>1. SUFFICES ASSUME NEW i \in 1..Len(t), NEW j \in 1..Len(t), t[i].client = t[j].client
                 PROVE  i = j
    BY DEF OnceEach
  <2>2. \A k \in 1..Len(s) : s[k].client # w.client
    BY <1>8 DEF ClientsOf
  <2>3. CASE i \in 1..Len(s) /\ j \in 1..Len(s)
    BY <1>1, <1>8, <2>1, <2>3 DEF OnceEach
  <2>4. CASE i \in 1..Len(s) /\ j = Len(s) + 1
    BY <1>1, <2>1, <2>2, <2>4
  <2>5. CASE i = Len(s) + 1 /\ j \in 1..Len(s)
    BY <1>1, <2>1, <2>2, <2>5
  <2>6. CASE i = Len(s) + 1 /\ j = Len(s) + 1
    BY <2>6
  <2> QED BY <1>2, <2>3, <2>4, <2>5, <2>6
<1>9. t # << >>
  BY <1>1
<1> QED BY <1>1, <1>a, <1>5, <1>6, <1>7, <1>8, <1>9

\* The first client of a batch was run.
LEMMA ClientsTail ==
    ASSUME NEW s \in Seq(Waiter), s # << >>, OnceEach(s)
    PROVE  /\ Head(s) \in Waiter /\ Head(s).client \in ClientsOf(s)
           /\ Tail(s) \in Seq(Waiter)
           /\ ClientsOf(Tail(s)) = ClientsOf(s) \ {Head(s).client}
           /\ OnceEach(Tail(s))
<1> DEFINE t == Tail(s)
<1>1. /\ t \in Seq(Waiter) /\ Len(t) = Len(s) - 1 /\ Len(s) \in Nat /\ Len(s) > 0
      /\ \A i \in 1..(Len(s) - 1) : t[i] = s[i + 1]
      /\ Head(s) = s[1] /\ s[1] \in Waiter
  OBVIOUS
<1>a. Tail(s) = t
  OBVIOUS
<1> HIDE DEF t
<1>2. 1 \in 1..Len(s)
  BY <1>1
<1>3. \A i \in 1..Len(t) : t[i] = s[i + 1] /\ i + 1 \in 1..Len(s) /\ i + 1 # 1
  BY <1>1
<1>4. \A i \in 1..Len(s) : i = 1 \/ (i - 1 \in 1..Len(t) /\ t[i - 1] = s[i])
  BY <1>1
<1>5. Head(s).client \in ClientsOf(s)
  BY <1>1, <1>2 DEF ClientsOf
<1>6. ClientsOf(t) \subseteq ClientsOf(s)
  BY <1>3 DEF ClientsOf
<1>7. Head(s).client \notin ClientsOf(t)
  BY <1>1, <1>2, <1>3 DEF ClientsOf, OnceEach
<1>8. ClientsOf(s) \subseteq ClientsOf(t) \cup {Head(s).client}
  BY <1>1, <1>4 DEF ClientsOf
<1>9. OnceEach(t)
  <2>1. SUFFICES ASSUME NEW i \in 1..Len(t), NEW j \in 1..Len(t), t[i].client = t[j].client
                 PROVE  i = j
    BY DEF OnceEach
  <2>2. i + 1 = j + 1
    BY <1>3, <2>1 DEF OnceEach
  <2> QED BY <1>1, <2>2
<1> QED BY <1>1, <1>a, <1>5, <1>6, <1>7, <1>8, <1>9

\* How often a client is in a sequence.
LEMMA SpotsOnce ==
    ASSUME NEW s \in Seq(Waiter), OnceEach(s), NEW c
    PROVE  /\ c \notin ClientsOf(s) <=> Spots(s, c) = {}
           /\ c \in ClientsOf(s) => \E i \in 1..Len(s) : Spots(s, c) = {i}
<1>1. DOMAIN s = 1..Len(s)
  OBVIOUS
<1>2. Spots(s, c) = {i \in 1..Len(s) : s[i].client = c}
  BY <1>1 DEF Spots
<1>3. c \notin ClientsOf(s) <=> Spots(s, c) = {}
  BY <1>2 DEF ClientsOf
<1>4. ASSUME c \in ClientsOf(s) PROVE \E i \in 1..Len(s) : Spots(s, c) = {i}
  <2>1. PICK i \in 1..Len(s) : s[i].client = c
    BY <1>4 DEF ClientsOf
  <2>2. Spots(s, c) = {i}
    BY <1>2, <2>1 DEF OnceEach
  <2> QED BY <2>2
<1> QED BY <1>3, <1>4

\* Members of Listed, Queued and Batched.
LEMMA Places3 ==
    ASSUME Types
    PROVE  /\ Listed \subseteq Clients /\ Queued \subseteq Clients /\ Batched \subseteq Clients
           /\ \A a \in Caches : ClientsOf(wait_list[a]) \subseteq Listed
           /\ \A p \in posted : ClientsOf(p) \subseteq Queued
<1>1. /\ \A a \in Caches : wait_list[a] \in Seq(Waiter)
      /\ \A p \in posted : p \in Seq(Waiter)
      /\ batch \in Seq(Waiter)
  BY DEF Types
<1>2. Listed \subseteq Clients
  BY <1>1, ClientsSeq DEF Listed
<1>3. Queued \subseteq Clients
  BY <1>1, ClientsSeq DEF Queued
<1>4. Batched \subseteq Clients
  BY <1>1, ClientsSeq DEF Batched
<1>5. \A a \in Caches : ClientsOf(wait_list[a]) \subseteq Listed
  BY DEF Listed
<1>6. \A p \in posted : ClientsOf(p) \subseteq Queued
  BY DEF Queued
<1> QED BY <1>2, <1>3, <1>4, <1>5, <1>6

\* In how many places a client is.
LEMMA CountPlaces ==
    ASSUME Types, Apart, NEW c \in Clients
    PROVE  /\ InLists(c) = IF c \in Listed THEN 1 ELSE 0
           /\ c \notin Batched \cap Queued =>
                 InBufs(c) = IF c \in Queued \cup Batched THEN 1 ELSE 0
<1> DEFINE ls == UNION {{a} \X Spots(wait_list[a], c) : a \in Caches}
           bs == UNION {{buf} \X Spots(buf, c) : buf \in posted}
<1>0. /\ \A a \in Caches : wait_list[a] \in Seq(Waiter) /\ OnceEach(wait_list[a])
      /\ \A p \in posted : p \in Seq(Waiter) /\ OnceEach(p)
      /\ batch \in Seq(Waiter) /\ OnceEach(batch)
  BY DEF Types, Apart
<1>1. Cardinality(ls) = IF c \in Listed THEN 1 ELSE 0
  <2>1. CASE c \in Listed
    <3>1. PICK a \in Caches : c \in ClientsOf(wait_list[a])
      BY <2>1 DEF Listed
    <3>2. \A b \in Caches : b # a => c \notin ClientsOf(wait_list[b])
      BY <3>1 DEF Apart
    <3>3. \A b \in Caches : b # a => Spots(wait_list[b], c) = {}
      BY <1>0, <3>2, SpotsOnce
    <3>4. PICK i \in 1..Len(wait_list[a]) : Spots(wait_list[a], c) = {i}
      BY <1>0, <3>1, SpotsOnce
    <3>5. ls = {<<a, i>>}
      BY <3>3, <3>4
    <3> QED BY <3>5, <2>1, FS_Singleton
  <2>2. CASE c \notin Listed
    <3>1. \A a \in Caches : c \notin ClientsOf(wait_list[a])
      BY <2>2 DEF Listed
    <3>2. \A a \in Caches : Spots(wait_list[a], c) = {}
      BY <1>0, <3>1, SpotsOnce
    <3>3. ls = {}
      BY <3>2
    <3> QED BY <3>3, <2>2, FS_EmptySet
  <2> QED BY <2>1, <2>2
<1>2. Cardinality(bs) = IF c \in Queued THEN 1 ELSE 0
  <2>1. CASE c \in Queued
    <3>1. PICK p \in posted : c \in ClientsOf(p)
      BY <2>1 DEF Queued
    <3>2. \A q \in posted : q # p => c \notin ClientsOf(q)
      BY <3>1 DEF Apart
    <3>3. \A q \in posted : q # p => Spots(q, c) = {}
      BY <1>0, <3>2, SpotsOnce
    <3>4. PICK i \in 1..Len(p) : Spots(p, c) = {i}
      BY <1>0, <3>1, SpotsOnce
    <3>5. bs = {<<p, i>>}
      BY <3>3, <3>4
    <3> QED BY <3>5, <2>1, FS_Singleton
  <2>2. CASE c \notin Queued
    <3>1. \A p \in posted : c \notin ClientsOf(p)
      BY <2>2 DEF Queued
    <3>2. \A p \in posted : Spots(p, c) = {}
      BY <1>0, <3>1, SpotsOnce
    <3>3. bs = {}
      BY <3>2
    <3> QED BY <3>3, <2>2, FS_EmptySet
  <2> QED BY <2>1, <2>2
<1>3. Cardinality(Spots(batch, c)) = IF c \in Batched THEN 1 ELSE 0
  <2>1. CASE c \in Batched
    <3>1. PICK i \in 1..Len(batch) : Spots(batch, c) = {i}
      BY <1>0, <2>1, SpotsOnce DEF Batched
    <3> QED BY <3>1, <2>1, FS_Singleton
  <2>2. CASE c \notin Batched
    <3>1. Spots(batch, c) = {}
      BY <1>0, <2>2, SpotsOnce DEF Batched
    <3> QED BY <3>1, <2>2, FS_EmptySet
  <2> QED BY <2>1, <2>2
<1>4. InLists(c) = Cardinality(ls)
  BY DEF InLists
<1>5. InBufs(c) = Cardinality(bs) + Cardinality(Spots(batch, c))
  BY DEF InBufs
<1> HIDE DEF ls, bs
<1>6. ASSUME c \notin Batched \cap Queued
      PROVE  InBufs(c) = IF c \in Queued \cup Batched THEN 1 ELSE 0
  BY <1>2, <1>3, <1>5, <1>6
<1> QED BY <1>1, <1>4, <1>6

-----------------------------------------------------------------------------
(* What the inductive invariant implies.                                      *)

\* The types together with the lock counts give the type invariant.
LEMMA TypesWhole ==
    ASSUME Types, LocksExact
    PROVE  TypeOK
  BY DEF Types, LocksExact, TypeOK

\* The inductive invariant implies ClientOnce.
LEMMA OnceFromInv ==
    ASSUME IInv
    PROVE  ClientOnce
<1>1. TypeOK
  BY TypesWhole DEF IInv
<1>2. ASSUME NEW c \in Clients
      PROVE  IF RunningNow(c)
             THEN /\ InLists(c) = IF cache_miss_cnt > 0 THEN 1 ELSE 0
                  /\ InBufs(c) = IF last_event[c] = "RETRY" THEN 1 ELSE 0
             ELSE Places(c) = IF args[c] = "heap" THEN 1 ELSE 0
  <2>1. Phase(c)
    BY DEF IInv, Phases
  <2>2. /\ InLists(c) = IF c \in Listed THEN 1 ELSE 0
        /\ InBufs(c) = IF c \in Queued \cup Batched THEN 1 ELSE 0
    BY <2>1, CountPlaces DEF IInv, Phase
  <2>3. CASE RunningNow(c)
    BY <2>1, <2>2, <2>3 DEF Phase, RunPhase
  <2>4. CASE ~RunningNow(c)
    <3>1. Places(c) = InLists(c) + InBufs(c)
      BY DEF Places
    <3>2. ~(c \in Listed /\ c \in Queued \cup Batched)
      BY <2>1, <2>4 DEF Phase, RestPhase
    <3>3. args[c] = "heap" <=> c \in Listed \/ c \in Queued \cup Batched
      BY <2>1, <2>4 DEF Phase, RestPhase
    <3> QED BY <2>2, <2>4, <3>1, <3>2, <3>3
  <2> QED BY <2>3, <2>4
<1> QED BY <1>1, <1>2 DEF ClientOnce

\* The inductive invariant implies ClientSafe.
LEMMA SafeFromInv ==
    ASSUME IInv
    PROVE  ClientSafe
<1>0. Types /\ Apart /\ Phases /\ LocksExact
  BY DEF IInv
<1>1. ASSUME NEW c \in Clients
      PROVE  /\ Phase(c)
             /\ InLists(c) = IF c \in Listed THEN 1 ELSE 0
             /\ InBufs(c) = IF c \in Queued \cup Batched THEN 1 ELSE 0
  <2>1. Phase(c)
    BY <1>0 DEF Phases
  <2> QED BY <1>0, <2>1, CountPlaces DEF Phase
<1>2. ASSUME NEW c \in Clients
      PROVE  /\ RunningNow(c) => args[c] \in {"stack", "heap"}
             /\ Places(c) > 0 => args[c] = "heap"
             /\ args[c] = "stack" => RunningNow(c)
  <2>1. Places(c) > 0 => c \in Listed \cup Queued \cup Batched
    BY <1>1 DEF Places
  <2>2. CASE RunningNow(c)
    BY <1>1, <2>1, <2>2 DEF Phase, RunPhase
  <2>3. CASE ~RunningNow(c)
    BY <1>1, <2>1, <2>3 DEF Phase, RestPhase
  <2> QED BY <2>2, <2>3
<1>3. ASSUME NEW ch \in Chans
      PROVE  /\ On(Listed, ch) = {c \in ClientsOn(ch) : InLists(c) > 0}
             /\ On(Queued \cup Batched, ch) = {c \in ClientsOn(ch) : InBufs(c) > 0}
  <2>1. Listed \subseteq Clients /\ Queued \cup Batched \subseteq Clients
    BY <1>0, Places3
  <2>2. \A c \in Clients : /\ InLists(c) > 0 <=> c \in Listed
                           /\ InBufs(c) > 0 <=> c \in Queued \cup Batched
    BY <1>1
  <2>3. ClientsOn(ch) = {c \in Clients : ChanOf[c] = ch}
    BY DEF ClientsOn
  <2> QED BY <2>1, <2>2, <2>3 DEF On
<1>4. ASSUME NEW ch \in Chans
      PROVE  /\ lock_cnt[ch] = Cardinality({c \in ClientsOn(ch) : InLists(c) > 0})
                                 + Cardinality({c \in ClientsOn(ch) : InBufs(c) > 0})
                                 + (IF ch \in root THEN 1 ELSE 0)
                                 + (IF chan[ch] \in {"open", "closing"} THEN 1 ELSE 0)
             /\ chan[ch] = "deleted" <=> lock_cnt[ch] = 0
  <2> DEFINE x == Cardinality(On(Listed, ch))
             y == Cardinality(On(Queued \cup Batched, ch))
             r == IF ch \in root THEN 1 ELSE 0
             k == IF chan[ch] \in {"open", "closing"} THEN 1 ELSE 0
  <2>1. lock_cnt[ch] = (x + y) + (r + k) /\ (chan[ch] = "deleted" <=> lock_cnt[ch] = 0)
    BY <1>0 DEF LocksExact, Held, Base
  <2>2. IsFiniteSet(On(Listed, ch)) /\ IsFiniteSet(On(Queued \cup Batched, ch))
    <3>1. On(Listed, ch) \in SUBSET Clients /\ On(Queued \cup Batched, ch) \in SUBSET Clients
      BY <1>0, Places3 DEF On
    <3> QED BY <3>1, FS_Subset, ConstantAssumption
  <2>3. x \in Nat /\ y \in Nat
    BY <2>2, FS_CardinalityType
  <2>4. r \in Nat /\ k \in Nat
    OBVIOUS
  <2>5. x = Cardinality({c \in ClientsOn(ch) : InLists(c) > 0})
    BY <1>3
  <2>6. y = Cardinality({c \in ClientsOn(ch) : InBufs(c) > 0})
    BY <1>3
  <2> HIDE DEF x, y, r, k
  <2>7. lock_cnt[ch] = x + y + r + k
    BY <2>1, <2>3, <2>4
  <2> QED BY <2>1, <2>5, <2>6, <2>7 DEF r, k
<1>5. ArgsLive
  BY <1>2 DEF ArgsLive
<1>6. ChannelLocks
  BY <1>4 DEF ChannelLocks
<1> QED BY <1>5, <1>6 DEF ClientSafe

\* The inductive invariant implies WaitersHaveReply.
LEMMA ReplyFromInv ==
    ASSUME IInv
    PROVE  WaitersHaveReply
<1>1. Replies /\ Types
  BY DEF IInv
<1>2. ASSUME NEW c \in Chans, NEW k \in Keys
      PROVE  Cardinality(Linked(c, k)) <= 1
  <2>1. CASE Linked(c, k) = {}
    BY <2>1, FS_EmptySet
  <2>2. CASE Linked(c, k) # {}
    <3>1. PICK e \in Entries : e \in Linked(c, k)
      BY <2>2 DEF Linked
    <3>2. Linked(c, k) = {e}
      BY <1>1, <3>1 DEF Linked, Replies, LinkedOnce
    <3> QED BY <3>2, FS_Singleton
  <2> QED BY <2>1, <2>2
<1>3. EntriesSound
  BY <1>1, <1>2 DEF EntriesSound, Replies, EntryOK
<1> QED BY <1>1, <1>3 DEF WaitersHaveReply, Replies, EntryOK

-----------------------------------------------------------------------------
(* How the steps change the parts of the invariant.                           *)

\* Nobody moves.
LEMMA SameLists ==
    ASSUME wait_list' = wait_list, posted' = posted, batch' = batch
    PROVE  /\ Listed' = Listed /\ Queued' = Queued /\ Batched' = Batched
           /\ Apart => Apart'
           /\ \A ch \in Chans : Held(ch)' = Held(ch)
<1>1. Listed' = Listed
  BY DEF Listed
<1>2. Queued' = Queued
  BY DEF Queued
<1>3. Batched' = Batched
  BY DEF Batched
<1>4. Apart => Apart'
  BY DEF Apart
<1>5. \A ch \in Chans : Held(ch)' = Held(ch)
  BY <1>1, <1>2, <1>3 DEF Held
<1> QED BY <1>1, <1>2, <1>3, <1>4, <1>5

\* No lock is taken or given back.
LEMMA SameLocks ==
    ASSUME LocksExact, lock_cnt' = lock_cnt, chan' = chan, root' = root,
           \A ch \in Chans : Held(ch)' = Held(ch)
    PROVE  LocksExact'
<1>1. \A ch \in Chans : Base(ch)' = Base(ch)
  BY DEF Base
<1> QED BY <1>1 DEF LocksExact

\* Replies survives a step that leaves entries and lists alone.
LEMMA SameReplies ==
    ASSUME Replies, entry' = entry, root' = root, wait_list' = wait_list,
           cache_list' = cache_list, safe_cnt' = safe_cnt
    PROVE  Replies'
<1>1. LinkedOnce'
  BY DEF Replies, LinkedOnce
<1>2. \A e \in Entries : EntryOK(e)'
  BY DEF Replies, EntryOK
<1> QED BY <1>1, <1>2 DEF Replies

\* The clients that wait in the lists of T.
Taken(T) == UNION {ClientsOf(wait_list[a]) : a \in T}

\* The lists of T are emptied.
LEMMA TakeLists ==
    ASSUME Types, Apart, NEW T \in SUBSET Caches,
           wait_list' = [a \in Caches |-> IF a \in T THEN << >> ELSE wait_list[a]]
    PROVE  /\ wait_list' \in [Caches -> Seq(Waiter)]
           /\ Listed' = Listed \ Taken(T) /\ Taken(T) \subseteq Listed
           /\ \A a \in Caches : OnceEach(wait_list'[a])
           /\ \A a, b \in Caches : a # b => ClientsOf(wait_list'[a]) \cap ClientsOf(wait_list'[b]) = {}
<1>0. /\ \A a \in Caches : wait_list[a] \in Seq(Waiter) /\ OnceEach(wait_list[a])
      /\ \A a, b \in Caches : a # b => ClientsOf(wait_list[a]) \cap ClientsOf(wait_list[b]) = {}
  BY DEF Types, Apart
<1>1. \A a \in Caches : wait_list'[a] = IF a \in T THEN << >> ELSE wait_list[a]
  OBVIOUS
<1>2. << >> \in Seq(Waiter)
  OBVIOUS
<1>3. wait_list' \in [Caches -> Seq(Waiter)]
  BY <1>0, <1>2
<1>4. \A a \in Caches : /\ a \in T => ClientsOf(wait_list'[a]) = {}
                        /\ a \notin T => ClientsOf(wait_list'[a]) = ClientsOf(wait_list[a])
  BY <1>1, ClientsEmpty
<1>5. Taken(T) \subseteq Listed
  BY DEF Taken, Listed
<1>6. Listed' = UNION {ClientsOf(wait_list'[a]) : a \in Caches}
  BY DEF Listed
<1>7. Listed' \subseteq Listed \ Taken(T)
  <2>1. SUFFICES ASSUME NEW a \in Caches, NEW c \in ClientsOf(wait_list'[a])
                 PROVE  c \in Listed \ Taken(T)
    BY <1>6
  <2>2. a \notin T /\ c \in ClientsOf(wait_list[a])
    BY <1>4, <2>1
  <2>3. \A b \in T : b # a /\ b \in Caches
    BY <2>2
  <2>4. \A b \in T : c \notin ClientsOf(wait_list[b])
    BY <1>0, <2>2, <2>3
  <2> QED BY <2>2, <2>4 DEF Listed, Taken
<1>8. Listed \ Taken(T) \subseteq Listed'
  <2>1. SUFFICES ASSUME NEW a \in Caches, NEW c \in ClientsOf(wait_list[a]), c \notin Taken(T)
                 PROVE  c \in Listed'
    BY DEF Listed
  <2>2. a \notin T
    BY <2>1 DEF Taken
  <2> QED BY <1>4, <1>6, <2>1, <2>2
<1>9. \A a \in Caches : OnceEach(wait_list'[a])
  BY <1>0, <1>1, ClientsEmpty
<1>10. \A a, b \in Caches : a # b => ClientsOf(wait_list'[a]) \cap ClientsOf(wait_list'[b]) = {}
  BY <1>0, <1>4
<1> QED BY <1>3, <1>5, <1>7, <1>8, <1>9, <1>10

\* The lists of T are posted.
LEMMA PostLists ==
    ASSUME Types, Apart, Listed \cap Queued = {}, NEW T \in SUBSET Caches,
           \A a \in T : wait_list[a] # << >>,
           posted' = posted \cup {wait_list[a] : a \in T}
    PROVE  /\ posted' \subseteq Seq(Waiter)
           /\ Queued' = Queued \cup Taken(T)
           /\ \A p \in posted' : p # << >> /\ OnceEach(p)
           /\ \A p, q \in posted' : p # q => ClientsOf(p) \cap ClientsOf(q) = {}
<1>0. /\ \A a \in Caches : wait_list[a] \in Seq(Waiter) /\ OnceEach(wait_list[a])
      /\ \A a, b \in Caches : a # b => ClientsOf(wait_list[a]) \cap ClientsOf(wait_list[b]) = {}
      /\ \A p \in posted : p \in Seq(Waiter) /\ p # << >> /\ OnceEach(p)
      /\ \A p, q \in posted : p # q => ClientsOf(p) \cap ClientsOf(q) = {}
  BY DEF Types, Apart
<1>1. \A p \in posted' : p \in posted \/ \E a \in T : p = wait_list[a]
  OBVIOUS
<1>2. posted' \subseteq Seq(Waiter)
  BY <1>0, <1>1
<1>3. \A p \in posted' : p # << >> /\ OnceEach(p)
  BY <1>0, <1>1
<1>4. \A a \in T, p \in posted : ClientsOf(wait_list[a]) \cap ClientsOf(p) = {}
  <2>1. \A a \in T : ClientsOf(wait_list[a]) \subseteq Listed
    BY DEF Listed
  <2>2. \A p \in posted : ClientsOf(p) \subseteq Queued
    BY DEF Queued
  <2> QED BY <2>1, <2>2
<1>5. \A p, q \in posted' : p # q => ClientsOf(p) \cap ClientsOf(q) = {}
  <2>1. SUFFICES ASSUME NEW p \in posted', NEW q \in posted', p # q
                 PROVE  ClientsOf(p) \cap ClientsOf(q) = {}
    OBVIOUS
  <2>2. CASE p \in posted /\ q \in posted
    BY <1>0, <2>1, <2>2
  <2>3. CASE p \in posted /\ \E a \in T : q = wait_list[a]
    BY <1>4, <2>3
  <2>4. CASE (\E a \in T : p = wait_list[a]) /\ q \in posted
    BY <1>4, <2>4
  <2>5. CASE (\E a \in T : p = wait_list[a]) /\ \E a \in T : q = wait_list[a]
    <3>1. PICK a \in T : p = wait_list[a]
      BY <2>5
    <3>2. PICK b \in T : q = wait_list[b]
      BY <2>5
    <3>3. a # b /\ a \in Caches /\ b \in Caches
      BY <2>1, <3>1, <3>2
    <3> QED BY <1>0, <3>1, <3>2, <3>3
  <2> QED BY <1>1, <2>2, <2>3, <2>4, <2>5
<1>6. Queued' = UNION {ClientsOf(p) : p \in posted'}
  BY DEF Queued
<1>7. Queued' = Queued \cup Taken(T)
  BY <1>6 DEF Queued, Taken
<1> QED BY <1>2, <1>3, <1>5, <1>7

\* Clients of a channel, counted: each is in one of two disjoint sets.
LEMMA OnFinite ==
    ASSUME NEW S \in SUBSET Clients, NEW ch
    PROVE  IsFiniteSet(On(S, ch)) /\ Cardinality(On(S, ch)) \in Nat
<1>1. On(S, ch) \in SUBSET Clients
  BY DEF On
<1>2. IsFiniteSet(On(S, ch))
  BY <1>1, FS_Subset, ConstantAssumption
<1> QED BY <1>2, FS_CardinalityType

\* Clients in two disjoint places are counted once each.
LEMMA CountSplit ==
    ASSUME NEW A \in SUBSET Clients, NEW B \in SUBSET Clients, A \cap B = {}, NEW ch
    PROVE  Cardinality(On(A, ch)) + Cardinality(On(B, ch)) = Cardinality(On(A \cup B, ch))
<1>1. IsFiniteSet(On(A, ch)) /\ IsFiniteSet(On(B, ch))
      /\ Cardinality(On(A, ch)) \in Nat /\ Cardinality(On(B, ch)) \in Nat
  BY OnFinite
<1>2. On(A \cup B, ch) = On(A, ch) \cup On(B, ch)
  BY DEF On
<1>3. On(A, ch) \cap On(B, ch) = {}
  BY DEF On
<1>4. Cardinality(On(A, ch) \cup On(B, ch)) =
         Cardinality(On(A, ch)) + Cardinality(On(B, ch)) - Cardinality(On(A, ch) \cap On(B, ch))
  BY <1>1, FS_Union
<1>5. Cardinality(On(A, ch) \cap On(B, ch)) = 0
  BY <1>3, FS_EmptySet
<1> DEFINE x == Cardinality(On(A, ch))
           y == Cardinality(On(B, ch))
           z == Cardinality(On(A, ch) \cup On(B, ch))
<1>6. x \in Nat /\ y \in Nat /\ z = x + y - 0
  BY <1>1, <1>4, <1>5
<1>7. z = Cardinality(On(A \cup B, ch))
  BY <1>2
<1> HIDE DEF x, y, z
<1>8. x + y = z
  BY <1>6
<1> QED BY <1>7, <1>8 DEF x, y

\* The client that is added to the waiting ones, or is not any more in the batch.
LEMMA CountAdd ==
    ASSUME NEW A \in SUBSET Clients, NEW c \in Clients, c \notin A, NEW ch
    PROVE  Cardinality(On(A \cup {c}, ch)) =
              Cardinality(On(A, ch)) + (IF ChanOf[c] = ch THEN 1 ELSE 0)
<1>1. IsFiniteSet(On(A, ch)) /\ Cardinality(On(A, ch)) \in Nat
  BY OnFinite
<1>2. CASE ChanOf[c] = ch
  <2>1. On(A \cup {c}, ch) = On(A, ch) \cup {c} /\ c \notin On(A, ch)
    BY <1>2 DEF On
  <2> QED BY <1>1, <1>2, <2>1, FS_AddElement
<1>3. CASE ChanOf[c] # ch
  <2>1. On(A \cup {c}, ch) = On(A, ch)
    BY <1>3 DEF On
  <2> QED BY <1>1, <1>3, <2>1
<1> QED BY <1>2, <1>3

\* Between two runs, waiting clients move from lists to buffers or from buffers
\* to the batch.
LEMMA Moved ==
    ASSUME IInv, Types', ~Running, client_vars' = client_vars,
           Listed' \cup Queued' \cup Batched' = Listed \cup Queued \cup Batched,
           Listed' \cap Queued' = {}, Listed' \cap Batched' = {}, Queued' \cap Batched' = {}
    PROVE  /\ Phases' /\ RunState'
           /\ \A ch \in Chans : Held(ch)' = Held(ch)
<1>0. /\ current_client' = current_client /\ client_exited' = client_exited
      /\ cache_miss_cnt' = cache_miss_cnt /\ access_cnt' = access_cnt
      /\ args' = args /\ last_event' = last_event
  BY DEF client_vars
<1>1. ~Running'
  BY <1>0 DEF Running
<1>2. \A c \in Clients : ~RunningNow(c) /\ ~RunningNow(c)'
  BY <1>0, ConstantAssumption DEF Running, RunningNow
<1>3. Types /\ Phases /\ RunState
  BY DEF IInv
<1>4. ASSUME NEW c \in Clients PROVE Phase(c)'
  <2>1. Phase(c)
    BY <1>3 DEF Phases
  <2>2. RestPhase(c) /\ (last_event[c] = "none" => args[c] = "none")
    BY <1>2, <2>1 DEF Phase
  <2>3. RestPhase(c)'
    BY <1>0, <2>2 DEF RestPhase
  <2> QED BY <1>0, <1>2, <2>2, <2>3 DEF Phase
<1>5. Phases'
  BY <1>4 DEF Phases
<1>6. RunState'
  BY <1>0, <1>1, <1>3 DEF RunState, Running
<1>7. Listed \cap (Queued \cup Batched) = {}
  <2>1. Listed \subseteq Clients
    BY <1>3, Places3
  <2>2. \A c \in Clients : c \notin Listed \cap Queued /\ c \notin Listed \cap Batched
    BY <1>2, <1>3 DEF Phases, Phase, RestPhase
  <2> QED BY <2>1, <2>2
<1>8. /\ Listed \subseteq Clients /\ Queued \subseteq Clients /\ Batched \subseteq Clients
      /\ Listed' \subseteq Clients /\ Queued' \subseteq Clients /\ Batched' \subseteq Clients
  <2>1. Listed \subseteq Clients /\ Queued \subseteq Clients /\ Batched \subseteq Clients
    BY <1>3, Places3
  <2> QED BY <2>1
<1>9. ASSUME NEW ch \in Chans PROVE Held(ch)' = Held(ch)
  <2>1. Held(ch) = Cardinality(On(Listed \cup (Queued \cup Batched), ch))
    BY <1>7, <1>8, CountSplit DEF Held
  <2>2. Listed' \cap (Queued' \cup Batched') = {}
    OBVIOUS
  <2>3. Held(ch)' = Cardinality(On(Listed', ch)) + Cardinality(On(Queued' \cup Batched', ch))
    BY DEF Held, On
  <2>4. Held(ch)' = Cardinality(On(Listed' \cup (Queued' \cup Batched'), ch))
    BY <1>8, <2>2, <2>3, CountSplit
  <2>5. Listed' \cup (Queued' \cup Batched') = Listed \cup (Queued \cup Batched)
    OBVIOUS
  <2> QED BY <2>1, <2>4, <2>5
<1> QED BY <1>5, <1>6, <1>9

-----------------------------------------------------------------------------
(* Every step keeps the invariant.                                            *)

\* The initial states satisfy the inductive invariant.
LEMMA InitIInv == Init => IInv
<1> SUFFICES ASSUME Init PROVE IInv
  OBVIOUS
<1> USE ConstantAssumption
<1>1. Types
  <2>1. IdMod \in Nat /\ IdMod > 1 /\ MaxAccess \in Nat /\ MaxSafe \in Nat /\ MaxFlush \in Nat
    OBVIOUS
  <2>2. /\ 0 \in 0..IdMod - 1 /\ 0 \in 0..MaxAccess /\ 0 \in 0..MaxSafe /\ 0 \in 0..MaxFlush
        /\ 0 \in 0..0
    BY <2>1
  <2>3. /\ entry \in [Entries -> [st : {"free", "linked", "orphan"}, chan : Chans \cup {NULL},
                                  key : Keys \cup {NULL}, pending : BOOLEAN]]
        /\ wait_list \in [Caches -> Seq(Waiter)]
        /\ batch \in Seq(Waiter) /\ posted \subseteq Seq(Waiter)
    BY DEF Init, NoEntry
  <2> QED BY <2>2, <2>3 DEF Init, Types
<1>2. \A a \in Caches : wait_list[a] = << >>
  BY DEF Init
<1>3. Listed = {} /\ Queued = {} /\ Batched = {}
  BY <1>2, ClientsEmpty DEF Init, Listed, Queued, Batched
<1>4. Apart
  BY <1>2, ClientsEmpty DEF Init, Apart
<1>5. ~Running /\ \A c \in Clients : ~RunningNow(c)
  BY DEF Init, Running, RunningNow, NoClient
<1>6. Phases
  BY <1>3, <1>5 DEF Init, Phases, Phase, RestPhase
<1>7. RunState
  BY <1>5 DEF Init, RunState
<1>8. LocksExact
  <2>1. ASSUME NEW ch \in Chans PROVE Held(ch) = 0 /\ Base(ch) = 1
    <3>1. On(Listed, ch) = {} /\ On(Queued \cup Batched, ch) = {}
      BY <1>3 DEF On
    <3>2. Held(ch) = 0
      BY <3>1, FS_EmptySet DEF Held
    <3> QED BY <3>2 DEF Base, Init
  <2> QED BY <2>1 DEF Init, LocksExact
<1>9. Replies
  <2>1. \A e \in Entries : entry[e].st = "free" /\ entry[e].pending = FALSE
    BY DEF Init, NoEntry
  <2>2. \A e \in Entries : e \in Caches
    BY DEF Caches
  <2>3. LinkedOnce
    BY <2>1 DEF LinkedOnce
  <2>4. \A e \in Entries : EntryOK(e)
    BY <1>2, <2>1, <2>2 DEF EntryOK
  <2>5. Gate \in Caches
    BY DEF Caches
  <2>6. cache_list = {a \in Caches : wait_list[a] # << >>}
    BY <1>2 DEF Init
  <2> QED BY <1>2, <2>3, <2>4, <2>5, <2>6 DEF Replies
<1> QED BY <1>1, <1>4, <1>6, <1>7, <1>8, <1>9 DEF IInv

\* Identifiers of transactions are never 0, also after id_cnt wrapped.
LEMMA IdFacts ==
    ASSUME id_cnt \in 0..IdMod - 1
    PROVE  NextId(id_cnt) \in 1..IdMod - 1 /\ IdAfter(NextId(id_cnt)) \in 0..IdMod - 1
<1>1. NextId(id_cnt) \in 1..IdMod - 1
  BY ConstantAssumption DEF NextId
<1>2. PICK n \in 1..IdMod - 1 : n = NextId(id_cnt)
  BY <1>1
<1>3. IdMod \in Nat /\ IdMod > 1
  BY ConstantAssumption
<1>4. (n + 1) % IdMod \in 0..IdMod - 1
  BY <1>2, <1>3
<1> QED BY <1>1, <1>2, <1>4 DEF IdAfter

\* Who runs.
LEMMA RunFacts ==
    ASSUME Types
    PROVE  /\ Running => current_client \in Waiter
           /\ Running <=> \E c \in Clients : RunningNow(c)
           /\ \A c \in Clients : RunningNow(c) => Running /\ c = current_client.client
<1>1. current_client \in Waiter \/ current_client = NoClient
  BY DEF Types
<1>2. current_client \in Waiter => current_client.client \in Clients
  BY WaiterFields
<1>3. NULL \notin Clients /\ NoClient.client = NULL
  BY ConstantAssumption DEF NoClient
<1> QED BY <1>1, <1>2, <1>3 DEF Running, RunningNow

\* cache_enter() starts a client.
LEMMA EnterKeeps ==
    ASSUME IInv, NEW c \in Clients, CacheEnter(c)
    PROVE  IInv'
<1>0. /\ Types /\ Apart /\ Phases /\ RunState /\ LocksExact /\ Replies
      /\ ~Running /\ batch = << >> /\ last_event[c] = "none"
  BY DEF IInv, CacheEnter, Idle
<1>1. /\ wait_list' = wait_list /\ posted' = posted /\ batch' = batch /\ cache_list' = cache_list
      /\ entry' = entry /\ root' = root /\ chan' = chan /\ lock_cnt' = lock_cnt
      /\ safe_cnt' = safe_cnt /\ safe_posted' = safe_posted /\ flush_cnt' = flush_cnt
      /\ client_exited' = client_exited /\ cache_miss_cnt' = cache_miss_cnt
      /\ access_cnt' = access_cnt
  BY DEF CacheEnter, entry_vars, safe_vars
<1>2. /\ current_client' = [client |-> c, id |-> NextId(id_cnt)]
      /\ id_cnt' = IdAfter(NextId(id_cnt))
      /\ args' = [args EXCEPT ![c] = "stack"]
      /\ last_event' = [last_event EXCEPT ![c] = "START"]
      /\ ChanOf[c] # NULL => chan[ChanOf[c]] = "open"
  BY DEF CacheEnter
<1>3. current_client' \in Waiter /\ current_client'.client = c
  BY <1>0, <1>2, IdFacts DEF Types, Waiter
<1>4. id_cnt' \in 0..IdMod - 1
  BY <1>0, <1>2, IdFacts DEF Types
<1>5. Types'
  BY <1>0, <1>1, <1>2, <1>3, <1>4 DEF Types
<1>6. /\ Listed' = Listed /\ Queued' = Queued /\ Batched' = Batched
      /\ Apart'
      /\ \A ch \in Chans : Held(ch)' = Held(ch)
  BY <1>0, <1>1, SameLists
<1>7. c \notin Listed \cup Queued \cup Batched
  <2>1. ~RunningNow(c) /\ Phase(c)
    BY <1>0, RunFacts DEF Phases
  <2> QED BY <1>0, <2>1 DEF Phase, RestPhase
<1>8. Running' /\ \A d \in Clients : RunningNow(d)' <=> d = c
  BY <1>3, WaiterFields DEF Running, RunningNow
<1>9. cache_miss_cnt' = 0
  BY <1>0, <1>1 DEF RunState
<1>10. ASSUME NEW d \in Clients PROVE Phase(d)'
  <2>1. Phase(d)
    BY <1>0 DEF Phases
  <2>2. CASE d = c
    <3>1. args'[d] = "stack" /\ last_event'[d] = "START"
      BY <1>0, <1>2, <2>2 DEF Types
    <3>2. RunPhase(d)'
      BY <1>6, <1>7, <1>9, <2>2, <3>1 DEF RunPhase
    <3> QED BY <1>6, <1>7, <1>8, <2>2, <3>1, <3>2 DEF Phase
  <2>3. CASE d # c
    <3>1. args'[d] = args[d] /\ last_event'[d] = last_event[d]
      BY <1>0, <1>2, <2>3 DEF Types
    <3>2. ~RunningNow(d) /\ ~RunningNow(d)'
      BY <1>0, <1>8, <2>3, RunFacts
    <3>3. RestPhase(d)'
      BY <1>6, <2>1, <3>1, <3>2 DEF Phase, RestPhase
    <3> QED BY <1>6, <2>1, <3>1, <3>2, <3>3 DEF Phase
  <2> QED BY <2>2, <2>3
<1>11. Phases'
  BY <1>10 DEF Phases
<1>12. RunState'
  BY <1>0, <1>1, <1>2, <1>3, <1>8 DEF RunState
<1>13. LocksExact'
  BY <1>0, <1>1, <1>6, SameLocks
<1>14. Replies'
  BY <1>0, <1>1, SameReplies
<1> QED BY <1>5, <1>6, <1>11, <1>12, <1>13, <1>14 DEF IInv

\* The next client of the batch is retried.
LEMMA RetryKeeps ==
    ASSUME IInv, RetryNext
    PROVE  IInv'
<1>0. /\ Types /\ Apart /\ Phases /\ RunState /\ LocksExact /\ Replies
      /\ ~Running /\ batch # << >>
  BY DEF IInv, RetryNext
<1>1. /\ wait_list' = wait_list /\ posted' = posted /\ batch' = batch /\ cache_list' = cache_list
      /\ entry' = entry /\ root' = root /\ chan' = chan /\ lock_cnt' = lock_cnt
      /\ safe_cnt' = safe_cnt /\ safe_posted' = safe_posted /\ flush_cnt' = flush_cnt
      /\ client_exited' = client_exited /\ cache_miss_cnt' = cache_miss_cnt
      /\ access_cnt' = access_cnt /\ args' = args /\ id_cnt' = id_cnt
  BY DEF RetryNext, entry_vars, safe_vars
<1>2. PICK c \in Clients : c = Head(batch).client /\ c \in Batched
  BY <1>0, ClientsTail, WaiterFields DEF Types, Apart, Batched
<1>3. /\ current_client' = Head(batch)
      /\ last_event' = [last_event EXCEPT ![c] = "RETRY"]
  BY <1>2 DEF RetryNext
<1>4. current_client' \in Waiter /\ current_client'.client = c
  BY <1>0, <1>2, <1>3, ClientsTail DEF Types, Apart
<1>5. Types'
  BY <1>0, <1>1, <1>3, <1>4 DEF Types
<1>6. /\ Listed' = Listed /\ Queued' = Queued /\ Batched' = Batched
      /\ Apart'
      /\ \A ch \in Chans : Held(ch)' = Held(ch)
  BY <1>0, <1>1, SameLists
<1>7. ~RunningNow(c) /\ Phase(c)
  BY <1>0, RunFacts DEF Phases
<1>8. Running' /\ \A d \in Clients : RunningNow(d)' <=> d = c
  BY <1>4, WaiterFields DEF Running, RunningNow
<1>9. cache_miss_cnt' = 0
  BY <1>0, <1>1 DEF RunState
<1>10. ASSUME NEW d \in Clients PROVE Phase(d)'
  <2>1. Phase(d)
    BY <1>0 DEF Phases
  <2>2. CASE d = c
    <3>1. args'[d] = "heap" /\ last_event'[d] = "RETRY" /\ c \notin Listed /\ c \notin Queued
      BY <1>0, <1>1, <1>2, <1>3, <1>7, <2>2 DEF Types, Phase, RestPhase
    <3>2. RunPhase(d)'
      BY <1>2, <1>6, <1>9, <2>2, <3>1 DEF RunPhase
    <3> QED BY <1>6, <1>8, <2>2, <3>1, <3>2 DEF Phase
  <2>3. CASE d # c
    <3>1. args'[d] = args[d] /\ last_event'[d] = last_event[d]
      BY <1>0, <1>1, <1>3, <2>3 DEF Types
    <3>2. ~RunningNow(d) /\ ~RunningNow(d)'
      BY <1>0, <1>8, <2>3, RunFacts
    <3>3. RestPhase(d)'
      BY <1>6, <2>1, <3>1, <3>2 DEF Phase, RestPhase
    <3> QED BY <1>6, <2>1, <3>1, <3>2, <3>3 DEF Phase
  <2> QED BY <2>2, <2>3
<1>11. Phases'
  BY <1>10 DEF Phases
<1>12. RunState'
  BY <1>0, <1>1, <1>3, <1>8 DEF RunState
<1>13. LocksExact'
  BY <1>0, <1>1, <1>6, SameLocks
<1>14. Replies'
  BY <1>0, <1>1, SameReplies
<1> QED BY <1>5, <1>6, <1>11, <1>12, <1>13, <1>14 DEF IInv

\* Between two runs nobody is in two places.
LEMMA IdleApart ==
    ASSUME Types, Phases, ~Running
    PROVE  Listed \cap Queued = {} /\ Listed \cap Batched = {} /\ Queued \cap Batched = {}
<1>1. Listed \subseteq Clients /\ Queued \subseteq Clients /\ Batched \subseteq Clients
  BY Places3
<1>2. \A c \in Clients : ~RunningNow(c) /\ Phase(c)
  BY RunFacts DEF Phases
<1>3. \A c \in Clients : /\ c \notin Listed \cap Queued /\ c \notin Listed \cap Batched
                         /\ c \notin Batched \cap Queued
  BY <1>2 DEF Phase, RestPhase
<1> QED BY <1>1, <1>3

\* The clients and their places stay as they are.
LEMMA Resting ==
    ASSUME IInv, Types', ~Running, client_vars' = client_vars,
           wait_list' = wait_list, posted' = posted, batch' = batch
    PROVE  /\ Apart' /\ Phases' /\ RunState'
           /\ \A ch \in Chans : Held(ch)' = Held(ch)
<1>1. /\ Listed' = Listed /\ Queued' = Queued /\ Batched' = Batched
      /\ Apart'
  BY SameLists DEF IInv
<1>2. Listed \cap Queued = {} /\ Listed \cap Batched = {} /\ Queued \cap Batched = {}
  BY IdleApart DEF IInv
<1> QED BY <1>1, <1>2, Moved

\* flush_cache() frees the linked entries; those with a reply outstanding are
\* only unlinked.
LEMMA FlushKeeps ==
    ASSUME IInv, FlushCache
    PROVE  IInv'
<1>0. /\ Types /\ Apart /\ Phases /\ RunState /\ LocksExact /\ Replies /\ ~Running
  BY DEF IInv, FlushCache, Idle
<1>1. /\ wait_list' = wait_list /\ posted' = posted /\ batch' = batch /\ cache_list' = cache_list
      /\ root' = root /\ chan' = chan /\ lock_cnt' = lock_cnt /\ id_cnt' = id_cnt
      /\ safe_cnt' = safe_cnt /\ safe_posted' = safe_posted /\ client_vars' = client_vars
      /\ flush_cnt' = flush_cnt + 1 /\ flush_cnt < MaxFlush
  BY DEF FlushCache, safe_vars
<1>2. ASSUME NEW e \in Entries
      PROVE  /\ entry'[e] \in [st : {"free", "linked", "orphan"}, chan : Chans \cup {NULL},
                               key : Keys \cup {NULL}, pending : BOOLEAN]
             /\ entry'[e].st # "linked"
             /\ entry'[e].pending = entry[e].pending
             /\ entry'[e].pending => entry'[e].st # "free"
             /\ entry'[e].st = "orphan" => entry'[e].pending
  <2>1. entry'[e] = IF entry[e].st = "linked" THEN Freed(entry[e]) ELSE entry[e]
    BY DEF FlushCache
  <2>2. EntryOK(e) /\ entry[e] \in [st : {"free", "linked", "orphan"}, chan : Chans \cup {NULL},
                                    key : Keys \cup {NULL}, pending : BOOLEAN]
    BY <1>0 DEF Replies, Types
  <2>3. CASE entry[e].st = "linked" /\ entry[e].pending
    <3>1. entry'[e] = [entry[e] EXCEPT !.st = "orphan"]
      BY <2>1, <2>3 DEF Freed
    <3> QED BY <2>2, <2>3, <3>1
  <2>4. CASE entry[e].st = "linked" /\ ~entry[e].pending
    <3>1. entry'[e] = NoEntry
      BY <2>1, <2>4 DEF Freed
    <3>2. entry'[e].st = "free" /\ entry'[e].pending = FALSE
      BY <3>1 DEF NoEntry
    <3>3. entry[e].pending \in BOOLEAN
      BY <2>2
    <3>4. entry[e].pending = FALSE
      BY <2>4, <3>3
    <3>5. entry'[e] \in [st : {"free", "linked", "orphan"}, chan : Chans \cup {NULL},
                         key : Keys \cup {NULL}, pending : BOOLEAN]
      BY <3>1 DEF NoEntry
    <3> QED BY <3>2, <3>4, <3>5
  <2>5. CASE entry[e].st # "linked"
    BY <2>1, <2>2, <2>5 DEF EntryOK
  <2> QED BY <2>3, <2>4, <2>5
<1>3. Types'
  <2>1. flush_cnt' \in 0..MaxFlush
    BY <1>0, <1>1, ConstantAssumption DEF Types
  <2>2. entry' \in [Entries -> [st : {"free", "linked", "orphan"}, chan : Chans \cup {NULL},
                                key : Keys \cup {NULL}, pending : BOOLEAN]]
    BY <1>2 DEF FlushCache
  <2> QED BY <1>0, <1>1, <2>1, <2>2 DEF Types, client_vars
<1>4. Apart' /\ Phases' /\ RunState' /\ \A ch \in Chans : Held(ch)' = Held(ch)
  BY <1>0, <1>1, <1>3, Resting
<1>5. LocksExact'
  BY <1>0, <1>1, <1>4, SameLocks
<1>6. Replies'
  <2>1. LinkedOnce'
    BY <1>2 DEF LinkedOnce
  <2>2. \A e \in Entries : EntryOK(e)'
    BY <1>0, <1>1, <1>2 DEF Replies, EntryOK
  <2> QED BY <1>0, <1>1, <2>1, <2>2 DEF Replies
<1> QED BY <1>3, <1>4, <1>5, <1>6 DEF IInv

\* The locks counted by Held are natural numbers.
LEMMA HeldNat ==
    ASSUME Types, NEW ch \in Chans
    PROVE  Held(ch) \in Nat
<1>1. Listed \in SUBSET Clients /\ Queued \cup Batched \in SUBSET Clients
  BY Places3
<1>2. Cardinality(On(Listed, ch)) \in Nat /\ Cardinality(On(Queued \cup Batched, ch)) \in Nat
  BY <1>1, OnFinite
<1> QED BY <1>2 DEF Held

\* The transport of a closing channel gives back its lock.
LEMMA TransportKeeps ==
    ASSUME IInv, NEW c \in Chans, TransportUnlock(c)
    PROVE  IInv'
<1>0. /\ Types /\ Apart /\ Phases /\ RunState /\ LocksExact /\ Replies /\ ~Running
      /\ chan[c] = "closing"
  BY DEF IInv, TransportUnlock, Idle
<1>1. /\ wait_list' = wait_list /\ posted' = posted /\ batch' = batch /\ cache_list' = cache_list
      /\ root' = root /\ entry' = entry /\ id_cnt' = id_cnt /\ flush_cnt' = flush_cnt
      /\ safe_cnt' = safe_cnt /\ safe_posted' = safe_posted /\ client_vars' = client_vars
      /\ lock_cnt' = [lock_cnt EXCEPT ![c] = @ - 1]
      /\ chan' = [chan EXCEPT ![c] = IF lock_cnt[c] = 1 THEN "deleted" ELSE "closed"]
  BY DEF TransportUnlock, safe_vars, entry_vars
<1>2. Types'
  BY <1>0, <1>1 DEF Types, client_vars
<1>3. Apart' /\ Phases' /\ RunState' /\ \A ch \in Chans : Held(ch)' = Held(ch)
  BY <1>0, <1>1, <1>2, Resting
<1>4. ASSUME NEW ch \in Chans
      PROVE  /\ lock_cnt'[ch] \in Nat
             /\ lock_cnt'[ch] = Held(ch)' + Base(ch)'
             /\ chan'[ch] = "deleted" <=> lock_cnt'[ch] = 0
             /\ ch \in root' => chan'[ch] = "open"
  <2>1. /\ lock_cnt[ch] = Held(ch) + Base(ch) /\ lock_cnt[ch] \in Nat
        /\ (chan[ch] = "deleted" <=> lock_cnt[ch] = 0)
        /\ (ch \in root => chan[ch] = "open")
    BY <1>0 DEF LocksExact
  <2>2. CASE ch = c
    <3>1. c \notin root /\ Base(ch) = 1 /\ Held(ch) \in Nat
      BY <1>0, <2>1, <2>2, HeldNat DEF Base
    <3>2. lock_cnt'[ch] = lock_cnt[ch] - 1
          /\ chan'[ch] = IF lock_cnt[ch] = 1 THEN "deleted" ELSE "closed"
      BY <1>0, <1>1, <2>2 DEF LocksExact, Types
    <3>3. Base(ch)' = 0
      BY <1>1, <2>2, <3>1, <3>2 DEF Base
    <3> QED BY <1>1, <1>3, <2>1, <2>2, <3>1, <3>2, <3>3
  <2>3. CASE ch # c
    <3>1. lock_cnt'[ch] = lock_cnt[ch] /\ chan'[ch] = chan[ch]
      BY <1>0, <1>1, <2>3 DEF LocksExact, Types
    <3>2. Base(ch)' = Base(ch)
      BY <1>1, <3>1 DEF Base
    <3> QED BY <1>1, <1>3, <2>1, <3>1, <3>2
  <2> QED BY <2>2, <2>3
<1>5. lock_cnt' \in [Chans -> Nat]
  BY <1>0, <1>1, <1>4 DEF LocksExact
<1>6. LocksExact'
  BY <1>4, <1>5 DEF LocksExact
<1>7. Replies'
  BY <1>0, <1>1, SameReplies
<1> QED BY <1>2, <1>3, <1>6, <1>7 DEF IInv

\* cache_notify_event() takes a posted buffer as its batch.
LEMMA NotifyEventKeeps ==
    ASSUME IInv, NEW buf \in posted, CacheNotifyEvent(buf)
    PROVE  IInv'
<1>0. /\ Types /\ Apart /\ Phases /\ RunState /\ LocksExact /\ Replies /\ ~Running
      /\ batch = << >>
  BY DEF IInv, CacheNotifyEvent, Idle
<1>1. /\ wait_list' = wait_list /\ cache_list' = cache_list /\ chan' = chan /\ lock_cnt' = lock_cnt
      /\ root' = root /\ entry' = entry /\ id_cnt' = id_cnt /\ flush_cnt' = flush_cnt
      /\ safe_cnt' = safe_cnt /\ safe_posted' = safe_posted /\ client_vars' = client_vars
      /\ posted' = posted \ {buf} /\ batch' = buf
  BY DEF CacheNotifyEvent, safe_vars, entry_vars
<1>2. Types'
  BY <1>0, <1>1 DEF Types, client_vars
<1>3. Listed' = Listed
  BY <1>1 DEF Listed
<1>4. Batched' = ClientsOf(buf)
  BY <1>1 DEF Batched
<1>5. Batched = {}
  BY <1>0, ClientsEmpty DEF Batched
<1>6. Queued' = Queued \ ClientsOf(buf) /\ ClientsOf(buf) \subseteq Queued
  <2>1. Queued' = UNION {ClientsOf(p) : p \in posted \ {buf}}
    BY <1>1 DEF Queued
  <2>2. Queued = UNION {ClientsOf(p) : p \in posted}
    BY DEF Queued
  <2>3. \A p \in posted \ {buf} : ClientsOf(p) \cap ClientsOf(buf) = {}
    BY <1>0 DEF Apart
  <2> QED BY <2>1, <2>2, <2>3
<1>7. Apart'
  BY <1>0, <1>1 DEF Apart
<1>8. Listed \cap Queued = {}
  BY <1>0, IdleApart
<1>9. /\ Listed' \cup Queued' \cup Batched' = Listed \cup Queued \cup Batched
      /\ Listed' \cap Queued' = {} /\ Listed' \cap Batched' = {} /\ Queued' \cap Batched' = {}
  BY <1>3, <1>4, <1>5, <1>6, <1>8
<1>10. Phases' /\ RunState' /\ \A ch \in Chans : Held(ch)' = Held(ch)
  BY <1>0, <1>1, <1>2, <1>9, Moved
<1>11. LocksExact'
  BY <1>0, <1>1, <1>10, SameLocks
<1>12. Replies'
  BY <1>0, <1>1, SameReplies
<1> QED BY <1>2, <1>7, <1>10, <1>11, <1>12 DEF IInv

\* Waiting lists are posted between two runs.
LEMMA PostKeeps ==
    ASSUME IInv, ~Running, client_vars' = client_vars, batch' = batch, NEW T \in SUBSET Caches,
           \A a \in T : wait_list[a] # << >>,
           wait_list' = [a \in Caches |-> IF a \in T THEN << >> ELSE wait_list[a]],
           posted' = posted \cup {wait_list[a] : a \in T},
           cache_list' = cache_list \ T
    PROVE  /\ wait_list' \in [Caches -> Seq(Waiter)] /\ posted' \subseteq Seq(Waiter)
           /\ cache_list' = {a \in Caches : wait_list'[a] # << >>}
           /\ \A a \in Caches : wait_list'[a] # << >> => wait_list[a] # << >> /\ a \notin T
           /\ Apart'
           /\ Types' => Phases' /\ RunState' /\ \A ch \in Chans : Held(ch)' = Held(ch)
<1>0. Types /\ Apart /\ Phases /\ Replies
  BY DEF IInv
<1>1. Listed \cap Queued = {} /\ Listed \cap Batched = {} /\ Queued \cap Batched = {}
  BY <1>0, IdleApart
<1>2. /\ wait_list' \in [Caches -> Seq(Waiter)]
      /\ Listed' = Listed \ Taken(T) /\ Taken(T) \subseteq Listed
      /\ \A a \in Caches : OnceEach(wait_list'[a])
      /\ \A a, b \in Caches : a # b => ClientsOf(wait_list'[a]) \cap ClientsOf(wait_list'[b]) = {}
  BY <1>0, TakeLists
<1>3. /\ posted' \subseteq Seq(Waiter)
      /\ Queued' = Queued \cup Taken(T)
      /\ \A p \in posted' : p # << >> /\ OnceEach(p)
      /\ \A p, q \in posted' : p # q => ClientsOf(p) \cap ClientsOf(q) = {}
  BY <1>0, <1>1, PostLists
<1>4. Batched' = Batched
  BY DEF Batched
<1>5. Apart'
  BY <1>0, <1>2, <1>3 DEF Apart
<1>6. /\ Listed' \cup Queued' \cup Batched' = Listed \cup Queued \cup Batched
      /\ Listed' \cap Queued' = {} /\ Listed' \cap Batched' = {} /\ Queued' \cap Batched' = {}
  BY <1>1, <1>2, <1>3, <1>4
<1>7. Types' => Phases' /\ RunState' /\ \A ch \in Chans : Held(ch)' = Held(ch)
  BY <1>6, Moved
<1>8. \A a \in Caches : wait_list'[a] = IF a \in T THEN << >> ELSE wait_list[a]
  OBVIOUS
<1>9. cache_list = {a \in Caches : wait_list[a] # << >>}
  BY <1>0 DEF Replies
<1>10. cache_list' = {a \in Caches : wait_list'[a] # << >>}
  BY <1>8, <1>9
<1> QED BY <1>2, <1>3, <1>5, <1>7, <1>8, <1>10

\* cache_notify_later() posts the list, if there is one.
LEMMA NotifyLaterPosts ==
    ASSUME Types, NEW a \in Caches, CacheNotifyLater(a)
    PROVE  \E T \in SUBSET {a} :
              /\ T = IF wait_list[a] = << >> THEN {} ELSE {a}
              /\ \A b \in T : wait_list[b] # << >>
              /\ wait_list' = [b \in Caches |-> IF b \in T THEN << >> ELSE wait_list[b]]
              /\ posted' = posted \cup {wait_list[b] : b \in T}
              /\ cache_list' = cache_list \ T
<1>0. wait_list \in [Caches -> Seq(Waiter)]
  BY DEF Types
<1>1. CASE wait_list[a] = << >>
  <2>1. wait_list' = wait_list /\ posted' = posted /\ cache_list' = cache_list
    BY <1>1 DEF CacheNotifyLater
  <2>2. wait_list' = [b \in Caches |-> IF b \in {} THEN << >> ELSE wait_list[b]]
    BY <1>0, <2>1
  <2> QED BY <1>1, <2>1, <2>2
<1>2. CASE wait_list[a] # << >>
  <2>1. /\ wait_list' = [wait_list EXCEPT ![a] = << >>]
        /\ cache_list' = cache_list \ {a}
        /\ posted' = posted \cup {wait_list[a]}
    BY <1>2 DEF CacheNotifyLater, Delisted, Post
  <2>2. wait_list' = [b \in Caches |-> IF b \in {a} THEN << >> ELSE wait_list[b]]
    BY <1>0, <2>1
  <2>3. posted' = posted \cup {wait_list[b] : b \in {a}}
    BY <2>1
  <2> QED BY <1>2, <2>1, <2>2, <2>3
<1> QED BY <1>1, <1>2

\* A reply arrives and the waiters of its entry are posted.
LEMMA ValidateKeeps ==
    ASSUME IInv, NEW e \in Entries, ValidateEntry(e)
    PROVE  IInv'
<1>0. /\ Types /\ Apart /\ Phases /\ RunState /\ LocksExact /\ Replies /\ ~Running
      /\ entry[e].pending
  BY DEF IInv, ValidateEntry, Idle
<1>1. /\ chan' = chan /\ lock_cnt' = lock_cnt /\ batch' = batch
      /\ root' = root /\ id_cnt' = id_cnt /\ flush_cnt' = flush_cnt
      /\ safe_cnt' = safe_cnt /\ safe_posted' = safe_posted /\ client_vars' = client_vars
      /\ entry' = [entry EXCEPT ![e] = Answered(@)]
      /\ CacheNotifyLater(e)
  BY DEF ValidateEntry, safe_vars
<1>2. e \in Caches /\ Gate \in Caches /\ Gate # e
  BY ConstantAssumption DEF Caches
<1>3. PICK T \in SUBSET {e} :
              /\ T = IF wait_list[e] = << >> THEN {} ELSE {e}
              /\ \A b \in T : wait_list[b] # << >>
              /\ wait_list' = [b \in Caches |-> IF b \in T THEN << >> ELSE wait_list[b]]
              /\ posted' = posted \cup {wait_list[b] : b \in T}
              /\ cache_list' = cache_list \ T
  BY <1>0, <1>1, <1>2, NotifyLaterPosts
<1>4. T \in SUBSET Caches
  BY <1>2
<1>5. /\ wait_list' \in [Caches -> Seq(Waiter)] /\ posted' \subseteq Seq(Waiter)
      /\ cache_list' = {a \in Caches : wait_list'[a] # << >>}
      /\ \A a \in Caches : wait_list'[a] # << >> => wait_list[a] # << >> /\ a \notin T
      /\ Apart'
      /\ Types' => Phases' /\ RunState' /\ \A ch \in Chans : Held(ch)' = Held(ch)
  BY <1>0, <1>1, <1>3, <1>4, PostKeeps
<1>6. /\ entry[e] \in [st : {"free", "linked", "orphan"}, chan : Chans \cup {NULL},
                       key : Keys \cup {NULL}, pending : BOOLEAN]
      /\ entry'[e] = Answered(entry[e])
      /\ \A f \in Entries : f # e => entry'[f] = entry[f]
      /\ EntryOK(e)
  BY <1>0, <1>1 DEF Types, Replies
<1>7. /\ entry'[e] \in [st : {"free", "linked", "orphan"}, chan : Chans \cup {NULL},
                        key : Keys \cup {NULL}, pending : BOOLEAN]
      /\ ~entry'[e].pending
      /\ entry'[e].st = "linked" => /\ entry[e].st = "linked" /\ entry'[e].chan = entry[e].chan
                                    /\ entry'[e].key = entry[e].key
      /\ entry'[e].st # "orphan"
  <2>1. CASE entry[e].st = "orphan"
    <3>1. entry'[e] = NoEntry
      BY <1>6, <2>1 DEF Answered
    <3> QED BY <3>1 DEF NoEntry
  <2>2. CASE entry[e].st # "orphan"
    <3>1. entry'[e] = [entry[e] EXCEPT !.pending = FALSE]
      BY <1>6, <2>2 DEF Answered
    <3> QED BY <1>6, <2>2, <3>1
  <2> QED BY <2>1, <2>2
<1>8. Types'
  <2>1. entry' \in [Entries -> [st : {"free", "linked", "orphan"}, chan : Chans \cup {NULL},
                                key : Keys \cup {NULL}, pending : BOOLEAN]]
    BY <1>0, <1>1, <1>7 DEF Types
  <2>2. cache_list' \subseteq Caches
    BY <1>5
  <2> QED BY <1>0, <1>1, <1>5, <2>1, <2>2 DEF Types, client_vars
<1>9. LocksExact'
  BY <1>0, <1>1, <1>5, <1>8, SameLocks
<1>10. Replies'
  <2>1. LinkedOnce'
    <3>1. \A f \in Entries : entry'[f].st = "linked" =>
             /\ entry[f].st = "linked" /\ entry'[f].chan = entry[f].chan
             /\ entry'[f].key = entry[f].key
      BY <1>6, <1>7
    <3> QED BY <1>0, <3>1 DEF Replies, LinkedOnce
  <2>2. ASSUME NEW f \in Entries PROVE EntryOK(f)'
    <3>0. f \in Caches /\ EntryOK(f)
      BY <1>0 DEF Caches, Replies
    <3>1. CASE f = e
      <4>1. wait_list'[f] = << >>
        BY <1>3, <1>5, <3>0, <3>1
      <4>2. entry'[f].st = "linked" => entry'[f].chan \in root'
        BY <1>1, <1>6, <1>7, <3>1 DEF EntryOK
      <4> QED BY <1>7, <3>1, <4>1, <4>2 DEF EntryOK
    <3>2. CASE f # e
      BY <1>1, <1>5, <1>6, <3>0, <3>2 DEF EntryOK
    <3> QED BY <3>1, <3>2
  <2>3. wait_list'[Gate] # << >> => safe_cnt' > 0
    BY <1>0, <1>1, <1>2, <1>5 DEF Replies
  <2> QED BY <1>5, <2>1, <2>2, <2>3 DEF Replies
<1> QED BY <1>5, <1>8, <1>9, <1>10 DEF IInv

\* A channel closes: its entries are freed and their waiters posted.
LEMMA ClosedKeeps ==
    ASSUME IInv, NEW c \in Chans, ChannelClosed(c)
    PROVE  IInv'
<1>0. /\ Types /\ Apart /\ Phases /\ RunState /\ LocksExact /\ Replies /\ ~Running
      /\ chan[c] = "open"
  BY DEF IInv, ChannelClosed, Idle
<1> DEFINE mine    == {e \in Entries : entry[e].chan = c}
           waiting == {e \in mine : entry[e].pending /\ wait_list[e] # << >>}
<1>1. /\ batch' = batch /\ id_cnt' = id_cnt /\ flush_cnt' = flush_cnt
      /\ safe_cnt' = safe_cnt /\ safe_posted' = safe_posted /\ client_vars' = client_vars
      /\ entry' = [e \in Entries |-> IF e \in mine THEN NoEntry ELSE entry[e]]
      /\ posted' = posted \cup {wait_list[e] : e \in waiting}
      /\ wait_list' = [a \in Caches |-> IF a \in waiting THEN << >> ELSE wait_list[a]]
      /\ cache_list' = cache_list \ waiting
      /\ root' = root \ {c}
      /\ lock_cnt' = [lock_cnt EXCEPT ![c] = IF c \in root THEN @ - 1 ELSE @]
      /\ chan' = [chan EXCEPT ![c] = "closing"]
  BY DEF ChannelClosed, safe_vars
<1>2. /\ Gate \in Caches /\ Gate \notin Entries /\ Entries \subseteq Caches
      /\ waiting \in SUBSET Caches /\ \A a \in waiting : wait_list[a] # << >>
      /\ mine \subseteq Entries
  BY ConstantAssumption DEF Caches
<1>3. \A e \in Entries : entry[e].chan = c => e \in mine
  OBVIOUS
<1>4. \A e \in mine : wait_list[e] # << >> => e \in waiting
  BY <1>0 DEF Replies, EntryOK
<1> HIDE DEF mine, waiting
<1>5. /\ wait_list' \in [Caches -> Seq(Waiter)] /\ posted' \subseteq Seq(Waiter)
      /\ cache_list' = {a \in Caches : wait_list'[a] # << >>}
      /\ \A a \in Caches : wait_list'[a] # << >> => wait_list[a] # << >> /\ a \notin waiting
      /\ Apart'
      /\ Types' => Phases' /\ RunState' /\ \A ch \in Chans : Held(ch)' = Held(ch)
  BY <1>0, <1>1, <1>2, PostKeeps
<1>6. /\ \A e \in mine : entry'[e] = NoEntry
      /\ \A e \in Entries : e \notin mine => entry'[e] = entry[e]
  BY <1>1, <1>2
<1>7. Types'
  <2>1. NoEntry \in [st : {"free", "linked", "orphan"}, chan : Chans \cup {NULL},
                     key : Keys \cup {NULL}, pending : BOOLEAN]
    BY DEF NoEntry
  <2>2. entry' \in [Entries -> [st : {"free", "linked", "orphan"}, chan : Chans \cup {NULL},
                                key : Keys \cup {NULL}, pending : BOOLEAN]]
    BY <1>0, <1>1, <2>1 DEF Types
  <2>3. cache_list' \subseteq Caches
    BY <1>5
  <2>4. chan' \in [Chans -> {"open", "closing", "closed", "deleted"}] /\ root' \subseteq Chans
    BY <1>0, <1>1 DEF Types
  <2>5. /\ wait_list' \in [Caches -> Seq(Waiter)] /\ posted' \subseteq Seq(Waiter)
    BY <1>5
  <2>6. /\ batch' = batch /\ id_cnt' = id_cnt /\ flush_cnt' = flush_cnt
        /\ safe_cnt' = safe_cnt /\ safe_posted' = safe_posted /\ client_vars' = client_vars
    BY <1>1
  <2> QED BY <1>0, <2>2, <2>3, <2>4, <2>5, <2>6 DEF Types, client_vars
<1>8. ASSUME NEW ch \in Chans
      PROVE  /\ lock_cnt'[ch] \in Nat
             /\ lock_cnt'[ch] = Held(ch)' + Base(ch)'
             /\ chan'[ch] = "deleted" <=> lock_cnt'[ch] = 0
             /\ ch \in root' => chan'[ch] = "open"
  <2>1. /\ lock_cnt[ch] = Held(ch) + Base(ch) /\ lock_cnt[ch] \in Nat
        /\ (chan[ch] = "deleted" <=> lock_cnt[ch] = 0)
        /\ (ch \in root => chan[ch] = "open")
    BY <1>0 DEF LocksExact
  <2>2. Held(ch)' = Held(ch) /\ Held(ch) \in Nat
    BY <1>0, <1>5, <1>7, HeldNat
  <2>3. CASE ch = c
    <3>1. chan'[ch] = "closing" /\ ch \notin root'
          /\ lock_cnt'[ch] = IF c \in root THEN lock_cnt[ch] - 1 ELSE lock_cnt[ch]
      BY <1>0, <1>1, <2>3 DEF LocksExact, Types
    <3>2. Base(ch)' = 1 /\ Base(ch) = IF c \in root THEN 2 ELSE 1
      BY <1>0, <2>3, <3>1 DEF Base
    <3> QED BY <2>1, <2>2, <3>1, <3>2
  <2>4. CASE ch # c
    <3>1. lock_cnt'[ch] = lock_cnt[ch] /\ chan'[ch] = chan[ch] /\ (ch \in root' <=> ch \in root)
      BY <1>0, <1>1, <2>4 DEF LocksExact, Types
    <3>2. Base(ch)' = Base(ch)
      BY <3>1 DEF Base
    <3> QED BY <2>1, <2>2, <3>1, <3>2
  <2> QED BY <2>3, <2>4
<1>9. LocksExact'
  <2>1. lock_cnt' \in [Chans -> Nat]
    BY <1>0, <1>1, <1>8 DEF LocksExact
  <2> QED BY <1>8, <2>1 DEF LocksExact
<1>10. Replies'
  <2>0. NoEntry.st = "free" /\ ~NoEntry.pending
    BY DEF NoEntry
  <2>1. LinkedOnce'
    <3>1. \A f \in Entries : entry'[f].st = "linked" => entry'[f] = entry[f]
      BY <1>2, <1>6, <2>0
    <3> QED BY <1>0, <3>1 DEF Replies, LinkedOnce
  <2>2. ASSUME NEW f \in Entries PROVE EntryOK(f)'
    <3>0. f \in Caches /\ EntryOK(f)
      BY <1>0 DEF Caches, Replies
    <3>1. CASE f \in mine
      <4>1. wait_list'[f] = << >>
        BY <1>4, <1>5, <3>0, <3>1
      <4> QED BY <1>6, <2>0, <3>1, <4>1 DEF EntryOK
    <3>2. CASE f \notin mine
      <4>1. entry'[f] = entry[f] /\ entry[f].chan # c
        BY <1>3, <1>6, <3>2
      <4>2. entry'[f].chan \in root => entry'[f].chan \in root'
        BY <1>1, <4>1
      <4>3. wait_list'[f] # << >> => wait_list[f] # << >>
        BY <1>5, <3>0
      <4> QED BY <3>0, <4>1, <4>2, <4>3 DEF EntryOK
    <3> QED BY <3>1, <3>2
  <2>3. wait_list'[Gate] # << >> => safe_cnt' > 0
    BY <1>0, <1>1, <1>2, <1>5 DEF Replies
  <2> QED BY <1>5, <2>1, <2>2, <2>3 DEF Replies
<1> QED BY <1>5, <1>7, <1>9, <1>10 DEF IInv

\* run_safe_events(); after the last event those who wait for it are retried.
LEMMA SafeEventsKeeps ==
    ASSUME IInv, RunSafeEvents
    PROVE  IInv'
<1>0. /\ Types /\ Apart /\ Phases /\ RunState /\ LocksExact /\ Replies /\ ~Running
      /\ batch = << >> /\ safe_cnt > 0
  BY DEF IInv, RunSafeEvents, Idle
<1>1. /\ chan' = chan /\ lock_cnt' = lock_cnt /\ posted' = posted /\ entry' = entry
      /\ root' = root /\ id_cnt' = id_cnt /\ flush_cnt' = flush_cnt
      /\ safe_posted' = safe_posted /\ client_vars' = client_vars
      /\ safe_cnt' \in 0..safe_cnt - 1
  BY DEF RunSafeEvents, entry_vars
<1>2. Gate \in Caches /\ Gate \notin Entries /\ Entries \subseteq Caches
  BY ConstantAssumption DEF Caches
<1>3. safe_cnt' \in 0..safe_posted'
  BY <1>0, <1>1 DEF Types
<1>4. CASE safe_cnt' # 0
  <2>1. batch' = batch /\ wait_list' = wait_list /\ cache_list' = cache_list
    BY <1>4 DEF RunSafeEvents
  <2>2. Types'
    BY <1>0, <1>1, <1>3, <2>1 DEF Types, client_vars
  <2>3. Apart' /\ Phases' /\ RunState' /\ \A ch \in Chans : Held(ch)' = Held(ch)
    BY <1>0, <1>1, <2>1, <2>2, Resting
  <2>4. LocksExact'
    BY <1>0, <1>1, <2>3, SameLocks
  <2>5. LinkedOnce' /\ \A e \in Entries : EntryOK(e)'
    BY <1>0, <1>1, <2>1 DEF Replies, LinkedOnce, EntryOK
  <2>6. safe_cnt' > 0
    BY <1>1, <1>4
  <2>7. Replies'
    BY <1>0, <2>1, <2>5, <2>6 DEF Replies
  <2> QED BY <2>2, <2>3, <2>4, <2>7 DEF IInv
<1>5. CASE safe_cnt' = 0
  <2>0. CacheNotify(Gate)
    BY <1>5 DEF RunSafeEvents
  <2>1. /\ batch' = wait_list[Gate]
        /\ wait_list' = [wait_list EXCEPT ![Gate] = << >>]
        /\ cache_list' = IF wait_list[Gate] = << >> THEN cache_list ELSE cache_list \ {Gate}
    BY <2>0 DEF CacheNotify, Delisted
  <2>2. /\ wait_list' = [a \in Caches |-> IF a \in {Gate} THEN << >> ELSE wait_list[a]]
        /\ wait_list[Gate] \in Seq(Waiter) /\ OnceEach(wait_list[Gate])
    BY <1>0, <1>2, <2>1 DEF Types, Apart
  <2>3. {Gate} \in SUBSET Caches
    BY <1>2
  <2>4. /\ wait_list' \in [Caches -> Seq(Waiter)]
        /\ Listed' = Listed \ Taken({Gate}) /\ Taken({Gate}) \subseteq Listed
        /\ \A a \in Caches : OnceEach(wait_list'[a])
        /\ \A a, b \in Caches : a # b => ClientsOf(wait_list'[a]) \cap ClientsOf(wait_list'[b]) = {}
    BY <1>0, <2>2, <2>3, TakeLists
  <2>5. Batched' = Taken({Gate})
    <3>1. Batched' = ClientsOf(wait_list[Gate])
      BY <2>1 DEF Batched
    <3> QED BY <3>1 DEF Taken
  <2>6. Queued' = Queued
    BY <1>1 DEF Queued
  <2>7. Batched = {}
    BY <1>0, ClientsEmpty DEF Batched
  <2>8. Apart'
    BY <1>0, <1>1, <2>1, <2>2, <2>4 DEF Apart
  <2>9. cache_list' = {a \in Caches : wait_list'[a] # << >>}
    <3>1. \A a \in Caches : wait_list'[a] = IF a = Gate THEN << >> ELSE wait_list[a]
      BY <2>2
    <3>2. cache_list = {a \in Caches : wait_list[a] # << >>}
      BY <1>0 DEF Replies
    <3> QED BY <1>2, <2>1, <3>1, <3>2
  <2>10. Types'
    <3>1. cache_list' \subseteq Caches
      BY <2>9
    <3>2. batch' \in Seq(Waiter)
      BY <2>1, <2>2
    <3>3. wait_list' \in [Caches -> Seq(Waiter)]
      BY <2>4
    <3> QED BY <1>0, <1>1, <1>3, <3>1, <3>2, <3>3 DEF Types, client_vars
  <2>11. Listed \cap Queued = {}
    BY <1>0, IdleApart
  <2>12. /\ Listed' \cup Queued' \cup Batched' = Listed \cup Queued \cup Batched
         /\ Listed' \cap Queued' = {} /\ Listed' \cap Batched' = {} /\ Queued' \cap Batched' = {}
    BY <2>4, <2>5, <2>6, <2>7, <2>11
  <2>13. Phases' /\ RunState' /\ \A ch \in Chans : Held(ch)' = Held(ch)
    BY <1>0, <1>1, <2>10, <2>12, Moved
  <2>14. LocksExact'
    BY <1>0, <1>1, <2>13, SameLocks
  <2>15. wait_list'[Gate] = << >> /\ \A e \in Entries : wait_list'[e] = wait_list[e]
    BY <1>2, <2>2
  <2>16. LinkedOnce' /\ \A e \in Entries : EntryOK(e)'
    BY <1>0, <1>1, <2>15 DEF Replies, LinkedOnce, EntryOK
  <2>17. Replies'
    BY <2>9, <2>15, <2>16 DEF Replies
  <2> QED BY <2>8, <2>10, <2>13, <2>14, <2>17 DEF IInv
<1> QED BY <1>4, <1>5

\* A run ends: the client leaves the batch and gives back its lock.
LEMMA EndKeeps ==
    ASSUME IInv, Running, RunEnd
    PROVE  IInv'
<1>0. Types /\ Apart /\ Phases /\ RunState /\ LocksExact /\ Replies
  BY DEF IInv
<1>1. PICK c \in Clients : c = current_client.client
  BY <1>0, RunFacts, WaiterFields
<1>2. /\ last_event' = [last_event EXCEPT ![c] = IF client_exited THEN "COMMIT" ELSE "ABORT"]
      /\ args' = [args EXCEPT ![c] = ArgsAfterRun(@, cache_miss_cnt)]
      /\ current_client' = NoClient /\ cache_miss_cnt' = 0 /\ client_exited' = FALSE
      /\ access_cnt' = 0
      /\ id_cnt' = id_cnt /\ wait_list' = wait_list /\ cache_list' = cache_list
      /\ posted' = posted /\ entry' = entry /\ root' = root /\ flush_cnt' = flush_cnt
      /\ safe_cnt' = safe_cnt /\ safe_posted' = safe_posted
      /\ IF batch = << >>
         THEN batch' = batch /\ lock_cnt' = lock_cnt /\ chan' = chan
         ELSE batch' = Tail(batch) /\ Unlock(ChanOf[c])
  BY <1>1 DEF RunEnd, entry_vars, safe_vars
<1>3. /\ RunningNow(c) /\ \A d \in Clients : d # c => ~RunningNow(d)
      /\ \A d \in Clients : ~RunningNow(d)'
      /\ ~Running'
  BY <1>1, <1>2, ConstantAssumption DEF RunningNow, Running, NoClient
<1>4. Phase(c) /\ RunPhase(c) /\ c \notin Queued
  BY <1>0, <1>3 DEF Phases, Phase
<1>5. /\ batch' \in Seq(Waiter) /\ OnceEach(batch')
      /\ Batched' = Batched \ {c}
      /\ batch # << >> => c \in Batched
      /\ batch = << >> => c \notin Batched
  <2>1. CASE batch = << >>
    <3>1. batch' = << >> /\ Batched = {} /\ Batched' = {}
      BY <1>2, <2>1, ClientsEmpty DEF Batched
    <3> QED BY <2>1, <3>1, ClientsEmpty
  <2>2. CASE batch # << >>
    <3>1. batch' = Tail(batch)
      BY <1>2, <2>2
    <3>2. Head(batch).client = c
      BY <1>0, <1>1, <2>2 DEF RunState
    <3> QED BY <1>0, <2>2, <3>1, <3>2, ClientsTail DEF Types, Apart, Batched
  <2> QED BY <2>1, <2>2
<1>6. Listed' = Listed /\ Queued' = Queued
  BY <1>2 DEF Listed, Queued
<1>7. Apart'
  BY <1>0, <1>2, <1>5 DEF Apart
<1>8. chan' \in [Chans -> {"open", "closing", "closed", "deleted"}]
  BY <1>0, <1>2 DEF Unlock, Types
<1>9. Types'
  <2>1. args' \in [Clients -> {"none", "stack", "heap", "freed", "gone"}]
    BY <1>0, <1>2 DEF Types, ArgsAfterRun
  <2>2. last_event' \in [Clients -> {"none", "START", "RETRY", "COMMIT", "ABORT"}]
    BY <1>0, <1>2 DEF Types
  <2>3. cache_miss_cnt' \in 0..access_cnt' /\ access_cnt' \in 0..MaxAccess
    BY <1>0, <1>2, ConstantAssumption DEF Types
  <2>4. current_client' \in Waiter \cup {NoClient} /\ client_exited' \in BOOLEAN
    BY <1>2
  <2> QED BY <1>0, <1>2, <1>5, <1>8, <2>1, <2>2, <2>3, <2>4 DEF Types
<1>10. ASSUME NEW d \in Clients PROVE Phase(d)'
  <2>1. Phase(d)
    BY <1>0 DEF Phases
  <2>2. CASE d = c
    <3>1. /\ args'[d] = IF cache_miss_cnt > 0 THEN args[d]
                        ELSE IF args[d] = "heap" THEN "freed" ELSE "gone"
          /\ last_event'[d] # "none"
      BY <1>0, <1>2, <2>2 DEF Types, ArgsAfterRun
    <3>2. RestPhase(d)'
      <4>1. CASE cache_miss_cnt > 0
        BY <1>4, <1>5, <1>6, <2>2, <3>1, <4>1 DEF RestPhase, RunPhase
      <4>2. CASE ~(cache_miss_cnt > 0)
        BY <1>4, <1>5, <1>6, <2>2, <3>1, <4>2 DEF RestPhase, RunPhase
      <4> QED BY <4>1, <4>2
    <3> QED BY <1>3, <1>4, <1>5, <1>6, <2>2, <3>1, <3>2 DEF Phase
  <2>3. CASE d # c
    <3>1. args'[d] = args[d] /\ last_event'[d] = last_event[d]
      BY <1>0, <1>2, <2>3 DEF Types
    <3>2. ~RunningNow(d) /\ ~RunningNow(d)' /\ (d \in Batched' <=> d \in Batched)
      BY <1>3, <1>5, <2>3
    <3>3. RestPhase(d)'
      BY <1>6, <2>1, <3>1, <3>2 DEF Phase, RestPhase
    <3> QED BY <1>6, <2>1, <3>1, <3>2, <3>3 DEF Phase
  <2> QED BY <2>2, <2>3
<1>11. Phases'
  BY <1>10 DEF Phases
<1>12. RunState'
  BY <1>2, <1>3 DEF RunState
<1>13. LocksExact'
  <2>1. CASE batch = << >>
    <3>1. /\ wait_list' = wait_list /\ posted' = posted /\ batch' = batch
          /\ lock_cnt' = lock_cnt /\ chan' = chan /\ root' = root
      BY <1>2, <2>1
    <3>2. \A ch \in Chans : Held(ch)' = Held(ch)
      BY <3>1, SameLists
    <3> QED BY <1>0, <3>1, <3>2, SameLocks
  <2>2. CASE batch # << >>
    <3>0. c \in Batched /\ c \notin Queued
      BY <1>4, <1>5, <2>2
    <3>1. ASSUME NEW ch \in Chans
          PROVE  Held(ch) = Held(ch)' + (IF ChanOf[c] = ch THEN 1 ELSE 0) /\ Held(ch)' \in Nat
      <4> DEFINE B == Queued \cup (Batched \ {c})
      <4>1. /\ Listed \subseteq Clients /\ Queued \subseteq Clients /\ Batched \subseteq Clients
        BY <1>0, Places3
      <4>2. Queued \cup Batched = B \cup {c} /\ c \notin B /\ B \in SUBSET Clients
        BY <3>0, <4>1
      <4>3. Cardinality(On(Listed, ch)) \in Nat /\ Cardinality(On(B, ch)) \in Nat
        BY <4>1, <4>2, OnFinite
      <4>4. Held(ch)' = Cardinality(On(Listed', ch)) + Cardinality(On(Queued' \cup Batched', ch))
        BY DEF Held, On
      <4>5. Queued' \cup Batched' = B
        BY <1>5, <1>6
      <4> HIDE DEF B
      <4>6. Held(ch)' = Cardinality(On(Listed, ch)) + Cardinality(On(B, ch))
        BY <1>6, <4>4, <4>5
      <4>7. Cardinality(On(B \cup {c}, ch)) = Cardinality(On(B, ch)) + (IF ChanOf[c] = ch THEN 1 ELSE 0)
        BY <4>2, CountAdd
      <4>8. Held(ch) = Cardinality(On(Listed, ch)) + Cardinality(On(B \cup {c}, ch))
        BY <4>2 DEF Held
      <4> DEFINE x == Cardinality(On(Listed, ch))
                 y == Cardinality(On(B, ch))
                 z == Cardinality(On(B \cup {c}, ch))
                 i == IF ChanOf[c] = ch THEN 1 ELSE 0
      <4>9. x \in Nat /\ y \in Nat /\ z = y + i /\ Held(ch) = x + z /\ Held(ch)' = x + y /\ i \in Nat
        BY <4>3, <4>6, <4>7, <4>8
      <4> HIDE DEF x, y, z, i
      <4>10. Held(ch) = Held(ch)' + i /\ Held(ch)' \in Nat
        BY <4>9
      <4> QED BY <4>10 DEF i
    <3>2. Unlock(ChanOf[c]) /\ root' = root
      BY <1>2, <2>2
    <3>3. ASSUME NEW ch \in Chans
          PROVE  /\ lock_cnt'[ch] \in Nat
                 /\ lock_cnt'[ch] = Held(ch)' + Base(ch)'
                 /\ chan'[ch] = "deleted" <=> lock_cnt'[ch] = 0
                 /\ ch \in root' => chan'[ch] = "open"
      <4>1. /\ lock_cnt[ch] = Held(ch) + Base(ch) /\ lock_cnt[ch] \in Nat
            /\ (chan[ch] = "deleted" <=> lock_cnt[ch] = 0)
            /\ (ch \in root => chan[ch] = "open")
        BY <1>0 DEF LocksExact
      <4>2. CASE ChanOf[c] = ch
        <5>0. ChanOf[c] # NULL
          BY <4>2, ConstantAssumption
        <5>1. /\ lock_cnt'[ch] = lock_cnt[ch] - 1
              /\ chan'[ch] = IF lock_cnt[ch] = 1 THEN "deleted" ELSE chan[ch]
          BY <1>0, <3>2, <4>2, <5>0 DEF Unlock, LocksExact, Types
        <5>2. Held(ch) = Held(ch)' + 1 /\ Held(ch)' \in Nat
          BY <3>1, <4>2
        <5>3. Base(ch) \in Nat /\ (chan[ch] \in {"open", "closing"} => Base(ch) > 0)
              /\ (ch \in root => Base(ch) > 0)
          BY DEF Base
        <5>4. lock_cnt[ch] = 1 => chan[ch] \notin {"open", "closing"} /\ ch \notin root
          BY <4>1, <5>2, <5>3
        <5>5. Base(ch)' = Base(ch)
          BY <3>2, <5>1, <5>4 DEF Base
        <5>6. lock_cnt'[ch] = Held(ch)' + Base(ch)' /\ lock_cnt'[ch] \in Nat
          BY <4>1, <5>1, <5>2, <5>3, <5>5
        <5>7. chan[ch] # "deleted"
          BY <4>1, <5>2, <5>3
        <5>8. chan'[ch] = "deleted" <=> lock_cnt'[ch] = 0
          BY <4>1, <5>1, <5>7
        <5> QED BY <3>2, <4>1, <5>1, <5>4, <5>6, <5>8
      <4>3. CASE ChanOf[c] # ch
        <5>1. lock_cnt'[ch] = lock_cnt[ch] /\ chan'[ch] = chan[ch]
          BY <1>0, <3>2, <4>3 DEF Unlock, LocksExact, Types
        <5>2. Base(ch)' = Base(ch)
          BY <3>2, <5>1 DEF Base
        <5>3. Held(ch)' = Held(ch)
          BY <3>1, <4>3
        <5> QED BY <3>2, <4>1, <5>1, <5>2, <5>3
      <4> QED BY <4>2, <4>3
    <3>4. lock_cnt' \in [Chans -> Nat]
      <4>1. DOMAIN lock_cnt' = Chans /\ lock_cnt' = [ch \in Chans |-> lock_cnt'[ch]]
        BY <1>0, <3>2 DEF Unlock, LocksExact
      <4> QED BY <3>3, <4>1
    <3> QED BY <3>3, <3>4 DEF LocksExact
  <2> QED BY <2>1, <2>2
<1>14. Replies'
  BY <1>0, <1>2, SameReplies
<1> QED BY <1>7, <1>9, <1>11, <1>12, <1>13, <1>14 DEF IInv

\* cache_exit() without a miss only marks the run.
LEMMA ExitKeeps ==
    ASSUME IInv, CacheExit, ~ExitThrows(cache_miss_cnt)
    PROVE  IInv'
<1>0. Types /\ Apart /\ Phases /\ RunState /\ LocksExact /\ Replies /\ Running
  BY DEF IInv, CacheExit
<1>1. /\ client_exited' = TRUE /\ current_client' = current_client
      /\ cache_miss_cnt' = cache_miss_cnt /\ access_cnt' = access_cnt
      /\ args' = args /\ last_event' = last_event /\ id_cnt' = id_cnt
      /\ wait_list' = wait_list /\ cache_list' = cache_list /\ batch' = batch /\ posted' = posted
      /\ entry' = entry /\ root' = root /\ chan' = chan /\ lock_cnt' = lock_cnt
      /\ safe_cnt' = safe_cnt /\ safe_posted' = safe_posted /\ flush_cnt' = flush_cnt
  BY DEF CacheExit, entry_vars, safe_vars
<1>2. Types'
  BY <1>0, <1>1 DEF Types
<1>3. /\ Listed' = Listed /\ Queued' = Queued /\ Batched' = Batched
      /\ Apart'
      /\ \A ch \in Chans : Held(ch)' = Held(ch)
  BY <1>0, <1>1, SameLists
<1>4. Phases'
  BY <1>0, <1>1, <1>3 DEF Phases, Phase, RunPhase, RestPhase, RunningNow
<1>5. RunState'
  BY <1>0, <1>1 DEF RunState, Running
<1>6. LocksExact'
  BY <1>0, <1>1, <1>3, SameLocks
<1>7. Replies'
  BY <1>0, <1>1, SameReplies
<1> QED BY <1>2, <1>3, <1>4, <1>5, <1>6, <1>7 DEF IInv

\* cache_wait() in a run: what it does to the clients and their lists.  Only
\* the first miss registers the client and takes a lock.
First == Registers(cache_miss_cnt)

\* A client that waits enters the list of its object once per run.
LEMMA WaitPlaces ==
    ASSUME IInv, Running, NEW a \in Caches, NEW L, CacheWait(a, L),
           current_client' = current_client, last_event' = last_event,
           batch' = batch, posted' = posted, chan' = chan
    PROVE  /\ wait_list' \in [Caches -> Seq(Waiter)]
           /\ args' \in [Clients -> {"none", "stack", "heap", "freed", "gone"}]
           /\ cache_miss_cnt' = cache_miss_cnt + 1
           /\ cache_list' = {b \in Caches : wait_list'[b] # << >>}
           /\ \A b \in Caches : wait_list'[b] # << >> => wait_list[b] # << >> \/ b = a
           /\ Apart' /\ Phases' /\ RunState'
           /\ \A ch \in Chans :
                 Held(ch)' = Held(ch) + (IF First /\ ChanOf[current_client.client] = ch THEN 1 ELSE 0)
           /\ lock_cnt' = IF First THEN Lock(L, ChanOf[current_client.client]) ELSE L
<1>0. Types /\ Apart /\ Phases /\ RunState /\ Replies
  BY DEF IInv
<1>1. PICK c \in Clients : c = current_client.client
  BY <1>0, RunFacts, WaiterFields
<1>2. current_client \in Waiter /\ cache_miss_cnt \in Nat
  BY <1>0, RunFacts DEF Types
<1>3. cache_miss_cnt' = cache_miss_cnt + 1
  BY DEF CacheWait
<1>4. cache_miss_cnt' > 0
  BY <1>2, <1>3
<1>5. RunningNow(c) /\ RunningNow(c)' /\ Running'
      /\ \A d \in Clients : d # c => ~RunningNow(d) /\ ~RunningNow(d)'
  BY <1>1 DEF RunningNow, Running
<1>6. Phase(c) /\ RunPhase(c) /\ c \notin Queued
  BY <1>0, <1>5 DEF Phases, Phase
<1>7. RunState'
  BY <1>0, <1>5 DEF RunState
<1>8. Queued' = Queued /\ Batched' = Batched
  BY DEF Queued, Batched
<1>9. cache_list = {b \in Caches : wait_list[b] # << >>}
  BY <1>0 DEF Replies
<1>10. CASE ~First
  <2>1. /\ wait_list' = wait_list /\ cache_list' = cache_list /\ args' = args /\ lock_cnt' = L
        /\ cache_miss_cnt > 0
    BY <1>2, <1>10 DEF CacheWait, First, Registers
  <2>2. /\ Listed' = Listed /\ Apart' /\ \A ch \in Chans : Held(ch)' = Held(ch)
    BY <1>0, <2>1, SameLists
  <2>3. ASSUME NEW d \in Clients PROVE Phase(d)'
    <3>1. Phase(d)
      BY <1>0 DEF Phases
    <3>2. CASE d = c
      <4>1. RunPhase(d)'
        BY <1>4, <1>6, <1>8, <2>1, <2>2, <3>2 DEF RunPhase
      <4> QED BY <1>5, <1>6, <1>8, <2>1, <2>2, <3>1, <3>2, <4>1 DEF Phase
    <3>3. CASE d # c
      <4>1. RestPhase(d)'
        BY <1>5, <1>8, <2>1, <2>2, <3>1, <3>3 DEF Phase, RestPhase
      <4> QED BY <1>5, <1>8, <2>1, <2>2, <3>1, <3>3, <4>1 DEF Phase
    <3> QED BY <3>2, <3>3
  <2>4. Phases'
    BY <2>3 DEF Phases
  <2>5. \A ch \in Chans : Held(ch) \in Nat
    BY <1>0, HeldNat
  <2>6. \A ch \in Chans :
           Held(ch)' = Held(ch) + (IF First /\ ChanOf[current_client.client] = ch THEN 1 ELSE 0)
    BY <1>10, <2>2, <2>5
  <2>7. wait_list' \in [Caches -> Seq(Waiter)]
        /\ args' \in [Clients -> {"none", "stack", "heap", "freed", "gone"}]
    BY <1>0, <2>1 DEF Types
  <2> QED BY <1>3, <1>7, <1>9, <1>10, <2>1, <2>2, <2>4, <2>6, <2>7
<1>11. CASE First
  <2>1. /\ wait_list' = [wait_list EXCEPT ![a] = Append(@, current_client)]
        /\ cache_list' = IF wait_list[a] = << >> THEN cache_list \cup {a} ELSE cache_list
        /\ args' = [args EXCEPT ![c] = "heap"]
        /\ lock_cnt' = Lock(L, ChanOf[c])
        /\ cache_miss_cnt = 0
    BY <1>1, <1>11 DEF CacheWait, First, Registers
  <2>2. c \notin Listed
    BY <1>2, <1>6, <2>1 DEF RunPhase
  <2>3. /\ wait_list \in [Caches -> Seq(Waiter)]
        /\ \A b \in Caches : wait_list[b] \in Seq(Waiter) /\ OnceEach(wait_list[b])
        /\ \A b \in Caches : c \notin ClientsOf(wait_list[b])
    BY <1>0, <2>2 DEF Types, Apart, Listed
  <2>4. /\ wait_list'[a] = Append(wait_list[a], current_client)
        /\ \A b \in Caches : b # a => wait_list'[b] = wait_list[b]
    BY <2>1, <2>3
  <2>5. /\ Append(wait_list[a], current_client) \in Seq(Waiter)
        /\ Append(wait_list[a], current_client) # << >>
        /\ ClientsOf(Append(wait_list[a], current_client)) = ClientsOf(wait_list[a]) \cup {c}
        /\ OnceEach(Append(wait_list[a], current_client))
    BY <1>1, <1>2, <2>3, ClientsAppend
  <2>6. /\ wait_list'[a] \in Seq(Waiter) /\ wait_list'[a] # << >> /\ OnceEach(wait_list'[a])
        /\ ClientsOf(wait_list'[a]) = ClientsOf(wait_list[a]) \cup {c}
    BY <2>4, <2>5
  <2>7. wait_list' \in [Caches -> Seq(Waiter)]
    BY <2>1, <2>3, <2>5
  <2>8. Listed' = Listed \cup {c}
    <3>1. Listed' = UNION {ClientsOf(wait_list'[b]) : b \in Caches}
      BY DEF Listed
    <3>2. \A b \in Caches : b # a => ClientsOf(wait_list'[b]) = ClientsOf(wait_list[b])
      BY <2>4
    <3>3. Listed = UNION {ClientsOf(wait_list[b]) : b \in Caches}
      BY DEF Listed
    <3>4. Listed' \subseteq Listed \cup {c}
      BY <2>6, <3>1, <3>2, <3>3
    <3>5. Listed \cup {c} \subseteq Listed'
      BY <2>6, <3>1, <3>2, <3>3
    <3> QED BY <3>4, <3>5
  <2>9. Apart'
    <3>1. \A b \in Caches : OnceEach(wait_list'[b])
      BY <2>3, <2>4, <2>6
    <3>2. \A b, d \in Caches : b # d => ClientsOf(wait_list'[b]) \cap ClientsOf(wait_list'[d]) = {}
      <4>1. SUFFICES ASSUME NEW b \in Caches, NEW d \in Caches, b # d
                     PROVE  ClientsOf(wait_list'[b]) \cap ClientsOf(wait_list'[d]) = {}
        OBVIOUS
      <4>2. ClientsOf(wait_list[b]) \cap ClientsOf(wait_list[d]) = {}
        BY <1>0, <4>1 DEF Apart
      <4>3. CASE b = a
        BY <2>3, <2>4, <2>6, <4>1, <4>2, <4>3
      <4>4. CASE d = a
        BY <2>3, <2>4, <2>6, <4>1, <4>2, <4>4
      <4>5. CASE b # a /\ d # a
        BY <2>4, <4>2, <4>5
      <4> QED BY <4>3, <4>4, <4>5
    <3> QED BY <1>0, <3>1, <3>2 DEF Apart
  <2>10. args' \in [Clients -> {"none", "stack", "heap", "freed", "gone"}]
         /\ args'[c] = "heap" /\ \A d \in Clients : d # c => args'[d] = args[d]
    BY <1>0, <2>1 DEF Types
  <2>11. ASSUME NEW d \in Clients PROVE Phase(d)'
    <3>1. Phase(d)
      BY <1>0 DEF Phases
    <3>2. CASE d = c
      <4>1. RunPhase(d)'
        BY <1>4, <1>6, <1>8, <2>8, <2>10, <3>2 DEF RunPhase
      <4>2. last_event[d] # "none"
        <5>1. args[d] # "none"
          BY <1>6, <3>2 DEF RunPhase
        <5> QED BY <3>1, <5>1 DEF Phase
      <4> QED BY <1>5, <1>6, <1>8, <2>8, <3>1, <3>2, <4>1, <4>2 DEF Phase
    <3>3. CASE d # c
      <4>0. args'[d] = args[d] /\ (d \in Listed' <=> d \in Listed)
        BY <2>8, <2>10, <3>3
      <4>1. RestPhase(d)'
        BY <1>5, <1>8, <3>1, <3>3, <4>0 DEF Phase, RestPhase
      <4> QED BY <1>5, <1>8, <3>1, <3>3, <4>0, <4>1 DEF Phase
    <3> QED BY <3>2, <3>3
  <2>12. Phases'
    BY <2>11 DEF Phases
  <2>13. ASSUME NEW ch \in Chans
         PROVE  Held(ch)' = Held(ch) + (IF ChanOf[c] = ch THEN 1 ELSE 0)
    <3>1. Listed \in SUBSET Clients /\ Queued \cup Batched \in SUBSET Clients
      BY <1>0, Places3
    <3>2. Cardinality(On(Listed, ch)) \in Nat /\ Cardinality(On(Queued \cup Batched, ch)) \in Nat
      BY <3>1, OnFinite
    <3>3. Cardinality(On(Listed \cup {c}, ch)) =
             Cardinality(On(Listed, ch)) + (IF ChanOf[c] = ch THEN 1 ELSE 0)
      BY <2>2, <3>1, CountAdd
    <3>4. Held(ch)' = Cardinality(On(Listed', ch)) + Cardinality(On(Queued' \cup Batched', ch))
      BY DEF Held, On
    <3>5. Held(ch)' = Cardinality(On(Listed \cup {c}, ch)) + Cardinality(On(Queued \cup Batched, ch))
      BY <1>8, <2>8, <3>4
    <3> DEFINE x == Cardinality(On(Listed, ch))
               y == Cardinality(On(Queued \cup Batched, ch))
               z == Cardinality(On(Listed \cup {c}, ch))
               i == IF ChanOf[c] = ch THEN 1 ELSE 0
    <3>6. x \in Nat /\ y \in Nat /\ z = x + i /\ Held(ch) = x + y /\ Held(ch)' = z + y /\ i \in Nat
      BY <3>2, <3>3, <3>5 DEF Held
    <3> HIDE DEF x, y, z, i
    <3>7. Held(ch)' = Held(ch) + i
      BY <3>6
    <3> QED BY <3>7 DEF i
  <2>14. cache_list' = {b \in Caches : wait_list'[b] # << >>}
    BY <1>9, <2>1, <2>4, <2>6
  <2>15. \A b \in Caches : wait_list'[b] # << >> => wait_list[b] # << >> \/ b = a
    BY <2>4
  <2> QED BY <1>1, <1>3, <1>7, <1>11, <2>1, <2>7, <2>9, <2>10, <2>12, <2>13, <2>14, <2>15
<1> QED BY <1>10, <1>11

\* The channel of the client that runs is not deleted.
LEMMA RunChannel ==
    ASSUME IInv, Running, NEW ch \in Chans, ChanOf[current_client.client] = ch
    PROVE  chan[ch] # "deleted"
<1>0. Types /\ Apart /\ Phases /\ RunState /\ LocksExact
  BY DEF IInv
<1>1. PICK c \in Clients : c = current_client.client
  BY <1>0, RunFacts, WaiterFields
<1>2. CASE batch = << >>
  <2>1. ch # NULL
    BY ConstantAssumption
  <2> QED BY <1>0, <1>2, <2>1 DEF RunState
<1>3. CASE batch # << >>
  <2>1. c \in Batched
    BY <1>0, <1>1, <1>3, ClientsTail DEF RunState, Types, Apart, Batched
  <2>2. c \in On(Queued \cup Batched, ch)
    BY <1>1, <2>1 DEF On
  <2>3. Listed \in SUBSET Clients /\ Queued \cup Batched \in SUBSET Clients
    BY <1>0, Places3
  <2>4. /\ Cardinality(On(Listed, ch)) \in Nat /\ Cardinality(On(Queued \cup Batched, ch)) \in Nat
        /\ IsFiniteSet(On(Queued \cup Batched, ch))
    BY <2>3, OnFinite
  <2>5. Cardinality(On(Queued \cup Batched, ch)) # 0
    BY <2>2, <2>4, FS_EmptySet
  <2>6. Held(ch) > 0 /\ Held(ch) \in Nat
    BY <2>4, <2>5 DEF Held
  <2>7. Base(ch) \in Nat
    BY DEF Base
  <2>8. lock_cnt[ch] = Held(ch) + Base(ch) /\ (chan[ch] = "deleted" <=> lock_cnt[ch] = 0)
    BY <1>0 DEF LocksExact
  <2>9. lock_cnt[ch] # 0
    BY <2>6, <2>7, <2>8
  <2> QED BY <2>8, <2>9
<1> QED BY <1>2, <1>3

\* Lock counts that were exact stay exact when a client of the channel waits.
LEMMA WaitLocks ==
    ASSUME IInv, Running, NEW L \in [Chans -> Nat], chan' = chan,
           \A ch \in Chans : /\ L[ch] = Held(ch) + Base(ch)'
                             /\ chan[ch] = "deleted" <=> L[ch] = 0
                             /\ ch \in root' => chan[ch] = "open",
           \A ch \in Chans :
               Held(ch)' = Held(ch) + (IF First /\ ChanOf[current_client.client] = ch THEN 1 ELSE 0),
           lock_cnt' = IF First THEN Lock(L, ChanOf[current_client.client]) ELSE L
    PROVE  LocksExact'
<1>1. PICK k \in Chans \cup {NULL} : k = ChanOf[current_client.client]
  <2>1. current_client.client \in Clients
    BY RunFacts, WaiterFields DEF IInv
  <2> QED BY <2>1, ConstantAssumption
<1>2. lock_cnt' = IF First THEN Lock(L, k) ELSE L
  BY <1>1
<1>3. NULL \notin Chans
  BY ConstantAssumption
<1>4. lock_cnt' \in [Chans -> Nat]
  <2>1. CASE k = NULL
    BY <1>2, <2>1 DEF Lock
  <2>2. CASE k \in Chans
    <3>1. [L EXCEPT ![k] = @ + 1] \in [Chans -> Nat]
      BY <2>2
    <3>2. Lock(L, k) = [L EXCEPT ![k] = @ + 1]
      BY <1>3, <2>2 DEF Lock
    <3> QED BY <1>2, <3>1, <3>2
  <2> QED BY <2>1, <2>2
<1>5. ASSUME NEW ch \in Chans
      PROVE  /\ lock_cnt'[ch] = Held(ch)' + Base(ch)'
             /\ chan'[ch] = "deleted" <=> lock_cnt'[ch] = 0
             /\ ch \in root' => chan'[ch] = "open"
  <2>1. /\ L[ch] = Held(ch) + Base(ch)' /\ L[ch] \in Nat
        /\ (chan[ch] = "deleted" <=> L[ch] = 0)
        /\ (ch \in root' => chan[ch] = "open")
    OBVIOUS
  <2>2. Held(ch) \in Nat
    BY HeldNat DEF IInv
  <2>3. Base(ch)' \in Nat
    BY DEF Base
  <2>4. CASE First /\ k = ch
    <3>1. lock_cnt'[ch] = L[ch] + 1
      BY <1>2, <1>3, <2>4 DEF Lock
    <3>2. Held(ch)' = Held(ch) + 1
      BY <1>1, <2>4
    <3>3. chan[ch] # "deleted"
      BY <1>1, <2>4, RunChannel
    <3>4. lock_cnt'[ch] = Held(ch)' + Base(ch)'
      BY <2>1, <2>2, <2>3, <3>1, <3>2
    <3>5. lock_cnt'[ch] # 0
      BY <2>1, <3>1
    <3> QED BY <2>1, <3>3, <3>4, <3>5
  <2>5. CASE ~(First /\ k = ch)
    <3>1. lock_cnt'[ch] = L[ch]
      BY <1>2, <1>3, <2>5 DEF Lock
    <3>2. Held(ch)' = Held(ch) + 0
      BY <1>1, <2>5
    <3> QED BY <2>1, <2>2, <3>1, <3>2
  <2> QED BY <2>4, <2>5
<1> QED BY <1>4, <1>5 DEF LocksExact

\* check_all_stopped() queues a safe event, and the client waits until it ran.
LEMMA CheckKeeps ==
    ASSUME IInv, CheckAllStopped
    PROVE  IInv'
<1>0. /\ Types /\ Apart /\ Phases /\ RunState /\ LocksExact /\ Replies
      /\ Running /\ access_cnt < MaxAccess /\ safe_posted < MaxSafe
  BY DEF IInv, CheckAllStopped, CanAccess
<1>1. /\ access_cnt' = access_cnt + 1 /\ safe_cnt' = safe_cnt + 1 /\ safe_posted' = safe_posted + 1
      /\ CacheWait(Gate, lock_cnt)
      /\ current_client' = current_client /\ client_exited' = client_exited
      /\ last_event' = last_event /\ id_cnt' = id_cnt /\ batch' = batch /\ posted' = posted
      /\ entry' = entry /\ root' = root /\ chan' = chan /\ flush_cnt' = flush_cnt
  BY DEF CheckAllStopped, entry_vars
<1>2. Gate \in Caches /\ Gate \notin Entries /\ Entries \subseteq Caches
  BY ConstantAssumption DEF Caches
<1>3. PICK L : L = lock_cnt
  OBVIOUS
<1>4. /\ wait_list' \in [Caches -> Seq(Waiter)]
      /\ args' \in [Clients -> {"none", "stack", "heap", "freed", "gone"}]
      /\ cache_miss_cnt' = cache_miss_cnt + 1
      /\ cache_list' = {b \in Caches : wait_list'[b] # << >>}
      /\ \A b \in Caches : wait_list'[b] # << >> => wait_list[b] # << >> \/ b = Gate
      /\ Apart' /\ Phases' /\ RunState'
      /\ \A ch \in Chans :
            Held(ch)' = Held(ch) + (IF First /\ ChanOf[current_client.client] = ch THEN 1 ELSE 0)
      /\ lock_cnt' = IF First THEN Lock(L, ChanOf[current_client.client]) ELSE L
  <2>1. CacheWait(Gate, L)
    BY <1>1, <1>3
  <2> QED BY <1>0, <1>1, <1>2, <2>1, WaitPlaces
<1>5. Types'
  <2>1. /\ cache_miss_cnt' \in 0..access_cnt' /\ access_cnt' \in 0..MaxAccess
        /\ safe_cnt' \in 0..safe_posted' /\ safe_posted' \in 0..MaxSafe
    BY <1>0, <1>1, <1>4, ConstantAssumption DEF Types
  <2>2. cache_list' \subseteq Caches
    BY <1>4
  <2> QED BY <1>0, <1>1, <1>4, <2>1, <2>2 DEF Types
<1>6. LocksExact'
  <2>1. L \in [Chans -> Nat]
    BY <1>0, <1>3 DEF LocksExact
  <2>2. \A ch \in Chans : Base(ch)' = Base(ch)
    BY <1>1 DEF Base
  <2>3. \A ch \in Chans : /\ L[ch] = Held(ch) + Base(ch)'
                          /\ chan[ch] = "deleted" <=> L[ch] = 0
                          /\ ch \in root' => chan[ch] = "open"
    BY <1>0, <1>1, <1>3, <2>2 DEF LocksExact
  <2> QED BY <1>0, <1>1, <1>4, <2>1, <2>3, WaitLocks
<1>7. Replies'
  <2>1. LinkedOnce'
    BY <1>0, <1>1 DEF Replies, LinkedOnce
  <2>2. \A e \in Entries : EntryOK(e)'
    BY <1>0, <1>1, <1>2, <1>4 DEF Replies, EntryOK
  <2>3. safe_cnt' > 0
    BY <1>0, <1>1 DEF Types
  <2> QED BY <1>4, <2>1, <2>2, <2>3 DEF Replies
<1> QED BY <1>4, <1>5, <1>6, <1>7 DEF IInv

\* A look-up: it fails, it finds the answer, or it waits for one.
LEMMA LookUpKeeps ==
    ASSUME IInv, NEW k \in Keys, LookUp(k)
    PROVE  IInv'
<1>0. /\ Types /\ Apart /\ Phases /\ RunState /\ LocksExact /\ Replies
      /\ Running /\ access_cnt < MaxAccess
  BY DEF IInv, LookUp, CanAccess
<1>1. /\ access_cnt' = access_cnt + 1
      /\ current_client' = current_client /\ client_exited' = client_exited
      /\ last_event' = last_event /\ id_cnt' = id_cnt /\ batch' = batch /\ posted' = posted
      /\ chan' = chan /\ safe_cnt' = safe_cnt /\ safe_posted' = safe_posted
      /\ flush_cnt' = flush_cnt
  BY DEF LookUp, safe_vars
<1>2. Gate \in Caches /\ Gate \notin Entries /\ Entries \subseteq Caches
  BY ConstantAssumption DEF Caches
<1>3. PICK c \in Chans \cup {NULL} : c = ChanOf[current_client.client]
  <2>1. current_client.client \in Clients
    BY <1>0, RunFacts, WaiterFields
  <2> QED BY <2>1, ConstantAssumption
<1>4. PICK L : L = IF c \in root THEN lock_cnt ELSE Lock(lock_cnt, c)
  OBVIOUS
<1>5. access_cnt' \in 0..MaxAccess /\ access_cnt' > access_cnt /\ cache_miss_cnt \in 0..access_cnt'
      /\ cache_miss_cnt + 1 \in 0..access_cnt'
  BY <1>0, <1>1, ConstantAssumption DEF Types
\* A run that reads a cache without a miss.
<1>6. ASSUME cache_miss_cnt' = cache_miss_cnt, wait_list' = wait_list, cache_list' = cache_list,
             args' = args
      PROVE  /\ Apart' /\ Phases' /\ RunState'
             /\ \A ch \in Chans : Held(ch)' = Held(ch)
  <2>1. /\ Listed' = Listed /\ Queued' = Queued /\ Batched' = Batched
        /\ Apart'
        /\ \A ch \in Chans : Held(ch)' = Held(ch)
    BY <1>0, <1>1, <1>6, SameLists
  <2>2. Phases'
    BY <1>0, <1>1, <1>6, <2>1 DEF Phases, Phase, RunPhase, RestPhase, RunningNow
  <2>3. RunState'
    BY <1>0, <1>1 DEF RunState, Running
  <2> QED BY <2>1, <2>2, <2>3
<1>7. CASE ~Usable(c)
  <2>1. /\ cache_miss_cnt' = cache_miss_cnt /\ wait_list' = wait_list /\ cache_list' = cache_list
        /\ args' = args /\ lock_cnt' = lock_cnt /\ entry' = entry /\ root' = root
    BY <1>3, <1>7 DEF LookUp, entry_vars
  <2>2. Types'
    BY <1>0, <1>1, <1>5, <2>1 DEF Types
  <2>3. Apart' /\ Phases' /\ RunState' /\ \A ch \in Chans : Held(ch)' = Held(ch)
    BY <1>6, <2>1
  <2>4. LocksExact'
    BY <1>0, <1>1, <2>1, <2>3, SameLocks
  <2>5. Replies'
    BY <1>0, <1>1, <2>1, SameReplies
  <2> QED BY <2>2, <2>3, <2>4, <2>5 DEF IInv
<1>8. CASE Usable(c)
  <2>0. c \in Chans /\ c # NULL /\ chan[c] = "open"
    BY <1>8 DEF Usable
  <2>1. root' = root \cup {c}
    BY <1>3, <1>8 DEF LookUp
  <2>2. L \in [Chans -> Nat] /\ \A ch \in Chans : /\ L[ch] = Held(ch) + Base(ch)'
                                                  /\ chan[ch] = "deleted" <=> L[ch] = 0
                                                  /\ ch \in root' => chan[ch] = "open"
    <3>1. L \in [Chans -> Nat]
          /\ L[c] = (IF c \in root THEN lock_cnt[c] ELSE lock_cnt[c] + 1)
          /\ \A ch \in Chans : ch # c => L[ch] = lock_cnt[ch]
      <4>1. lock_cnt \in [Chans -> Nat]
        BY <1>0 DEF LocksExact
      <4>2. CASE c \in root
        <5>1. L = lock_cnt
          BY <1>4, <4>2
        <5> QED BY <4>1, <4>2, <5>1
      <4>3. CASE c \notin root
        <5>1. L = [lock_cnt EXCEPT ![c] = @ + 1]
          BY <1>4, <2>0, <4>3 DEF Lock
        <5> QED BY <2>0, <4>1, <4>3, <5>1
      <4> QED BY <4>2, <4>3
    <3>2. ASSUME NEW ch \in Chans
          PROVE  /\ L[ch] = Held(ch) + Base(ch)'
                 /\ chan[ch] = "deleted" <=> L[ch] = 0
                 /\ ch \in root' => chan[ch] = "open"
      <4>1. /\ lock_cnt[ch] = Held(ch) + Base(ch) /\ lock_cnt[ch] \in Nat
            /\ (chan[ch] = "deleted" <=> lock_cnt[ch] = 0)
            /\ (ch \in root => chan[ch] = "open")
        BY <1>0 DEF LocksExact
      <4>2. Held(ch) \in Nat
        BY <1>0, HeldNat
      <4>3. CASE ch = c
        <5>1. Base(ch)' = 2 /\ Base(ch) = IF c \in root THEN 2 ELSE 1
          BY <1>1, <2>0, <2>1, <4>3 DEF Base
        <5>2. L[ch] = Held(ch) + Base(ch)'
          BY <3>1, <4>1, <4>2, <4>3, <5>1
        <5>3. L[ch] # 0
          BY <4>2, <5>1, <5>2
        <5> QED BY <2>0, <4>3, <5>2, <5>3
      <4>4. CASE ch # c
        <5>1. ch \in root' <=> ch \in root
          BY <2>1, <4>4
        <5>2. Base(ch)' = Base(ch)
          BY <1>1, <5>1 DEF Base
        <5> QED BY <3>1, <4>1, <4>4, <5>1, <5>2
      <4> QED BY <4>3, <4>4
    <3> QED BY <3>1, <3>2
  <2>3. root' \subseteq Chans
    BY <1>0, <2>0, <2>1 DEF Types
  \* The client waits for entry e, which is or becomes an outstanding request.
  <2>4. ASSUME NEW e \in Entries, CacheWait(e, L),
               entry' \in [Entries -> [st : {"free", "linked", "orphan"}, chan : Chans \cup {NULL},
                                       key : Keys \cup {NULL}, pending : BOOLEAN]],
               LinkedOnce',
               \A f \in Entries : f # e => entry'[f] = entry[f],
               entry'[e].pending, entry'[e].st # "free", entry'[e].chan \in root'
        PROVE  IInv'
    <3>1. /\ wait_list' \in [Caches -> Seq(Waiter)]
          /\ args' \in [Clients -> {"none", "stack", "heap", "freed", "gone"}]
          /\ cache_miss_cnt' = cache_miss_cnt + 1
          /\ cache_list' = {b \in Caches : wait_list'[b] # << >>}
          /\ \A b \in Caches : wait_list'[b] # << >> => wait_list[b] # << >> \/ b = e
          /\ Apart' /\ Phases' /\ RunState'
          /\ \A ch \in Chans :
                Held(ch)' = Held(ch) + (IF First /\ ChanOf[current_client.client] = ch THEN 1 ELSE 0)
          /\ lock_cnt' = IF First THEN Lock(L, ChanOf[current_client.client]) ELSE L
      <4>1. e \in Caches
        BY <1>2
      <4> QED BY <1>0, <1>1, <2>4, <4>1, WaitPlaces
    <3>2. cache_list' \subseteq Caches
      BY <3>1
    <3>3. Types'
      BY <1>0, <1>1, <1>5, <2>3, <2>4, <3>1, <3>2 DEF Types
    <3>4. LocksExact'
      BY <1>0, <1>1, <2>2, <3>1, WaitLocks
    <3>5. ASSUME NEW f \in Entries PROVE EntryOK(f)'
      <4>1. CASE f = e
        BY <2>4, <4>1 DEF EntryOK
      <4>2. CASE f # e
        <5>1. EntryOK(f) /\ f \in Caches /\ entry'[f] = entry[f]
          BY <1>0, <1>2, <2>4, <4>2 DEF Replies
        <5>2. wait_list'[f] # << >> => wait_list[f] # << >>
          BY <3>1, <4>2, <5>1
        <5> QED BY <2>1, <5>1, <5>2 DEF EntryOK
      <4> QED BY <4>1, <4>2
    <3>6. wait_list'[Gate] # << >> => safe_cnt' > 0
      <4>1. wait_list'[Gate] # << >> => wait_list[Gate] # << >>
        BY <1>2, <3>1
      <4> QED BY <1>0, <1>1, <4>1 DEF Replies
    <3>7. Replies'
      BY <2>4, <3>1, <3>5, <3>6 DEF Replies
    <3> QED BY <3>1, <3>3, <3>4, <3>7 DEF IInv
  <2>5. CASE /\ Linked(c, k) = {}
             /\ \E e \in Entries :
                  /\ entry[e].st = "free"
                  /\ entry' = [entry EXCEPT ![e] =
                                 [st |-> "linked", chan |-> c, key |-> k, pending |-> TRUE]]
                  /\ CacheWait(e, L)
    <3>1. PICK e \in Entries :
                  /\ entry[e].st = "free"
                  /\ entry' = [entry EXCEPT ![e] =
                                 [st |-> "linked", chan |-> c, key |-> k, pending |-> TRUE]]
                  /\ CacheWait(e, L)
      BY <2>5
    <3>2. /\ entry'[e] = [st |-> "linked", chan |-> c, key |-> k, pending |-> TRUE]
          /\ \A f \in Entries : f # e => entry'[f] = entry[f]
      BY <1>0, <3>1 DEF Types
    <3>3. entry' \in [Entries -> [st : {"free", "linked", "orphan"}, chan : Chans \cup {NULL},
                                  key : Keys \cup {NULL}, pending : BOOLEAN]]
      BY <1>0, <2>0, <3>1 DEF Types
    <3>4. entry'[e].pending /\ entry'[e].st = "linked" /\ entry'[e].chan = c /\ entry'[e].key = k
      BY <3>2
    <3>5. LinkedOnce'
      <4>1. \A f \in Entries : ~(entry[f].st = "linked" /\ entry[f].chan = c /\ entry[f].key = k)
        BY <2>5 DEF Linked
      <4>2. LinkedOnce
        BY <1>0 DEF Replies
      <4> QED BY <3>2, <3>4, <4>1, <4>2 DEF LinkedOnce
    <3>6. entry'[e].chan \in root' /\ entry'[e].st # "free"
      BY <2>1, <3>4
    <3> QED BY <2>4, <3>1, <3>2, <3>3, <3>4, <3>5, <3>6
  <2>6. CASE \E e \in Linked(c, k) : /\ entry' = entry
                                     /\ entry[e].pending
                                     /\ CacheWait(e, L)
    <3>1. PICK e \in Entries : /\ entry' = entry /\ e \in Linked(c, k)
                               /\ entry[e].pending
                               /\ CacheWait(e, L)
      BY <2>6 DEF Linked
    <3>2. entry[e].st = "linked" /\ entry[e].chan = c
      BY <3>1 DEF Linked
    <3>3. entry'[e].pending /\ entry'[e].st # "free" /\ entry'[e].chan \in root'
      BY <2>1, <3>1, <3>2
    <3>4. LinkedOnce'
      BY <1>0, <3>1 DEF Replies, LinkedOnce
    <3>5. entry' \in [Entries -> [st : {"free", "linked", "orphan"}, chan : Chans \cup {NULL},
                                  key : Keys \cup {NULL}, pending : BOOLEAN]]
      BY <1>0, <3>1 DEF Types
    <3>6. \A f \in Entries : f # e => entry'[f] = entry[f]
      BY <3>1
    <3> QED BY <2>4, <3>1, <3>3, <3>4, <3>5, <3>6
  <2>7. CASE /\ entry' = entry /\ lock_cnt' = L
             /\ cache_miss_cnt' = cache_miss_cnt /\ wait_list' = wait_list
             /\ cache_list' = cache_list /\ args' = args
    <3>1. Types'
      BY <1>0, <1>1, <1>5, <2>3, <2>7 DEF Types
    <3>2. Apart' /\ Phases' /\ RunState' /\ \A ch \in Chans : Held(ch)' = Held(ch)
      BY <1>6, <2>7
    <3>3. LocksExact'
      BY <1>1, <2>2, <2>7, <3>2 DEF LocksExact
    <3>4. LinkedOnce'
      BY <1>0, <2>7 DEF Replies, LinkedOnce
    <3>5. \A e \in Entries : EntryOK(e)'
      BY <1>0, <2>1, <2>7 DEF Replies, EntryOK
    <3>6. Replies'
      BY <1>0, <1>1, <2>7, <3>4, <3>5 DEF Replies
    <3> QED BY <3>1, <3>2, <3>3, <3>6 DEF IInv
  <2>8. \/ /\ Linked(c, k) = {}
           /\ \E e \in Entries :
                  /\ entry[e].st = "free"
                  /\ entry' = [entry EXCEPT ![e] =
                                 [st |-> "linked", chan |-> c, key |-> k, pending |-> TRUE]]
                  /\ CacheWait(e, L)
        \/ \E e \in Linked(c, k) : /\ entry' = entry
                                   /\ IF entry[e].pending
                                      THEN CacheWait(e, L)
                                      ELSE /\ lock_cnt' = L /\ cache_miss_cnt' = cache_miss_cnt
                                           /\ wait_list' = wait_list /\ cache_list' = cache_list
                                           /\ args' = args
    BY <1>3, <1>4, <1>8 DEF LookUp
  <2> QED BY <2>5, <2>6, <2>7, <2>8
<1> QED BY <1>7, <1>8

-----------------------------------------------------------------------------
(* The theorems.                                                              *)

\* Every step keeps the inductive invariant.
LEMMA NextIInv == IInv /\ [Next]_vars => IInv'
<1> SUFFICES ASSUME IInv, [Next]_vars PROVE IInv'
  OBVIOUS
<1>1. CASE \E c \in Clients : CacheEnter(c)
  BY <1>1, EnterKeeps
<1>2. CASE \E k \in Keys : LookUp(k)
  BY <1>2, LookUpKeeps
<1>3. CASE CheckAllStopped
  BY <1>3, CheckKeeps
<1>4. CASE CacheExit
  <2>1. CASE ExitThrows(cache_miss_cnt)
    <3>1. Running /\ RunEnd
      BY <1>4, <2>1 DEF CacheExit
    <3> QED BY <3>1, EndKeeps
  <2> QED BY <1>4, <2>1, ExitKeeps
<1>5. CASE ClientReturn \/ ClientThrow
  <2>1. Running /\ RunEnd
    BY <1>5 DEF ClientReturn, ClientThrow
  <2> QED BY <2>1, EndKeeps
<1>6. CASE RetryNext
  BY <1>6, RetryKeeps
<1>7. CASE \E buf \in posted : CacheNotifyEvent(buf)
  <2>1. PICK buf : buf \in posted /\ CacheNotifyEvent(buf)
    BY <1>7
  <2> QED BY <2>1, NotifyEventKeeps
<1>8. CASE \E e \in Entries : ValidateEntry(e)
  BY <1>8, ValidateKeeps
<1>9. CASE FlushCache
  BY <1>9, FlushKeeps
<1>10. CASE \E c \in Chans : ChannelClosed(c) \/ TransportUnlock(c)
  BY <1>10, ClosedKeeps, TransportKeeps
<1>11. CASE RunSafeEvents
  BY <1>11, SafeEventsKeeps
<1>12. CASE UNCHANGED vars
  <2>1. /\ client_vars' = client_vars /\ id_cnt' = id_cnt /\ wait_list' = wait_list
        /\ cache_list' = cache_list /\ batch' = batch /\ posted' = posted
        /\ entry' = entry /\ root' = root /\ chan' = chan /\ lock_cnt' = lock_cnt
        /\ safe_cnt' = safe_cnt /\ safe_posted' = safe_posted /\ flush_cnt' = flush_cnt
    BY <1>12 DEF vars, entry_vars, safe_vars
  <2>2. /\ current_client' = current_client /\ client_exited' = client_exited
        /\ cache_miss_cnt' = cache_miss_cnt /\ access_cnt' = access_cnt
        /\ args' = args /\ last_event' = last_event
    BY <2>1 DEF client_vars
  <2>3. Types'
    BY <2>1, <2>2 DEF IInv, Types
  <2>4. /\ Listed' = Listed /\ Queued' = Queued /\ Batched' = Batched
        /\ Apart' /\ \A ch \in Chans : Held(ch)' = Held(ch)
    BY <2>1, SameLists DEF IInv
  <2>5. Phases'
    BY <2>2, <2>4 DEF IInv, Phases, Phase, RunPhase, RestPhase, RunningNow
  <2>6. RunState'
    BY <2>1, <2>2 DEF IInv, RunState, Running
  <2>7. LocksExact'
    BY <2>1, <2>4, SameLocks DEF IInv
  <2>8. Replies'
    BY <2>1, SameReplies DEF IInv
  <2> QED BY <2>3, <2>4, <2>5, <2>6, <2>7, <2>8 DEF IInv
<1> QED
  BY <1>1, <1>2, <1>3, <1>4, <1>5, <1>6, <1>7, <1>8, <1>9, <1>10, <1>11, <1>12
  DEF Next, ClientStep

\* Always, a client is in one place: it is registered exactly if its run met a
\* miss, waits in one list or buffer between two runs, and is neither lost nor
\* run twice; and a running transaction has an identifier that is not 0.
THEOREM OnceCorrect == Spec => []ClientOnce
<1>1. IInv => ClientOnce
  BY OnceFromInv
<1> QED BY <1>1, InitIInv, NextIInv, PTL DEF Spec

\* Always, the arguments and the channel of a client that runs or waits are
\* there: the copy of its arguments is not freed, and the lock counts of the
\* channels are exact, so that none is deleted early and none leaks.
THEOREM SafeCorrect == Spec => []ClientSafe
<1>1. IInv => ClientSafe
  BY SafeFromInv
<1> QED BY <1>1, InitIInv, NextIInv, PTL DEF Spec

\* Always, whoever waits will be notified: an entry with waiting clients has an
\* outstanding reply and is not freed before it came, clients wait for safe
\* events only while one is queued, and cache_list is exact.
THEOREM ReplyCorrect == Spec => []WaitersHaveReply
<1>1. IInv => WaitersHaveReply
  BY ReplyFromInv
<1> QED BY <1>1, InitIInv, NextIInv, PTL DEF Spec
=============================================================================

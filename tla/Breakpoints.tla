---------------------------- MODULE Breakpoints ----------------------------
(***************************************************************************)
(* The breakpoints service, services/breakpoints.c, on a Linux agent built *)
(* for x86: clients add, change and remove breakpoints; their locations    *)
(* and conditions are evaluated by cache clients while run control is      *)
(* locked; break instructions are planted in memory and in debug registers *)
(* when the last evaluation ends; threads hit them and step over them.     *)
(*                                                                         *)
(* The agent is sequential: r is its state and every event is a function   *)
(* of r.  A process is a breakpoint group, a stop group and a canonical    *)
(* memory context at the same time.  Code breakpoints go to memory (the    *)
(* default x86 build refuses instruction access in debug registers), data  *)
(* breakpoints to one of HwSlots debug registers.                          *)
(***************************************************************************)
EXTENDS Integers, SequencesExt, FiniteSetsExt

CONSTANTS
    Groups,      \* 1..n, processes; process 1 exists from the start
    Threads,     \* 1..n
    Bps,         \* breakpoint ids
    Clients,     \* channels
    CodeLocs,    \* addresses of code, positive
    DataLocs,    \* addresses of data, positive and no address of code
    Attrs,       \* breakpoint attributes a client may send
    HwSlots,     \* MAX_HW_BPS
    LocMax,      \* LOC_EVALUATION_BP_MAX
    SkipMax,     \* attempts to step over a break instruction
    Scenarios    \* what to explore: the process of each thread (proc), what clients
                 \* may add (cmds) and three bounds: client commands (ops), cache
                 \* misses (miss), and forks, attaches, exits, detaches and
                 \* requests to stop a process (aux)

ASSUME ConstantAssumption ==
    /\ Groups = 1..Cardinality(Groups) /\ Threads = 1..Cardinality(Threads)
    /\ \A s \in Scenarios : /\ s.proc \in [Threads -> Groups] /\ {s.ops, s.miss, s.aux} \subseteq Nat
                            /\ s.cmds \subseteq Clients \X Bps \X Attrs
    /\ CodeLocs \union DataLocs \subseteq Nat \ {0} /\ CodeLocs \intersect DataLocs = {}
    /\ \A a \in Attrs : a.loc \in CodeLocs \union DataLocs
    /\ {HwSlots, LocMax, SkipMax} \subseteq Nat

VARIABLES
    r,     \* the agent and the threads, see TypeOK
    proc,  \* the process of each thread, never changed
    b      \* what is left of the bounds, and the commands to choose from

vars == <<r, proc, b>>

\* Break instructions: "v" and "m" are a code breakpoint at its virtual and at
\* its canonical address, "w" is a data breakpoint.
Keys == ({"v", "m"} \X Groups \X CodeLocs) \union ({"w"} \X Groups \X DataLocs)

KeysOf(g) == {k \in Keys : k[2] = g}

\* refs: the breakpoints that refer to the instruction, pos: those with cnt > 0;
\* sob: stepping_over_bp; err: planting_error is set; sw: planted_as_sw_bp.
NoIns == [in |-> FALSE, refs |-> {}, pos |-> {}, valid |-> FALSE, planted |-> FALSE,
          dirty |-> FALSE, sob |-> 0, err |-> FALSE, sw |-> FALSE]

\* posted: the request is in evaluations_posted; pn, ps and an, as: bp_cnt and
\* bp_arr of loc_posted and of loc_active; conds, oks: the condition requests
\* and those with condition_ok; cl: the cache client of an active request.
NoReq == [posted |-> FALSE, pn |-> 0, ps |-> {}, an |-> 0, as |-> {}, conds |-> {}, oks |-> {},
          cl |-> "idle"]

NoBp == [used |-> FALSE, clients |-> {}, at |-> CHOOSE a \in Attrs : TRUE, chg |-> FALSE,
         stat |-> FALSE, icnt |-> 0, told |-> {}]

\* pc: the break address the thread stopped at, or 0; icp: the thread is or
\* will be intercepted; by: stopped_by_bp or
\* stopped_by_cb; over, skips: stepping_over_bp and step_over_bp_cnt; asked:
\* context_stop() was called; owed: enabled unconditional breakpoints hit and
\* not triggered yet; late: one was hit after its request had been evaluated.
NewThread == [st |-> "none", pc |-> 0, by |-> "no", icp |-> FALSE, over |-> 0, skips |-> 0,
              asked |-> FALSE, owed |-> {}, late |-> FALSE]

Ensure(x, c) == [x EXCEPT !.ok = @ /\ c]

\* The assertions that do fail are recorded apart.
Expect(x, c, a) == [x EXCEPT !.failed = IF c THEN @ ELSE @ \union {a}]

Disabled(x, i) == ~x.bp[i].at.en \/ x.bp[i].clients = {}

Used(x) == {i \in Bps : x.bp[i].used}

LiveThreads(x, g) == {t \in Threads : proc[t] = g /\ x.th[t].st \in {"new", "run", "stop", "step"}}

AllStopped(x, g) == x.gl[g] = "exiting" \/ \A t \in LiveThreads(x, g) : x.th[t].st = "stop"

Active(x) == {g \in Groups : x.rq[g].cl # "idle"}

CacheEnterCnt(x) == Cardinality({g \in Groups : x.rq[g].cl \in {"enter", "stop", "miss"}})

Posted(x) == {g \in Groups : x.rq[g].posted}

\* References of a group, EXT(ctx)->instruction_cnt.
RefCnt(x, g) == MapThenSumSet(LAMBDA k : Cardinality(x.ins[k].refs), KeysOf(g))

----------------------------------------------------------------------------
(* Evaluation requests. *)

Lock(x) == [x EXCEPT !.lock = @ + 1]

\* run_ctrl_unlock()
Unlock(x) ==
    LET y == [Ensure(x, x.lock > 0) EXCEPT !.lock = @ - 1] IN
    IF y.lock > 0 THEN y
    ELSE [Ensure(y, y.safe = <<>>) EXCEPT !.q = Append(@, [ev |-> "safe", gen |-> 0])]

PostReplant(x) == [x EXCEPT !.gp = @ + 1, !.q = Append(@, [ev |-> "replant", gen |-> x.gp + 1])]


PostRequest(x, g) ==
    IF x.rq[g].posted THEN x
    ELSE LET y == [x EXCEPT !.rq[g].posted = TRUE] IN
         PostReplant(IF x.gp = x.gd THEN Lock(y) ELSE y)

\* post_location_evaluation_request(ctx, NULL) for a context of group g.
PostAll(x, g) ==
    IF /\ RefCnt(x, g) = 0 /\ ~x.rq[g].posted
       /\ \A i \in Used(x) : Disabled(x, i)
    THEN x
    ELSE PostRequest([x EXCEPT !.rq[g].pn = LocMax + 1], g)

\* n calls of post_location_evaluation_request(ctx, bp) for contexts of group g.
PostLoc(x, g, i, n) ==
    LET full == x.rq[g].pn + n > LocMax IN
    IF n = 0 THEN x
    ELSE PostRequest([x EXCEPT !.rq[g].pn = IF full THEN LocMax + 1 ELSE @ + n,
                               !.rq[g].ps = @ \union {i}], g)

\* replant_breakpoint(): all contexts, or all that the breakpoint is linked to.
ReplantBreakpoint(x, i) ==
    LET Links(g) == Cardinality({k \in KeysOf(g) : i \in x.ins[k].refs})
        Calls(g) == IF x.bp[i].clients = {}
                    THEN IF x.gl[g] \in {"live", "exiting"} THEN Links(g) ELSE 0
                    ELSE IF x.gl[g] \in {"live", "exiting"} THEN 1 + Cardinality(LiveThreads(x, g)) ELSE 0
    IN FoldLeft(LAMBDA y, g : PostLoc(y, g, i, Calls(g)), x, SetToSortSeq(Groups, <))

----------------------------------------------------------------------------
(* Break instructions. *)

\* link_breakpoint_instruction()
Link(x, i, k) ==
    LET new == i \notin x.ins[k].refs
        y == [x EXCEPT !.ins[k] = [@ EXCEPT !.in = TRUE, !.refs = @ \union {i}, !.pos = @ \union {i},
                                            !.valid = @ /\ ~new]]
    IN IF new THEN [y EXCEPT !.bp[i].icnt = @ + 1, !.bp[i].stat = TRUE]
       ELSE Ensure(y, ~x.ins[k].valid \/ k[1] = "m")

\* clear_instruction_refs() for the breakpoints is in group g.
ClearRefs(x, g, is) ==
    [Ensure(x, AllStopped(x, g)) EXCEPT
        !.ins = [k \in Keys |-> IF k[2] = g /\ @[k].refs \intersect is # {}
                                THEN [@[k] EXCEPT !.pos = @ \ is, !.valid = FALSE] ELSE @[k]]]

MutValidate(x, k) ==
    LET ins  == x.ins[k]
        drop == IF x.gl[k[2]] \in {"exiting", "exited"} THEN ins.refs ELSE ins.refs \ ins.pos
    IN [x EXCEPT !.ins[k] = [@ EXCEPT !.refs = @ \ drop, !.pos = ins.refs \ drop, !.valid = TRUE,
                                      !.dirty = @ \/ (ins.planted /\ drop # {})],
                 !.bp = [i \in Bps |-> IF i \in drop THEN [@[i] EXCEPT !.icnt = @ - 1] ELSE @[i]]]

\* validate_bi_refs()
Validate(x, k) ==
    LET ins  == x.ins[k]
        drop == IF x.gl[k[2]] \in {"exiting", "exited"} THEN ins.refs ELSE ins.refs \ ins.pos
        keep == ins.refs \ drop
        old  == ins.planted /\ (drop # {} \/ \E i \in keep : x.bp[i].chg)
    IN [Ensure(x, ~ins.valid) EXCEPT
            !.ins[k] = [@ EXCEPT !.refs = keep, !.pos = keep, !.valid = TRUE, !.dirty = @ \/ old],
            !.bp = [i \in Bps |-> IF i \in drop
                                  THEN [@[i] EXCEPT !.icnt = @ - 1, !.stat = TRUE] ELSE @[i]]]

\* plant_instruction(), where context_plant_breakpoint() has a free debug
\* register for "w" or not, refuses "v", and memory is written for "m".
Plant(x, k) ==
    LET ins  == x.ins[k]
        used == Cardinality({j \in KeysOf(k[2]) : j[1] = "w" /\ x.ins[j].planted})
        err  == k[1] = "v" \/ (k[1] = "w" /\ used >= HwSlots)
        pre  == /\ ins.sob = 0 /\ ~ins.planted /\ ~ins.dirty /\ ins.valid
                /\ x.gl[k[2]] \in {"live", "child"} /\ AllStopped(x, k[2])
    IN [Ensure(x, pre) EXCEPT
            !.ins[k] = [@ EXCEPT !.err = err, !.planted = ~err],
            !.swcnt = IF k[1] = "m" THEN @ + 1 ELSE @,
            !.bp = IF err = ins.err THEN @
                   ELSE [i \in Bps |-> IF i \in ins.refs THEN [@[i] EXCEPT !.stat = TRUE] ELSE @[i]]]

\* remove_instruction()
RemoveIns(x, k) ==
    [Ensure(x, x.ins[k].planted /\ ~x.ins[k].err /\ AllStopped(x, k[2])) EXCEPT
        !.ins[k] = [@ EXCEPT !.planted = FALSE, !.dirty = FALSE],
        !.swcnt = IF k[1] = "m" THEN @ - 1 ELSE @]

\* free_instruction()
FreeIns(x, k) ==
    LET ins == x.ins[k] IN
    [Ensure(x, ~ins.dirty /\ ~ins.planted /\ ins.refs = {} /\ ins.sob = 0) EXCEPT !.ins[k] = NoIns]

Each(Op(_, _), x, ks) == FoldSet(LAMBDA k, y : Op(y, k), x, ks)

\* flush_instructions(), stage by stage: the instructions that lost or changed
\* breakpoints, ...
Invalid(x) == {k \in Keys : x.ins[k].in /\ ~x.ins[k].valid}

\* ... and the data breakpoints that wait for a debug register; ...
Waiting(x) == {k \in Keys : k[1] = "w" /\ x.ins[k].in /\ ~x.ins[k].planted /\ AllStopped(x, k[2])}

RemoveStale(x, ks) ==
    Each(RemoveIns, x, {k \in ks : k[1] = "w" /\ x.ins[k].planted /\ (x.ins[k].dirty \/ x.ins[k].refs = {})})

\* ... registers are freed before they are used again, first for the data
\* address whose instruction comes first in the list; ...
PlantHardware(x, ks, first) ==
    Each(Plant, Each(Plant, x, {k \in ks : k[3] = first}), {k \in ks : k[3] # first})

\* ... plant_at_canonical_address() is for code, ...
Canonical(k) == <<"m", k[2], k[3]>>
PlantCanonical(x, k) ==
    [FoldSet(LAMBDA i, y : Link(y, i, Canonical(k)), Plant(x, k), x.ins[k].refs) EXCEPT !.ins[k].sw = TRUE]

\* ... and what nobody refers to any more is removed and freed.
FreeUnplanted(x, ks) == Each(FreeIns, x, {k \in ks : ~x.ins[k].planted})
FreeUnused(x) ==
    LET none == {k \in Keys : x.ins[k].in /\ x.ins[k].refs = {} /\ x.ins[k].sob = 0}
    IN FreeUnplanted(Each(RemoveIns, x, {k \in none : x.ins[k].planted /\ AllStopped(x, k[2])}), none)

PlantMemory(x, ks) ==
    Each(Plant, x, {k \in ks : x.ins[k].sob = 0 /\ x.ins[k].refs # {} /\ ~x.ins[k].planted})
FlushMemory(x, ks) == PlantMemory(Each(Validate, x, ks \intersect Invalid(x)), ks)

FlushPlant(x, ks, ms, first) ==
    LET plant == {k \in ks : /\ k[1] # "m" /\ ~x.ins[k].planted /\ x.ins[k].refs # {}
                             /\ x.gl[k[2]] \in {"live", "child"}}
        code  == {k \in plant : k[1] = "v"}
    IN FlushMemory(Each(PlantCanonical, PlantHardware(x, plant \ code, first), code),
                   ms \union {Canonical(k) : k \in code})

Flush(x, first) ==
    LET bad == Invalid(x)
        ks  == bad \union Waiting(x)
        ms  == {k \in bad : k[1] = "m"}
        y   == [x EXCEPT !.ins = [k \in Keys |-> IF k \in bad THEN [@[k] EXCEPT !.sw = FALSE] ELSE @[k]]]
    IN FreeUnused(FlushPlant(RemoveStale(Each(Validate, y, bad \ ms), ks), ks, ms, first))

----------------------------------------------------------------------------
(* Breakpoints and their clients. *)

\* write_breakpoint_status(): instances that are not planted elsewhere.
Status(x, i) ==
    {<<k, x.ins[k].planted, x.ins[k].err>> : k \in {j \in Keys : i \in x.ins[j].refs /\ ~x.ins[j].sw}}

\* The verification in notify_breakpoint_status().
Verified(x, i) ==
    LET mine == {k \in Keys : i \in x.ins[k].refs}
        sws  == {k \in mine : x.ins[k].sw}
    IN /\ x.gd = x.gp
       /\ \A k \in Keys : /\ x.ins[k].in => x.ins[k].valid
                          /\ x.ins[k].refs = x.ins[k].pos
                          /\ x.ins[k].refs # {} => x.gl[k[2]] # "exited"
       /\ x.bp[i].icnt = Cardinality(mine)
       /\ sws = {} \/ Cardinality(sws) < Cardinality(mine)
       /\ x.swcnt = Cardinality({k \in Keys : k[1] = "m" /\ x.ins[k].planted})

\* notify_breakpoint_status() and free_bp()
SendStatus(x, i) ==
    IF x.bp[i].clients = {}
    THEN IF x.bp[i].icnt > 0 THEN x
         ELSE [Ensure(x, Posted(x) = {} /\ Active(x) = {}) EXCEPT !.bp[i] = NoBp]
    ELSE IF x.bp[i].stat
         THEN [x EXCEPT !.bp[i].told = Status(x, i), !.bp[i].stat = FALSE]
         ELSE x
Notify(x, i) ==
    SendStatus(Expect(Ensure(x, Verified(x, i)),
                      x.bp[i].at.en \/ \A k \in Keys : i \notin x.ins[k].refs, "enabled"), i)

\* done_replanting_breakpoints()
DoneReplanting(x) ==
    LET y == [Ensure(x, Posted(x) = {} /\ Active(x) = {} /\ x.gd = x.ga) EXCEPT
                !.bp = [i \in Bps |-> [@[i] EXCEPT !.chg = FALSE]]]
    IN Each(Notify, y, Used(y))

\* A breakpoint that no longer asks a thread to stop is not owed a stop.
Forgive(x) ==
    [x EXCEPT !.th = [t \in Threads |-> [@[t] EXCEPT !.owed = {i \in @ : ~Disabled(x, i)}]]]

\* add_breakpoint()
AddBreakpoint(x, c, i, a) ==
    LET old   == x.bp[i]
        chng  == old.used /\ old.at # a
        added == old.clients = {}
        y     == [x EXCEPT
                    !.bp[i] = [@ EXCEPT !.used = TRUE, !.at = a, !.chg = @ \/ chng,
                                        !.clients = @ \union {c}],
                    !.th = [t \in Threads |-> IF chng THEN [@[t] EXCEPT !.owed = @ \ {i}] ELSE @[t]]]
    IN IF chng \/ added \/ c \notin old.clients THEN ReplantBreakpoint(y, i) ELSE y

\* remove_ref()
NotifyUnused(x, i) == IF x.bp[i].clients = {} /\ x.gd = x.gp THEN Notify(x, i) ELSE x
RemoveRef(x, c, i) ==
    NotifyUnused(ReplantBreakpoint(Forgive([x EXCEPT !.bp[i].clients = @ \ {c}]), i), i)

\* delete_breakpoint_refs()
DeleteRefs(x, c) == Each(LAMBDA y, i : RemoveRef(y, c, i), x, {i \in Bps : c \in x.bp[i].clients})

\* done_condition_evaluation() for the conditions conds of some groups, of
\* which oks have condition_ok.
Trigger(x, conds, oks) ==
    LET hit == {c[1] : c \in oks} IN
    [Expect(x, \A c \in conds : x.th[c[1]].st = "stop", "stopped") EXCEPT
        !.bp = [i \in Bps |-> IF \E c \in oks : c[2] = i THEN [@[i] EXCEPT !.stat = TRUE] ELSE @[i]],
        !.th = [t \in Threads |-> IF t \in hit /\ x.th[t].st # "exited"
                                  THEN [@[t] EXCEPT !.icp = TRUE, !.owed = @ \ {c[2] : c \in oks}]
                                  ELSE @[t]]]

\* done_all_evaluations(): temporary breakpoints go when they have triggered.
DoneAll(x) ==
    LET all  == UNION {x.rq[g].conds : g \in Active(x)}
        oks  == UNION {x.rq[g].oks : g \in Active(x)}
        temp == {i \in Bps : x.bp[i].at.temp /\ \E c \in oks : c[2] = i}
        y    == Each(LAMBDA z, i : Each(LAMBDA u, c : RemoveRef(u, c, i), z, z.bp[i].clients),
                     Trigger(x, all, oks), temp)
    IN [y EXCEPT !.rq = [g \in Groups |-> IF @[g].cl = "idle" THEN @[g]
                                          ELSE [@[g] EXCEPT !.conds = {}, !.oks = {}, !.cl = "idle"]]]

----------------------------------------------------------------------------
(* The evaluation of locations and conditions. *)

PostSafe(x, g, op, t) ==
    LET y == [Lock(x) EXCEPT !.safe = Append(@, [grp |-> g, op |-> op, t |-> t])] IN
    IF x.safe = <<>> THEN [y EXCEPT !.q = Append(@, [ev |-> "safe", gen |-> 0])] ELSE y

\* The end of replant_breakpoints_cache_client(), when every client is done.
\* Generations start again from 0: no event with an older one is left.
CloseGeneration(x) ==
    [Ensure(x, x.gd # x.ga /\ x.gp = x.ga /\ \A i \in DOMAIN x.q : x.q[i].ev # "replant")
        EXCEPT !.gd = 0, !.gp = 0, !.ga = 0]
EndReplanting(x, first) ==
    IF Posted(x) # {} THEN PostReplant(x)
    ELSE Unlock(DoneReplanting(CloseGeneration(Flush(x, first))))
Finish(x, first) == IF CacheEnterCnt(x) = 0 THEN EndReplanting(DoneAll(x), first) ELSE x

\* evaluate_bp_location() of breakpoints is, each run once per client channel.
Locate(x, g, is) ==
    LET on == {i \in is : x.gl[g] = "live" /\ ~Disabled(x, i)} IN
    FoldSet(LAMBDA i, y : Link(y, i, <<IF x.bp[i].at.loc \in CodeLocs THEN "v" ELSE "w", g, x.bp[i].at.loc>>),
            x, on)

\* replant_breakpoints_cache_client(): ch.miss, the groups whose locations
\* are not in the cache yet; ch.val, what conditions evaluate to.
Client(x, g, ch) ==
    LET req  == x.rq[g]
        is   == IF req.an > LocMax THEN Bps ELSE req.as
        y    == IF req.an > 0 THEN ClearRefs(x, g, is) ELSE x
        miss == g \in ch.miss /\ req.an > 0
        z    == IF miss THEN y ELSE Locate(y, g, is)
        live == {c \in req.conds : ~Disabled(x, c[2])}
        oks  == {c \in live : x.bp[c[2]].at.cond => ch.val[c[2]]}
        w    == [Expect(z, \A c \in live : x.th[c[1]].st = "stop" /\ x.th[c[1]].by # "no", "stopped")
                    EXCEPT !.rq[g].oks = oks, !.rq[g].cl = IF miss THEN "miss" ELSE "done",
                           !.ok = @ /\ \A c \in live : x.ins[c[3]].in]
    IN IF ~AllStopped(x, g) THEN PostSafe([x EXCEPT !.rq[g].cl = "stop"], g, "check", 0)
       ELSE Finish(w, ch.first)

RunClients(x, gs, ch) == FoldLeft(LAMBDA y, g : Client(y, g, ch), x, SetToSortSeq(gs, <))

\* event_replant_breakpoints()
EventReplant(x, gen, ch) ==
    LET y  == Ensure(x, Posted(x) # {})
        gs == Posted(x)
        z  == [Ensure(y, Active(x) = {}) EXCEPT
                  !.ga = x.gp,
                  !.rq = [g \in Groups |-> IF g \notin gs THEN @[g]
                                           ELSE [@[g] EXCEPT !.posted = FALSE, !.an = x.rq[g].pn, !.as = x.rq[g].ps,
                                                             !.pn = 0, !.ps = {}, !.cl = "enter"]]]
    IN IF gen # x.gp \/ CacheEnterCnt(x) > 0 THEN y ELSE RunClients(z, gs, ch)

MutEvaluate(x, t, k) ==
    LET on  == {i \in x.ins[k].refs : ~Disabled(x, i)}
        new == {<<t, i, k>> : i \in on}
        y   == [x EXCEPT !.th[t].owed = @ \union {i \in on : ~x.bp[i].at.cond}]
    IN IF x.rq[proc[t]].posted THEN y
       ELSE IF \E i \in on : x.bp[i].at.cond \/ x.bp[i].at.temp
            THEN PostRequest([y EXCEPT !.rq[proc[t]].conds = @ \union new], proc[t])
            ELSE Trigger(y, new, new)

\* The end of done_condition_evaluation(), if no evaluation is under way.
NotifyHits(x, is) ==
    IF x.gd = x.gp THEN Each(Notify, Ensure(x, \A i \in is : x.bp[i].clients # {}), is) ELSE x

\* evaluate_breakpoint() of thread t stopped at instruction k.
Evaluate(x, t, k) ==
    LET g       == proc[t]
        req     == x.rq[g]
        already == req.posted \/ req.cl # "idle"
        refs    == x.ins[k].refs
        new     == {<<t, i, k>> : i \in refs}
        on      == {i \in refs : ~Disabled(x, i)}
        post    == \E i \in on : x.bp[i].at.cond \/ x.bp[i].at.temp
        owed    == {i \in on : ~x.bp[i].at.cond}
        y       == [Ensure(x, x.ins[k].planted /\ (k[1] = "m" => x.ins[k].valid) /\ \A i \in refs : x.bp[i].icnt > 0)
                       EXCEPT !.th[t].owed = @ \union owed,
                              !.th[t].late = @ \/ (req.cl = "done" /\ ~req.posted /\ owed # {})]
        posted  == [y EXCEPT !.rq[g].conds = @ \union new]
    IN IF already THEN posted
       ELSE IF post THEN PostRequest(posted, g)
       ELSE NotifyHits(Trigger(y, new, {c \in new : c[2] \in on}), on)

----------------------------------------------------------------------------
(* Threads and safe events. *)

MutCheckSafe(x, t) == [x EXCEPT !.pend = @ \ {t}]

\* check_safe_events()
CheckSafe(x, t) ==
    IF t \notin x.pend THEN x
    ELSE [x EXCEPT !.pend = @ \ {t},
                   !.q = IF x.pend = {t} THEN Append(@, [ev |-> "safe", gen |-> 0]) ELSE @]

\* event_context_stopped() at instruction k, or at none.
Stopped(x, t, pc, by, k) ==
    LET y == [x EXCEPT !.th[t] = [@ EXCEPT !.st = "stop", !.pc = pc, !.by = by, !.asked = FALSE]] IN
    CheckSafe(IF by = "no" THEN y ELSE Evaluate(y, t, k), t)

\* safe_skip_breakpoint()
SafeSkip(x, t) ==
    LET g == proc[t]
        k == <<"m", g, x.th[t].over>>
        y == PostSafe(Ensure(x, x.ins[k].sob > 0), g, "restore", t)
        z == Ensure(y, y.th[t].st = "stop")
        w == IF z.ins[k].planted THEN RemoveIns(z, k) ELSE z
    IN IF x.th[t].st = "exited" \/ x.gl[g] = "exiting" THEN y
       ELSE [w EXCEPT !.th[t] = [@ EXCEPT !.st = "step", !.by = "no"], !.pend = @ \union {t}]

MutSafeRestore(x, t) ==
    [x EXCEPT !.th[t] = [@ EXCEPT !.over = 0, !.skips = 0], !.ins[<<"m", proc[t], x.th[t].over>>].sob = @ - 1]

\* safe_restore_breakpoint()
SafeRestore(x, t) ==
    LET g  == proc[t]
        th == x.th[t]
        k  == <<"m", g, th.over>>
        y  == Ensure(x, x.ins[k].in /\ x.ins[k].sob > 0)
        z  == [y EXCEPT !.th[t] = [@ EXCEPT !.over = 0, !.skips = 0], !.ins[k].sob = @ - 1]
        i  == z.ins[k]
    IN IF th.st = "stop" /\ x.gl[g] = "live" /\ th.pc = th.over /\ th.skips < SkipMax
       THEN SafeSkip([y EXCEPT !.th[t].skips = @ + 1], t)
       ELSE IF i.sob = 0 /\ i.valid /\ i.refs # {} /\ x.gl[g] = "live" /\ ~i.planted
            THEN Plant(z, k) ELSE z

\* The loop of run_safe_events() over the events of the marked groups.
RECURSIVE SafeLoop(_, _)
SafeLoop(x, marked) ==
    LET e == Head(x.safe)
        y == [Ensure(x, AllStopped(x, e.grp)) EXCEPT !.safe = Tail(@)]
        z == CASE e.op = "skip"    -> SafeSkip(y, e.t)
               [] e.op = "restore" -> SafeRestore(y, e.t)
               [] OTHER            -> y
    IN IF x.safe = <<>> \/ x.pend # {} THEN x
       ELSE IF e.grp \notin marked
            THEN IF \E i \in DOMAIN x.q : x.q[i].ev = "safe" THEN x
                 ELSE [x EXCEPT !.q = Append(@, [ev |-> "safe", gen |-> 0])]
       ELSE SafeLoop(Unlock(z), marked)

\* Clients that waited for their process to stop run again.
RunStopped(x, ch) ==
    IF x.safe = <<>> THEN RunClients(x, {g \in Groups : x.rq[g].cl = "stop"}, ch) ELSE x

\* run_safe_events(); while run control is not locked, the run state is
\* synchronized instead, see Resume.
RunSafe(x, ch) ==
    LET marked == {x.safe[i].grp : i \in DOMAIN x.safe}
        wait   == {t \in Threads : \/ x.th[t].st = "step"
                                   \/ x.th[t].st \in {"new", "run"} /\ proc[t] \in marked /\ x.gl[proc[t]] # "exiting"}
        y      == [x EXCEPT !.pend = wait,
                            !.th = [t \in Threads |-> IF t \in wait /\ @[t].st # "step"
                                                      THEN [@[t] EXCEPT !.asked = TRUE] ELSE @[t]]]
    IN IF \E i \in DOMAIN x.q : x.q[i].ev = "safe" THEN x
       ELSE IF x.lock = 0 THEN [x EXCEPT !.pend = {}]
       ELSE IF x.safe = <<>> THEN x
       ELSE RunStopped(SafeLoop(y, marked), ch)

\* event_context_created() of the breakpoints and the run control service.
Created(x, g) ==
    LET ts == {t \in Threads : proc[t] = g}
        y  == [x EXCEPT !.gl[g] = "live",
                        !.th = [t \in Threads |-> IF t \in ts THEN [@[t] EXCEPT !.st = "new"] ELSE @[t]]]
        z  == PostAll(y, g)
    IN IF z.lock = 0 THEN z
       ELSE [z EXCEPT !.pend = @ \union ts,
                      !.th = [t \in Threads |-> IF t \in ts THEN [@[t] EXCEPT !.asked = TRUE] ELSE @[t]]]

MutCloneBreakpoints(x, g, child) ==
    FoldSet(LAMBDA k, y :
              [y EXCEPT !.ins[<<"m", child, k[3]>>] = [x.ins[k] EXCEPT !.sob = 0],
                        !.bp = [i \in Bps |-> IF i \in x.ins[k].refs
                                              THEN [@[i] EXCEPT !.icnt = @ + 1, !.stat = TRUE] ELSE @[i]]],
            x, {k \in KeysOf(g) : k[1] = "m" /\ x.ins[k].planted})

\* clone_breakpoints_on_process_fork()
CloneBreakpoints(x, g, child) ==
    LET ks == {k \in KeysOf(g) : k[1] = "m" /\ x.ins[k].planted} IN
    FoldSet(LAMBDA k, y :
              [y EXCEPT !.ins[<<"m", child, k[3]>>] =
                            [NoIns EXCEPT !.in = TRUE, !.valid = TRUE, !.planted = TRUE,
                                          !.refs = x.ins[k].refs, !.pos = x.ins[k].pos],
                        !.swcnt = @ + 1,
                        !.bp = [i \in Bps |-> IF i \in x.ins[k].refs
                                              THEN [@[i] EXCEPT !.icnt = @ + 1, !.stat = TRUE] ELSE @[i]]],
            x, ks)

\* unplant_breakpoints()
UnplantBreakpoints(x, g) ==
    LET Drop(y, k) ==
            LET z == IF y.ins[k].planted THEN RemoveIns(y, k) ELSE y IN
            FreeIns([z EXCEPT !.ins[k].refs = {}, !.ins[k].pos = {},
                              !.bp = [i \in Bps |-> IF i \in z.ins[k].refs
                                                    THEN [@[i] EXCEPT !.icnt = @ - 1, !.stat = TRUE]
                                                    ELSE @[i]]], k)
    IN Each(Drop, x, {k \in KeysOf(g) : x.ins[k].in})

----------------------------------------------------------------------------
(* Actions. *)

Init ==
    /\ \E s \in Scenarios : proc = s.proc /\ b = [ops |-> s.ops, miss |-> s.miss, aux |-> s.aux, cmds |-> s.cmds]
    /\ r = [bp |-> [i \in Bps |-> NoBp], ins |-> [k \in Keys |-> NoIns],
            th |-> [t \in Threads |-> IF proc[t] = 1 THEN [NewThread EXCEPT !.st = "run"] ELSE NewThread],
            gl |-> [g \in Groups |-> IF g = 1 THEN "live" ELSE "none"],
            rq |-> [g \in Groups |-> NoReq], gp |-> 0, ga |-> 0, gd |-> 0, lock |-> 0,
            q |-> <<>>, safe |-> <<>>, pend |-> {}, swcnt |-> 0, ok |-> TRUE, failed |-> {}]

Outcomes == [val : [Bps -> BOOLEAN], miss : {{}} \union {{g} : g \in Groups}, first : DataLocs]

\* What does not matter for the next evaluation is not chosen.
Outcome(x) ==
    {ch \in Outcomes :
        /\ \A i \in Bps : x.bp[i].at.cond \/ ~ch.val[i]
        /\ b.miss = 0 => ch.miss = {}
        /\ Cardinality(DataLocs) <= HwSlots => ch.first = Min(DataLocs)}

Missed(x) == \E g \in Groups : x.rq[g].cl = "miss"

Step(x) == r' = x /\ UNCHANGED <<proc, b>>

Op(x) == b.ops > 0 /\ r' = x /\ b' = [b EXCEPT !.ops = @ - 1] /\ UNCHANGED proc

Aux(x) == b.aux > 0 /\ r' = x /\ b' = [b EXCEPT !.aux = @ - 1] /\ UNCHANGED proc

\* command_add() and command_change()
Add == \E m \in b.cmds : Op(AddBreakpoint(r, m[1], m[2], m[3]))

\* command_set() with one breakpoint.
Set == \E m \in b.cmds :
    (\E j \in Bps : m[1] \in r.bp[j].clients) /\ Op(AddBreakpoint(DeleteRefs(r, m[1]), m[1], m[2], m[3]))

\* command_enable() and command_disable()
Enable == \E i \in Bps :
    /\ r.bp[i].clients # {}
    /\ Op(ReplantBreakpoint(Forgive([r EXCEPT !.bp[i].at.en = ~@]), i))

\* command_remove()
RemoveBp == \E i \in Bps : \E c \in r.bp[i].clients : Op(RemoveRef(r, c, i))

\* channel_close_listener()
Close == \E c \in Clients : (\E i \in Bps : c \in r.bp[i].clients) /\ Op(DeleteRefs(r, c))

\* One event of the queue.
Dispatch ==
    /\ r.q # <<>>
    /\ LET e == Head(r.q)
           x == [r EXCEPT !.q = Tail(@)]
       IN \E ch \in Outcome(r) :
            r' = IF e.ev = "safe" THEN RunSafe(x, ch) ELSE EventReplant(x, e.gen, ch)
    /\ b' = IF Missed(r') THEN [b EXCEPT !.miss = 0] ELSE b
    /\ UNCHANGED proc

\* The data a client misses arrive and cache_notify() runs it again.
CacheReply ==
    \E g \in Groups : r.rq[g].cl = "miss" /\ \E ch \in Outcome(r) :
        ch.miss = {} /\ Step(Client([r EXCEPT !.rq[g].cl = "enter"], g, ch))

\* A running thread executes a break instruction, or touches watched data.
Hit == \E t \in Threads : r.th[t].st = "run" /\ \E k \in KeysOf(proc[t]) :
    /\ r.ins[k].planted
    /\ Step(IF k[1] = "m" THEN Stopped(r, t, k[3], "bp", k) ELSE Stopped(r, t, 0, "cb", k))

\* SIGSTOP is delivered; a new thread stops before it runs.
StopDue(t) == r.th[t].st = "new" \/ (r.th[t].st = "run" /\ r.th[t].asked)

StopReport(t) == StopDue(t) /\ Step(Stopped(r, t, 0, "no", <<>>))

\* The end of the step over a break instruction; the instruction may be
\* repeated, and may touch watched data.
StepReport(t) ==
    /\ r.th[t].st = "step"
    /\ \E pc \in {0, r.th[t].over} :
        \/ Step(Stopped(r, t, pc, "no", <<>>))
        \/ \E k \in KeysOf(proc[t]) :
              k[1] = "w" /\ r.ins[k].planted /\ Step(Stopped(r, t, pc, "cb", k))

\* sync_run_state() and context_continue(): a thread that is not intercepted
\* goes on, over the break instruction it stopped at.
Resume(t) ==
    LET k == <<"m", proc[t], r.th[t].pc>>
        over == r.th[t].by # "no" /\ k \in Keys /\ r.ins[k].in
    IN /\ r.lock = 0 /\ r.th[t].st = "stop" /\ ~r.th[t].icp /\ r.gl[proc[t]] = "live"
       /\ Step(IF over
               THEN PostSafe([r EXCEPT !.th[t] = [@ EXCEPT !.over = r.th[t].pc, !.skips = 1],
                                       !.ins[k].sob = @ + 1], proc[t], "skip", t)
               ELSE [r EXCEPT !.th[t] = [@ EXCEPT !.st = "run", !.pc = 0, !.by = "no"]])

\* The client resumes an intercepted thread.
ClientResume == \E t \in Threads : r.th[t].icp /\ r.th[t].st = "stop" /\ Step([r EXCEPT !.th[t].icp = FALSE])

\* Another service needs the threads of a process stopped, check_all_stopped().
CheckAllStopped == \E g \in Groups : ~AllStopped(r, g) /\ Aux(PostSafe(r, g, "check", 0))

Attach == \E g \in Groups : r.gl[g] = "none" /\ Aux(Created(r, g))

\* A thread forks; the agent attaches to the child, or will let it go.
Fork == \E t \in Threads, g \in Groups :
    /\ r.th[t].st = "run" /\ r.gl[g] = "none"
    /\ LET x == CloneBreakpoints(r, proc[t], g) IN
       \E y \in {Created(x, g), [x EXCEPT !.gl[g] = "child"]} : Aux(Stopped(y, t, 0, "no", <<>>))

\* The child that is not attached stops.
ChildReport == \E g \in Groups :
    r.gl[g] = "child" /\ Step([UnplantBreakpoints(r, g) EXCEPT !.gl[g] = "left"])

\* context_detach(), when run control is not locked.
Detach == \E g \in Groups :
    /\ r.gl[g] = "live" /\ r.lock = 0 /\ AllStopped(r, g)
    /\ Aux([UnplantBreakpoints(r, g) EXCEPT !.gl[g] = "exiting"])

\* event_pid_exited(): a thread ends, in any state; with the last one, its process.
Exit(t) ==
    LET g == proc[t]
        x == [r EXCEPT !.th[t] = [@ EXCEPT !.st = "exited", !.icp = FALSE, !.by = "no", !.owed = {}]]
        y == PostAll(CheckSafe(x, t), g)
    IN /\ t \in LiveThreads(r, g)
       /\ LET z == IF LiveThreads(y, g) = {} THEN PostAll([y EXCEPT !.gl[g] = "exited"], g) ELSE y
          IN IF r.gl[g] = "exiting" THEN Step(z) ELSE Aux(z)

Next ==
    \/ Add \/ Set \/ Enable \/ RemoveBp \/ Close
    \/ Dispatch \/ CacheReply \/ Hit \/ ClientResume
    \/ CheckAllStopped \/ Attach \/ Fork \/ ChildReport \/ Detach
    \/ \E t \in Threads : StopReport(t) \/ StepReport(t) \/ Resume(t) \/ Exit(t)

\* The dispatch loop, the replies of caches and the kernel go on: what stays
\* possible for each of them happens in the end.  (Weak fairness, with the
\* enabling conditions written out.)
Fairness ==
    /\ []<>(r.q = <<>>) \/ []<><<Dispatch>>_vars
    /\ []<>~Missed(r) \/ []<><<CacheReply>>_vars
    /\ \A t \in Threads : /\ []<>~StopDue(t) \/ []<><<StopReport(t)>>_vars
                          /\ []<>(r.th[t].st # "step") \/ []<><<StepReport(t)>>_vars

Spec == Init /\ [][Next]_vars /\ Fairness

----------------------------------------------------------------------------
(* Properties. *)

\* Requests and break instructions refer only to breakpoints and instructions
\* that exist.
NoDangling ==
    /\ \A k \in Keys : r.ins[k].refs \subseteq Used(r)
    /\ \A g \in Groups : /\ r.rq[g].posted => r.rq[g].ps \subseteq Used(r)
                         /\ Active(r) # {} => r.rq[g].as \subseteq Used(r) \/ r.rq[g].cl = "idle"
                         /\ \A c \in r.rq[g].conds : r.bp[c[2]].used /\ r.ins[c[3]].in
    /\ \A t \in Threads : r.th[t].over # 0 => r.ins[<<"m", proc[t], r.th[t].over>>].in

\* No assertion of breakpoints.c fails but those of r.failed, see below (planting
\* and removing only with the process stopped, the verification of the tables
\* before each status report, the generations at the end of an evaluation), and
\* nothing dangles.
Sound == r.ok /\ NoDangling

\* Run control is locked once for every safe event and once while evaluations
\* are under way, so threads never run during an evaluation and always run
\* again after it.
LockBalance == r.lock = Len(r.safe) + (IF r.gp # r.gd THEN 1 ELSE 0)

\* The tables and the locks of the evaluations are consistent.  (The assertions
\* the code does not keep are DisabledHasNone and StoppedAtCondition below.)
TablesSound == Sound /\ LockBalance

Quiet == r.gp = r.gd

Wanted(i, k) ==
    /\ ~Disabled(r, i) /\ r.bp[i].at.loc = k[3] /\ r.gl[k[2]] = "live"

\* A thread that ends while it waits to step over an instruction that nobody
\* refers to any more leaves it planted until the next evaluation.
Abandoned(k) ==
    k[1] = "m" /\ r.ins[k].refs = {} /\ \E t \in Threads : proc[t] = k[2] /\ r.th[t].st = "exited"

\* When no evaluation is under way, the processes hold the break instructions
\* of the enabled breakpoints and no other: nothing is left in a process that
\* was let go, and a data breakpoint is missing only if no debug register is free.
PlantedAsWanted ==
    Quiet => \A k \in Keys :
        LET ins  == r.ins[k]
            want == \E i \in Bps : Wanted(i, k)
            full == Cardinality({j \in KeysOf(k[2]) : j[1] = "w" /\ r.ins[j].planted}) = HwSlots
        IN /\ r.gl[k[2]] # "child" => ins.refs = {i \in Bps : Wanted(i, k)}
           /\ k[1] = "m" /\ want => ins.planted \/ ins.sob > 0
           /\ k[1] = "w" /\ want => ins.planted \/ full
           /\ ins.planted => want \/ ins.sob > 0 \/ r.gl[k[2]] = "child" \/ Abandoned(k)

\* A disabled breakpoint has no instructions when its status is reported, the
\* assertion of notify_breakpoint_status() at line 1351.  It does not hold: see
\* MCBreakpointsDisabled.cfg.
DisabledHasNone == "enabled" \notin r.failed

\* A thread is still stopped at its breakpoint when the condition of the hit is
\* evaluated and when the hit is finished, the assertions of
\* evaluate_condition() at lines 1690 and 1691 and of
\* done_condition_evaluation() at line 1402.  They do not hold: see
\* MCBreakpointsStopped.cfg.
StoppedAtCondition == "stopped" \notin r.failed

\* A thread that hit an enabled breakpoint without a condition does not run on
\* before the breakpoint has stopped it, unless the hit came after its request
\* had been evaluated: then no evaluation follows that would see it.
HitStops == \A t \in Threads : r.th[t].st = "run" => r.th[t].owed = {} \/ r.th[t].late

\* Every evaluation ends, and a breakpoint without clients is then forgotten,
\* unless a forked process that is let go still holds copies of it.
ReplantEnds ==
    /\ r.gp # r.gd ~> r.gp = r.gd
    /\ \A i \in Bps : r.bp[i].used /\ r.bp[i].clients = {}
            ~> ~r.bp[i].used \/ r.bp[i].clients # {} \/ \E g \in Groups : r.gl[g] \in {"child", "left"}

\* When no evaluation is under way, the last status sent of a breakpoint names
\* its instances and their errors.  (The type of an instance may be missing: a
\* status sent during the step over it says it is not planted; and the copies
\* in a process that is let go are not told until the next evaluation.)
StatusUpToDate ==
    LET Known(st) == {<<e[1], e[3]>> : e \in st} IN
    Quiet /\ (\A g \in Groups : r.gl[g] \notin {"child", "left", "exiting"})
        => \A i \in Used(r) : r.bp[i].clients # {} => Known(r.bp[i].told) = Known(Status(r, i))
=============================================================================

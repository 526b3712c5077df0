---------------------------- MODULE RunControl -----------------------------
(***************************************************************************)
(* Run control of one Linux process: services/runctrl.c on top of          *)
(* context.c, context-linux.c and waitpid.c, with the part of              *)
(* services/breakpoints.c that steps over a break instruction.             *)
(*                                                                         *)
(* The agent is sequential.  s is its state and, in s.k, what the kernel   *)
(* knows of each thread; every event is a function of s.  Context 0 is the *)
(* process, the others its threads, in the order of context_root.  Thread  *)
(* 1 is the main thread and creates the others.  There is one break        *)
(* instruction, at address 0; a program counter is 0 or 1.                 *)
(***************************************************************************)
EXTENDS Integers, SequencesExt, FiniteSetsExt

CONSTANTS
    N,            \* number of threads
    StopAllMax,   \* STOP_ALL_MAX_CNT, timeouts before a thread is given up
    StopRetries,  \* calls of context_stop() before a zombie is looked for
    SkipMax,      \* attempts to step over a break instruction
    AttachSelf,   \* the process was started by the agent
    MaxInputs     \* bound: commands, signals and failures of ptrace()

ASSUME ConstantAssumption ==
    /\ N \in Nat \ {0}
    /\ {StopAllMax, StopRetries, SkipMax, MaxInputs} \subseteq Nat
    /\ AttachSelf \in BOOLEAN

VARIABLES
    s,  \* the agent and the kernel, see Agent
    b   \* what is left of the bound

vars == <<s, b>>

Threads == 1..N
Process == 0

\* ctx: life of the context; pi: pending_intercept; icp: intercepted; sss:
\* safe_single_step; pse: pending_safe_event; cstop: cannot_stop; mode, stepped
\* and start: step_mode, step_cnt > 0 and step_range_start; sp: sigstop_posted;
\* tries: stop_cnt; det: detach_req; pend: pending_signals; ps: pending_step;
\* sbp, exc: stopped_by_bp and stopped_by_exception; sob and
\* skips: stepping_over_bp and step_over_bp_cnt; wait: waitpid() requests.
Thread ==
    [ctx : {"none", "live", "exited", "freed"}, ref : Nat, wait : Nat,
     stopped : BOOLEAN, exiting : BOOLEAN, pi : BOOLEAN, icp : BOOLEAN, sss : BOOLEAN,
     pse : BOOLEAN, cstop : BOOLEAN, mode : {"resume", "step", "terminate"}, stepped : BOOLEAN,
     start : 0..1, sp : BOOLEAN, tries : Nat, det : BOOLEAN, pend : SUBSET {"sig", "kill"},
     ps : BOOLEAN, sbp : BOOLEAN, exc : BOOLEAN, sob : BOOLEAN, skips : Nat]

\* why: the cause of a stop, also for ptrace_event; seen: the stop was reported; stop, kill: signals
\* that wait for delivery; dead: only the exit code of the kernel runs;
\* hit: the thread has executed the break instruction.
Kernel ==
    [st : {"none", "new", "run", "stop", "gone", "reaped", "detached"},
     why : {"stop", "trap", "sig", "exit", "clone"}, seen : BOOLEAN, step : BOOLEAN, pc : 0..1,
     stop : BOOLEAN, kill : BOOLEAN, dead : BOOLEAN, hit : BOOLEAN]

Dones == {"none", "terminate", "detach", "skip", "restore"}

\* list: safe_event_list; pids: safe_event_pid_count; lock: run_ctrl_lock_cnt;
\* timer, tcnt: stop_all_timer_posted and stop_all_timer_cnt; posted:
\* run_safe_events_posted; q: events run_safe_events ("safe") and
\* sync_run_state_event ("sync"); bi, planted: the break instruction is known,
\* and in memory; err: the last call failed; bad: the thread whose next
\* ptrace() fails; assert: FALSE if an assertion failed; alone: the same for the
\* assertion of sync_run_state() when it detaches.
Agent ==
    [th : [Threads -> Thread], k : [Threads -> Kernel],
     p : [ref : Nat, detach : BOOLEAN, exiting : BOOLEAN, det : BOOLEAN, exited : BOOLEAN],
     list : Seq([ctx : 0..N, done : Dones]), pids : Int, lock : Int, timer : BOOLEAN, tcnt : Nat,
     posted : Int, q : Seq({"safe", "sync"}), bi : BOOLEAN, planted : BOOLEAN,
     err : BOOLEAN, bad : 0..N, assert : BOOLEAN, alone : BOOLEAN]

New == [ctx |-> "none", ref |-> 0, wait |-> 0, stopped |-> FALSE, exiting |-> FALSE, pi |-> FALSE,
        icp |-> FALSE, sss |-> FALSE, pse |-> FALSE, cstop |-> FALSE, mode |-> "resume",
        stepped |-> FALSE, start |-> 0, sp |-> FALSE, tries |-> 0, det |-> FALSE, pend |-> {},
        ps |-> FALSE, sbp |-> FALSE, exc |-> FALSE, sob |-> FALSE, skips |-> 0]

NewKernel == [st |-> "none", why |-> "stop", seen |-> TRUE, step |-> FALSE, pc |-> 1, stop |-> FALSE,
              kill |-> FALSE, dead |-> FALSE, hit |-> FALSE]

Asserted(r, cond) == [r EXCEPT !.assert = @ /\ cond]
Order == [i \in 1..N |-> i]
Live(r, t) == r.th[t].ctx = "live"

-----------------------------------------------------------------------------
(* context.c: reference counts.                                            *)

UnlockProcess(r) == [Asserted(r, r.p.ref > 1 \/ r.p.exited) EXCEPT !.p.ref = @ - 1]

\* context_unlock() of a thread: the last one also unlocks parent and creator.
DropRef(r, t) == [Asserted(r, r.th[t].ref > 0) EXCEPT !.th[t].ref = @ - 1]
Dispose(r, t) ==
    IF r.th[t].ref > 0 THEN r
    ELSE UnlockProcess([Asserted(r, r.th[t].ctx = "exited") EXCEPT !.th[t] = [New EXCEPT !.ctx = "freed", !.wait = r.th[t].wait]])
UnlockCreator(r, t) ==
    IF t # 1 /\ r.th[t].ctx = "freed" THEN Dispose(DropRef(r, 1), 1) ELSE r
Unlock(r, t) ==
    IF t = Process THEN UnlockProcess(r) ELSE UnlockCreator(Dispose(DropRef(r, t), t), t)

Lock(r, t) == IF t = Process THEN [r EXCEPT !.p.ref = @ + 1]
              ELSE [Asserted(r, r.th[t].ref > 0) EXCEPT !.th[t].ref = @ + 1]

-----------------------------------------------------------------------------
(* The queue of safe events.                                               *)

PostRunSafe(r) == [r EXCEPT !.posted = @ + 1, !.q = Append(@, "safe")]

\* Lazily continue contexts that were stopped for a while.
MutLazily(r) == r
Lazily(r) == IF r.lock = 0 /\ r.posted < 4 THEN PostRunSafe(r) ELSE r

PostSafeEvent(r, t, done) ==
    LET r1 == Lock([Asserted(r, r.lock # 0 \/ r.list = << >>) EXCEPT !.lock = @ + 1], t)
        r2 == IF r.list = << >> THEN PostRunSafe(r1) ELSE r1
    IN  [r2 EXCEPT !.list = Append(@, [ctx |-> t, done |-> done])]

RunCtrlUnlock(r) ==
    LET r1 == [r EXCEPT !.lock = @ - 1]
    IN  IF r1.lock = 0 THEN PostRunSafe(Asserted(r1, r1.list = << >>)) ELSE r1

MutCheckSafeEvents(r, t) == [r EXCEPT !.th[t].pse = FALSE, !.pids = @ - 1]
CheckSafeEvents(r, t) ==
    LET r1 == [Asserted(r, r.pids > 0 /\ (r.th[t].stopped \/ r.th[t].ctx = "exited"))
                 EXCEPT !.th[t].pse = FALSE, !.pids = @ - 1]
    IN  IF r1.pids = 0 THEN PostRunSafe(r1) ELSE r1

AllStopped(r) ==
    \A t \in Threads : Live(r, t) => r.th[t].stopped \/ r.th[t].exiting \/ r.th[t].cstop

\* context_stop(): SIGSTOP is sent once; after some calls a zombie is looked for.
ContextStop(r, t) ==
    LET r1 == Asserted(r, Live(r, t) /\ ~r.th[t].exiting /\ ~r.th[t].stopped)
        r2 == IF r.th[t].tries > StopRetries
              THEN [r1 EXCEPT !.th[t].tries = 0, !.th[t].sp = FALSE] ELSE r1
    IN  IF r.th[t].tries > StopRetries /\ r.k[t].st = "gone"
        THEN [r1 EXCEPT !.th[t].exiting = TRUE]
        ELSE [r2 EXCEPT !.th[t].sp = TRUE, !.th[t].tries = @ + 1,
                        !.k[t].stop = @ \/ ~r2.th[t].sp]

WaitForStop(r, t) ==
    IF r.th[t].pse THEN r ELSE [r EXCEPT !.th[t].pse = TRUE, !.pids = @ + 1]

\* stop_if_safe_events(): a context that starts while others are being stopped.
StopIfSafeEvents(r, t) ==
    IF r.lock = 0 \/ r.th[t].exiting \/ r.th[t].stopped THEN r
    ELSE WaitForStop(IF r.th[t].sss THEN r ELSE ContextStop(r, t), t)

CancelStep(r, t) ==
    [r EXCEPT !.th[t].mode = "resume", !.th[t].stepped = FALSE, !.th[t].start = 0]

\* resume_context_tree(): the whole group is reported as resumed.
ResumeTree(r, t) ==
    LET hit == IF t = Process THEN {x \in Threads : Live(r, x)} ELSE {t}
    IN  IF \E x \in hit : r.th[x].icp
        THEN Lazily([r EXCEPT !.th = [x \in Threads |-> [r.th[x] EXCEPT !.icp = FALSE]]])
        ELSE r

\* send_context_started_event()
Started(r, t) ==
    LET r1 == [r EXCEPT !.th[t].stopped = FALSE, !.th[t].sbp = FALSE, !.th[t].exc = FALSE]
        r2 == IF r1.th[t].icp THEN ResumeTree(r1, t) ELSE r1
    IN  StopIfSafeEvents(r2, t)

-----------------------------------------------------------------------------
(* context-linux.c: continue, step and detach.                             *)

AddWaitpid(r, t) == [r EXCEPT !.th[t].wait = @ + 1]

\* send_context_exited_event() and send_process_exited_event()
ThreadExited(r, t) ==
    LET r1 == CancelStep([r EXCEPT !.th[t].ctx = "exited", !.th[t].exiting = FALSE, !.th[t].pi = FALSE,
                                   !.th[t].sss = FALSE, !.th[t].icp = FALSE], t)
        r2 == Unlock(IF r1.th[t].pse THEN CheckSafeEvents(r1, t) ELSE r1, t)
    IN  IF \E x \in Threads : Live(r2, x) THEN r2
        ELSE UnlockProcess([r2 EXCEPT !.p.exited = TRUE, !.p.detach = FALSE])

\* skip_breakpoint(): TRUE if the break instruction has to be stepped over.
NeedsSkip(r, t) == ~r.th[t].sob /\ r.th[t].sbp /\ ~r.th[t].exiting /\ r.bi /\ r.k[t].pc = 0
SkipBreakpoint(r, t) ==
    PostSafeEvent(Lock([r EXCEPT !.th[t].sob = TRUE, !.th[t].skips = 1], t), t, "skip")

\* ptrace() has failed: the thread is gone, or there is some other reason.
Resumed(r, t, done) ==
    IF r.bad = t THEN [r EXCEPT !.err = TRUE, !.bad = 0]
    ELSE IF r.k[t].st # "stop"
    THEN AddWaitpid(Started([r EXCEPT !.th[t].exiting = TRUE], t), t)
    ELSE done

PtraceEvent(r, t) == r.k[t].why \in {"clone", "exit"}
Signal(r, t) ==
    IF PtraceEvent(r, t) \/ r.th[t].pend = {} THEN "none"
    ELSE IF "kill" \in r.th[t].pend THEN "kill" ELSE "sig"

Run(r, t, step) == [r EXCEPT !.k[t].st = "run", !.k[t].step = step, !.k[t].why = "stop", !.k[t].hit = FALSE]

\* What is left to do for thread t, which was x, once it runs.
Continued(r, t, x) ==
    IF x.det /\ ~x.sp /\ x.pend = {}
    THEN ThreadExited([(IF t = 1 /\ AttachSelf THEN AddWaitpid(r, t) ELSE r)
                         EXCEPT !.k[t].st = "detached"], t)
    ELSE IF x.det /\ ~x.sp
    THEN [AddWaitpid(r, t) EXCEPT !.th[t].sp = TRUE, !.k[t].stop = TRUE]
    ELSE AddWaitpid(r, t)
DeliverSignal(r, t, signal) ==
    Run([r EXCEPT !.th[t].pend = @ \ {signal}, !.k[t].kill = @ \/ signal = "kill"], t, FALSE)
ContextContinue(r, t) ==
    LET x == r.th[t]
        a == Asserted(r, x.stopped /\ ~x.icp /\ ~x.pi /\ ~x.ps /\ Live(r, t) /\ ~x.sob)
    IN  IF NeedsSkip(r, t) THEN SkipBreakpoint(a, t)
        ELSE Resumed(a, t, Continued(Started(DeliverSignal(a, t, Signal(r, t)), t), t, x))

ContextSingleStep(r, t) ==
    LET a == Asserted(r, r.th[t].stopped /\ ~r.th[t].icp /\ Live(r, t))
    IN  IF r.th[t].det THEN ContextContinue(a, t)
        ELSE IF NeedsSkip(r, t) THEN SkipBreakpoint(a, t)
        ELSE Resumed(Asserted(a, ~r.th[t].ps), t,
                     AddWaitpid(Started(Run([a EXCEPT !.th[t].ps = TRUE], t, TRUE), t), t))

ContextDetach(r) ==
    [Asserted(r, ~r.p.exited /\ \A t \in Threads : ~r.th[t].sob)
       EXCEPT !.alone = @ /\ AllStopped(r),
              !.bi = FALSE, !.planted = FALSE, !.p.exiting = TRUE, !.p.det = TRUE, !.p.detach = FALSE,
              !.th = [t \in Threads |-> IF Live(r, t) THEN [r.th[t] EXCEPT !.exiting = TRUE, !.det = TRUE]
                                        ELSE r.th[t]]]

\* resume_error(), and the same for a break instruction that is stepped over
ResumeError(r, t) ==
    StopIfSafeEvents([r EXCEPT !.err = FALSE, !.th[t].stopped = TRUE, !.th[t].sbp = FALSE,
                               !.th[t].exc = TRUE, !.th[t].pi = TRUE], t)
CheckError(r, t) == IF r.err THEN [ResumeError(r, t) EXCEPT !.err = TRUE] ELSE r

-----------------------------------------------------------------------------
(* Stepping over the break instruction, and the callbacks of safe events.  *)

CheckStepError(r, t) == IF r.err THEN ResumeError([r EXCEPT !.th[t].sss = FALSE], t) ELSE r
SafeContextSingleStep(r, t) ==
    LET a == Asserted(r, r.lock > 0 /\ r.list # << >> /\ ~r.th[t].sss)
    IN  CheckStepError(ContextSingleStep([a EXCEPT !.th[t].sss = TRUE], t), t)

SafeSkip(r, t) ==
    LET x == r.th[t]
        r1 == PostSafeEvent(Asserted(r, x.sob), t, "restore")
    IN  IF ~Live(r, t) \/ x.exiting THEN r1
        ELSE SafeContextSingleStep(
               [Asserted(r1, x.stopped /\ ~x.icp /\ r.k[t].pc = 0 /\ AllStopped(r)) EXCEPT !.planted = FALSE], t)

SafeRestore(r, t) ==
    LET x == r.th[t]
        last == \A y \in Threads \ {t} : ~r.th[y].sob
        r1 == [r EXCEPT !.th[t].sob = FALSE, !.th[t].skips = 0,
                        !.planted = IF last /\ r.bi /\ ~r.p.exited /\ ~r.p.exiting THEN TRUE ELSE @]
    IN  IF Live(r, t) /\ ~x.exiting /\ x.stopped /\ ~x.exc /\ r.k[t].pc = 0 /\ x.skips < SkipMax
        THEN SafeSkip([r EXCEPT !.th[t].skips = @ + 1], t)
        ELSE Unlock(Asserted(r1, AllStopped(r)), t)

\* terminate_context_tree() and event_terminate()
TerminateOne(r, t) ==
    IF ~Live(r, t) THEN r
    ELSE ResumeTree([CancelStep(r, t) EXCEPT !.th[t].pi = FALSE, !.th[t].mode = "terminate"], t)
EventTerminate(r, t) ==
    Unlock(IF t # Process THEN TerminateOne(r, t)
           ELSE IF r.p.exited THEN r ELSE FoldLeft(TerminateOne, r, Order), t)

EventDetach(r) ==
    UnlockProcess(IF r.p.exited THEN r ELSE [ResumeTree(r, Process) EXCEPT !.p.detach = TRUE])

Callback(r, e) ==
    CASE e.done = "none" -> r
      [] e.done = "terminate" -> EventTerminate(r, e.ctx)
      [] e.done = "detach" -> EventDetach(r)
      [] e.done = "skip" -> SafeSkip(r, e.ctx)
      [] e.done = "restore" -> SafeRestore(r, e.ctx)

\* The first loop of run_safe_events(): what is not stopped is counted.
MarkCannotStop(r, t) == [CancelStep(r, t) EXCEPT !.th[t].sss = FALSE, !.th[t].cstop = TRUE]
MutStopOne(r0, t) ==
    LET r == [r0 EXCEPT !.th[t].pse = FALSE]
        x == r.th[t]
    IN  IF ~Live(r, t) \/ x.exiting \/ x.cstop \/ x.stopped \/ ~x.sss THEN r ELSE WaitForStop(r, t)
StopOne(r0, t) ==
    LET r == [r0 EXCEPT !.th[t].pse = FALSE]
        x == r.th[t]
    IN  IF ~Live(r, t) \/ x.exiting \/ x.cstop \/ x.stopped THEN r
        ELSE IF r.tcnt >= StopAllMax THEN MarkCannotStop(r, t)
        ELSE WaitForStop(IF ~x.sss \/ r.tcnt >= StopAllMax \div 2 THEN ContextStop(r, t) ELSE r, t)

\* One turn of the second loop.  It ends when a callback makes a thread run.
RunOne(r, i) ==
    IF r.list = << >> \/ r.pids > 0 THEN r
    ELSE LET e == Head(r.list)
             r1 == Callback([Asserted(r, AllStopped(r)) EXCEPT !.list = Tail(@)], e)
         IN  Unlock(RunCtrlUnlock(r1), e.ctx)

\* A callback adds at most one safe event, so this many turns are enough.
Turns(r) == [i \in 1..(2 + SkipMax) * Len(r.list) |-> i]
ResetTimer(r) == IF r.pids = 0 THEN [r EXCEPT !.tcnt = 0, !.timer = FALSE] ELSE r
StartTimer(r) == [r EXCEPT !.timer = @ \/ (r.list # << >> /\ r.pids > 0)]
RunList(r) == FoldLeft(RunOne, r, Turns(r))
RunSafeEvents(r0) ==
    LET r == [r0 EXCEPT !.posted = @ - 1]
    IN  IF r.posted > 0 THEN r
        ELSE IF r.lock = 0 THEN [r EXCEPT !.q = Append(@, "sync")]
        ELSE IF r.list = << >> THEN r
        ELSE StartTimer(RunList(ResetTimer(FoldLeft(StopOne, [r EXCEPT !.pids = 0], Order))))

-----------------------------------------------------------------------------
(* sync_run_state() and what is reported after it.                         *)

\* The second loop: the step machine.  A step is done when the program counter
\* has left the range of its first instruction.
UpdateStep(r, t) ==
    LET x == r.th[t]
    IN  IF ~Live(r, t) \/ x.pi \/ x.icp \/ ~x.stopped \/ x.mode # "step" THEN r
        ELSE IF ~x.stepped THEN [r EXCEPT !.th[t].start = r.k[t].pc]
        ELSE IF x.start # r.k[t].pc THEN [r EXCEPT !.th[t].pi = TRUE] ELSE r

\* The third and the fourth loop, for one context; grp: intercept_group.
MutStopOrContinue(r, t, grp) ==
    LET x == r.th[t]
    IN  IF ~Live(r, t) \/ x.icp \/ r.err \/ r.lock > 0 THEN r
        ELSE IF grp THEN [r EXCEPT !.th[t].pi = TRUE]
        ELSE IF x.stopped /\ ~x.pi /\ x.mode = "resume"
        THEN CheckError(ContextContinue(r, t), t)
        ELSE r
StopOrContinue(r, t, grp) ==
    LET x == r.th[t]
        r1 == [r EXCEPT !.th[t].pi = TRUE]
    IN  IF ~Live(r, t) \/ x.icp \/ r.err \/ r.lock > 0 THEN r
        ELSE IF grp
        THEN IF x.stopped \/ x.exiting THEN r1
             ELSE WaitForStop(ContextStop(Asserted(r1, ~x.sss), t), t)
        ELSE IF x.stopped /\ ~x.pi /\ x.mode = "resume"
        THEN CheckError(ContextContinue(r, t), t)
        ELSE r

ContinueOther(r, t) ==
    LET x == r.th[t]
    IN  IF ~Live(r, t) \/ ~x.stopped \/ x.icp \/ x.pi \/ x.mode = "resume" \/ r.err \/ r.lock > 0 THEN r
        ELSE CheckError(IF x.mode = "step" THEN ContextSingleStep(r, t)
                        ELSE ContextContinue([r EXCEPT !.th[t].pend = @ \cup {"kill"}], t), t)

InterceptGroup(r) == \E t \in Threads : Live(r, t) /\ (r.th[t].pi \/ r.th[t].icp)
ContinueAll(r, grp) ==
    FoldLeft(LAMBDA x, t : IF grp THEN x ELSE ContinueOther(x, t),
             FoldLeft(LAMBDA x, t : StopOrContinue(x, t, grp), r, Order), Order)
SyncDone(r) == [(IF r.err /\ r.pids = 0 THEN Lazily(r) ELSE r) EXCEPT !.err = FALSE]
SyncGroup(r) == SyncDone(ContinueAll(r, InterceptGroup(r)))
DetachPending(r) == IF r.p.detach THEN ContextDetach(r) ELSE r
SyncRunState(r) ==
    SyncGroup(FoldLeft(UpdateStep, DetachPending(
        [Asserted(r, r.list = << >>) EXCEPT !.tcnt = 0, !.pids = 0,
            !.th = [t \in Threads |-> [r.th[t] EXCEPT !.pse = FALSE]]]), Order))

\* send_event_context_suspended()
SendSuspended(r) ==
    LET now == {t \in Threads : Live(r, t) /\ r.th[t].pi /\ r.th[t].stopped}
    IN  [Asserted(r, \A t \in now : ~r.th[t].icp /\ ~r.th[t].sss)
           EXCEPT !.th = [t \in Threads |->
               IF t \notin now THEN r.th[t]
               ELSE [CancelStep(r, t).th[t] EXCEPT !.pi = FALSE, !.icp = TRUE]]]

SuspendIfSynced(r) == IF r.posted > 0 \/ r.lock > 0 THEN r ELSE SendSuspended(r)
SyncEvent(r) == SuspendIfSynced(IF r.lock = 0 THEN SyncRunState(r) ELSE r)

-----------------------------------------------------------------------------
(* waitpid_done(): a thread has stopped or exited.                         *)

\* add_thread() with add_waitpid_process(): the creator is thread 1.
AddThread(r, t) ==
    StopIfSafeEvents(
      [r EXCEPT !.th[t] = [New EXCEPT !.ctx = "live", !.ref = 1, !.wait = 1, !.sp = ~AttachSelf,
                                      !.exiting = r.p.det, !.det = r.p.det],
                !.th[1].ref = @ + 1, !.p.ref = @ + 1], t)

\* event_context_stopped() of runctrl.c; hit: the breakpoint's condition is true
ContextStopped(r, t, hit) ==
    LET r1 == [Asserted(r, Live(r, t) /\ ~r.th[t].icp)
                 EXCEPT !.th[t].sss = FALSE, !.th[t].cstop = FALSE,
                        !.th[t].stepped = r.th[t].mode # "resume"]
        r2 == IF r1.th[t].sbp /\ hit THEN Lazily([r1 EXCEPT !.th[t].pi = TRUE]) ELSE r1
    IN  Lazily(IF r2.th[t].pse THEN CheckSafeEvents(r2, t) ELSE r2)

NewThread(r) == {t \in Threads : r.k[t].st # "none" /\ r.th[t].ctx = "none"}

EventPidStopped(r, t, hit) ==
    LET why == r.k[t].why
        r1 == [Asserted(r, ~r.th[t].stopped)
                 EXCEPT !.th[t].wait = @ - 1, !.th[t].tries = 0, !.th[t].ps = FALSE,
                        !.th[t].sp = IF why = "stop" THEN FALSE ELSE @, !.k[t].seen = TRUE]
        r2 == CASE why = "clone" -> AddThread(r1, CHOOSE x \in NewThread(r1) : TRUE)
                [] why = "exit" -> [r1 EXCEPT !.th[t].exiting = TRUE]
                [] why = "sig" -> [r1 EXCEPT !.th[t].pend = @ \cup {"sig"}, !.th[t].pi = TRUE]
                [] OTHER -> r1
    IN  ContextStopped([r2 EXCEPT !.th[t].stopped = TRUE, !.th[t].exc = why = "sig",
                                  !.th[t].sbp = why = "trap" /\ r.k[t].pc = 0 /\ r.planted], t, hit)

EventPidExited(r, t) ==
    LET r1 == [r EXCEPT !.th[t].wait = @ - 1, !.k[t] = [NewKernel EXCEPT !.st = "reaped"]]
    IN  IF ~Live(r, t) THEN r1
        ELSE ThreadExited([(IF r.th[t].stopped THEN Started([r1 EXCEPT !.th[t].exiting = TRUE], t) ELSE r1)
                             EXCEPT !.th[t].exiting = TRUE], t)

-----------------------------------------------------------------------------
(* Events of the agent.                                                    *)

Becomes(r) == s' = r /\ UNCHANGED b

RunEvent(r, e) == IF e = "safe" THEN RunSafeEvents(r) ELSE SyncEvent(r)

\* The event at the head of the queue; a ptrace() call of it may fail.
Dispatch ==
    /\ s.q # << >>
    /\ \E bad \in {0} \cup Threads :
        /\ bad # 0 => b > 0
        /\ b' = IF bad = 0 THEN b ELSE b - 1
        /\ s' = [RunEvent([s EXCEPT !.q = Tail(@), !.bad = bad], Head(s.q)) EXCEPT !.bad = 0]

\* The exit of the main thread is reported last.
Reportable(t) ==
    \/ s.k[t].st = "stop" /\ ~s.k[t].seen
    \/ s.k[t].st = "gone" /\ (t = 1 => \A x \in Threads \ {1} : s.k[x].st \in {"none", "reaped"})
Report(t) ==
    /\ s.th[t].wait > 0
    /\ Reportable(t)
    /\ IF s.k[t].st = "gone" THEN Becomes(EventPidExited(s, t))
       ELSE \E hit \in BOOLEAN : Becomes(EventPidStopped(s, t, hit))

StopAllTimer ==
    /\ s.timer
    /\ Becomes(PostRunSafe([s EXCEPT !.timer = FALSE, !.tcnt = @ + 1]))

Command == b > 0 /\ b' = b - 1

\* A context that has exited takes no commands.
Exited(t) == IF t = Process THEN s.p.exited ELSE ~Live(s, t)

\* suspend_debug_context()
SuspendOne(r, t) ==
    LET x == r.th[t]
        r1 == [Asserted(r, ~x.stopped \/ ~x.sss) EXCEPT !.th[t].pi = TRUE]
    IN  IF ~Live(r, t) \/ x.icp THEN r
        ELSE IF x.stopped THEN Lazily(r1)
        ELSE IF x.exiting THEN r
        ELSE IF x.sss THEN r1 ELSE ContextStop(r1, t)
Suspend(t) ==
    /\ Command
    /\ s' = IF t = Process THEN FoldLeft(SuspendOne, s, Order) ELSE SuspendOne(s, t)

\* continue_debug_context(): the step mode of a thread is changed before its
\* state is tested, and cancelled if it is not intercepted.
Resume(t, mode) ==
    /\ Command
    /\ s' = IF t = Process THEN ResumeTree(s, t)
            ELSE IF s.th[t].icp
            THEN ResumeTree([CancelStep(s, t) EXCEPT !.th[t].mode = mode], t)
            ELSE CancelStep(s, t)

\* terminate_debug_context(); detach_debug_context()
Terminate(t) == Command /\ s' = PostSafeEvent(Lock(s, t), t, "terminate")
Detach == Command /\ ~Exited(Process) /\ s' = PostSafeEvent(Lock(s, Process), Process, "detach")

\* check_all_stopped(), called by clients of caches that need stopped threads
CheckAllStopped ==
    /\ Command
    /\ ~Exited(Process) /\ ~AllStopped(s)
    /\ s' = PostSafeEvent(s, Process, "none")

-----------------------------------------------------------------------------
(* The kernel.                                                             *)

Stops(t, why) == [s EXCEPT !.k[t].st = "stop", !.k[t].why = why, !.k[t].seen = FALSE, !.k[t].step = FALSE]
Running(t) == s.k[t].st = "run" /\ ~s.k[t].kill /\ ~s.k[t].dead

\* The thread executes an instruction: at address 0 the break instruction, if
\* it is there.  A step ends after it.
Execute(t) ==
    /\ Running(t)
    /\ IF s.k[t].pc = 0 /\ s.planted THEN Becomes([Stops(t, "trap") EXCEPT !.k[t].hit = TRUE])
       ELSE \E pc \in IF s.k[t].pc = 0 THEN {1} ELSE 0..1 :
              /\ s.k[t].step \/ pc # s.k[t].pc
              /\ Becomes([(IF s.k[t].step THEN Stops(t, "trap") ELSE s) EXCEPT !.k[t].pc = pc])

Sigstop(t) ==
    /\ Running(t) \/ s.k[t].st = "new"
    /\ s.k[t].stop
    /\ Becomes([Stops(t, "stop") EXCEPT !.k[t].stop = FALSE])

ProgramSignal(t) ==
    /\ Running(t) /\ b > 0
    /\ s' = Stops(t, "sig")
    /\ b' = b - 1

\* The new thread has a SIGSTOP pending.
Clone ==
    /\ Running(1) /\ ~s.k[1].step
    /\ \E t \in Threads :
         /\ s.k[t].st = "none" /\ \A x \in Threads : s.k[x].st = "none" => t <= x
         /\ Becomes([Stops(1, "clone") EXCEPT !.k[t].st = "new", !.k[t].stop = TRUE])

\* A thread ends: first PTRACE_EVENT_EXIT, which can be lost.
ThreadEnds(t) ==
    \/ Running(t) /\ Becomes([Stops(t, "exit") EXCEPT !.k[t].dead = TRUE])
    \/ Running(t) /\ Becomes([s EXCEPT !.k[t].st = "gone"])
KernelExit(t) == s.k[t].st = "run" /\ s.k[t].dead /\ Becomes([s EXCEPT !.k[t].st = "gone"])

\* SIGKILL ends all threads, also those that are stopped.
Killed(t) ==
    /\ s.k[t].st = "run" /\ s.k[t].kill
    /\ Becomes([s EXCEPT !.k = [x \in Threads |->
                    IF s.k[x].st \in {"new", "run", "stop"} THEN [s.k[x] EXCEPT !.st = "gone"] ELSE s.k[x]]])

-----------------------------------------------------------------------------
\* The main thread runs, and so does the agent.
Init ==
    /\ s = [th |-> [t \in Threads |-> IF t = 1 THEN [New EXCEPT !.ctx = "live", !.ref = 1, !.wait = 1] ELSE New],
            k |-> [t \in Threads |-> [NewKernel EXCEPT !.st = IF t = 1 THEN "run" ELSE "none"]],
            p |-> [ref |-> 2, detach |-> FALSE, exiting |-> FALSE, det |-> FALSE, exited |-> FALSE],
            list |-> << >>, pids |-> 0, lock |-> 0, timer |-> FALSE, tcnt |-> 0, posted |-> 0, q |-> << >>,
            bi |-> TRUE, planted |-> TRUE, err |-> FALSE, bad |-> 0, assert |-> TRUE, alone |-> TRUE]
    /\ b = MaxInputs

Commands ==
    \/ \E t \in 0..N :
         /\ ~Exited(t)
         /\ Suspend(t) \/ Terminate(t) \/ \E mode \in {"resume", "step"} : Resume(t, mode)
    \/ Detach
    \/ CheckAllStopped

KernelNext ==
    \/ \E t \in Threads : Execute(t) \/ Sigstop(t) \/ ProgramSignal(t) \/ ThreadEnds(t)
                            \/ KernelExit(t) \/ Killed(t)
    \/ Clone

Next == Dispatch \/ StopAllTimer \/ (\E t \in Threads : Report(t)) \/ Commands \/ KernelNext

Spec == Init /\ [][Next]_vars

\* The agent dispatches its events and its timer fires; the kernel delivers
\* signals and finishes exits, and waitpid() returns what it reports.  (Weak
\* fairness of Dispatch and of Report is written out, with what enables them.)
FairSpec ==
    /\ Spec
    /\ []<>(s.q = << >>) \/ []<><<Dispatch>>_vars
    /\ WF_vars(StopAllTimer)
    /\ \A t \in Threads :
         /\ []<>~(s.th[t].wait > 0 /\ Reportable(t)) \/ []<><<Report(t)>>_vars
         /\ WF_vars(Sigstop(t))
         /\ WF_vars(KernelExit(t) \/ Killed(t))

-----------------------------------------------------------------------------
(* Correctness.                                                            *)

\* The state has its type and the assertions of the code hold, all but the one of
\* StoppedAtDetach: what is resumed is stopped and not reported as suspended, a
\* thread that safe events waited for has stopped or exited, counts do not go
\* below zero and no context is used after its last unlock.
Sound == s \in Agent /\ b \in 0..MaxInputs /\ s.assert

\* sync_run_state() asserts that all threads are stopped when it detaches a process
\* (runctrl.c:2193).  It does not hold: see MCRunControlDetach.cfg.
StoppedAtDetach == s.alone

\* While the break instruction is out of memory, because a thread steps over
\* it, no other thread of the process executes anything, and there is no hit of
\* it that the agent has not seen; threads that could not be stopped excepted
\* (runctrl.h: "guaranteed to run while relevant contexts are stopped").
StepOverAlone ==
    \A t \in Threads :
        s.bi /\ ~s.planted /\ ~s.th[t].cstop =>
            /\ Running(t) => s.th[t].sss
            /\ ~(s.k[t].st = "stop" /\ s.k[t].hit /\ ~s.k[t].seen)

\* waitpid() is asked for exactly the threads that run: each stop or exit of a
\* thread is reported once, and none is waited for that cannot come.
WaitOne ==
    \A t \in Threads : Live(s, t) => s.th[t].wait = IF s.th[t].stopped THEN 0 ELSE 1

\* Run control is locked once for each queued safe event, counts the threads
\* it waits for, and while it waits for none an event to run the queue is posted.
SafeEventBooks ==
    /\ s.lock = Len(s.list)
    /\ s.pids = Cardinality({t \in Threads : s.th[t].pse})
    /\ s.posted = Len(SelectSeq(s.q, LAMBDA e : e = "safe"))
    /\ s.lock > 0 /\ s.pids = 0 => s.posted > 0
    /\ \A t \in Threads : s.th[t].pse => Live(s, t) /\ ~s.th[t].stopped

\* When no event is queued and nothing is waited for, each stopped thread is
\* reported to the clients as suspended, and then all of its group are.
NoForgottenThread ==
    s.q = << >> /\ s.lock = 0 /\ s.pids = 0 =>
        \A t \in Threads : Live(s, t) =>
            /\ s.th[t].stopped => s.th[t].icp
            /\ s.th[t].icp =>
                 \A x \in Threads : Live(s, x) => s.th[x].icp \/ s.th[x].exiting \/ s.th[x].cstop

\* A context is kept as long as something refers to it, and not longer.
RefCounts ==
    \A t \in Threads :
        s.th[t].ref = Cardinality(
            {<<"live", t>> : x \in {x \in {t} : Live(s, x)}}
            \cup {<<"event", i>> : i \in {i \in DOMAIN s.list : s.list[i].ctx = t}}
            \cup {<<"arg", i>> : i \in {i \in DOMAIN s.list : s.list[i] = [ctx |-> t, done |-> "terminate"]}}
            \cup {<<"skip", t>> : x \in {x \in {t} : s.th[x].sob}}
            \cup {<<"created", x>> : x \in {x \in Threads \ {1} : t = 1 /\ s.th[x].ctx \in {"live", "exited"}}})

\* The books of run control: threads waited for, locks, references.
BooksSound == Sound /\ WaitOne /\ SafeEventBooks /\ RefCounts

\* A thread that is to be intercepted is reported as suspended, resumed or
\* exits; only a main thread that is a zombie may wait for the others to exit.
InterceptEnds == \A t \in Threads : s.th[t].pi ~> ~s.th[t].pi \/ s.k[t].st = "gone"
=============================================================================

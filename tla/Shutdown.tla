------------------------------ MODULE Shutdown ------------------------------
(***************************************************************************)
(* The shutdown manager: framework/shutdown.c.  A subsystem is registered  *)
(* while it has something to stop.  All of it runs on the dispatch thread, *)
(* so its state is one record and each function of shutdown.c is a         *)
(* function of that record.  notify_pending says that notify_all() is      *)
(* queued as an event: flag and event are set and consumed together.       *)
(***************************************************************************)
EXTENDS Integers, Sequences, SequencesExt

CONSTANT Objs       \* ShutdownInfo objects

\* state:           obj->state
\* active:          shutdown_active, in list order
\* notify_pending:  notify_all() is posted
\* started:         shutdown_complete_handler is set
\* complete:        the complete handler was called, the event loop cancelled
ShutdownRec == [state : [Objs -> {"STOPPED", "NORMAL", "PENDING"}],
                active : Seq(Objs), notify_pending : BOOLEAN,
                started : BOOLEAN, complete : BOOLEAN]

ShutdownInit == [state |-> [o \in Objs |-> "STOPPED"], active |-> << >>,
                 notify_pending |-> FALSE, started |-> FALSE, complete |-> FALSE]

\* obj->link_active: the place of o in the list.
LinkOf(s, o) == CHOOSE j \in 1..Len(s.active) : s.active[j] = o

\* shutdown_set_stopped(): the manager runs again if a shutdown is under way.
SetStopped(s, o) ==
    IF s.state[o] = "STOPPED" THEN s
    ELSE [s EXCEPT !.state[o] = "STOPPED",
                   !.active = RemoveAt(@, LinkOf(s, o)),
                   !.notify_pending = @ \/ s.started]

\* shutdown_set_normal(): no notification, the object waits for the next one.
SetNormal(s, o) ==
    IF s.state[o] = "NORMAL" THEN s
    ELSE [s EXCEPT !.state[o] = "NORMAL",
                   !.active = IF s.state[o] = "STOPPED" THEN Append(@, o) ELSE @]

\* shutdown_start(): only the first call has an effect.
Start(s) == IF s.started THEN s ELSE [s EXCEPT !.started = TRUE, !.notify_pending = TRUE]

\* The first lines of notify_all(): complete when nobody is left.
NotifyBegin(s) == [s EXCEPT !.notify_pending = FALSE, !.complete = @ \/ s.active = << >>]

\* What notify_all() does to the state of the object it visits.
NotifyVisit(s, o) == [s EXCEPT !.state[o] = "PENDING"]

\* The object after o in the list, the end of the list if there is none.
\* notify_all() reads it before it calls the callback of o.
NextActive(s, o, end) ==
    LET i == LinkOf(s, o)
    IN  IF i = Len(s.active) THEN end ELSE s.active[i + 1]

\* shutdown_active holds the objects that are not stopped, each once.
ActiveExact(s) ==
    /\ ToSet(s.active) = {o \in Objs : s.state[o] # "STOPPED"}
    /\ \A i, j \in 1..Len(s.active) : s.active[i] = s.active[j] => i = j
=============================================================================

----------------------------- MODULE ByteStream -----------------------------
(***************************************************************************)
(* What the writing side of a channel promises: the peer receives a prefix *)
(* of what was written before the channel was closed, and the connection   *)
(* is shut down only when all of it was sent, or when sending failed.      *)
(***************************************************************************)
EXTENDS Integers, Sequences

CONSTANT Byte

VARIABLES
    written,  \* bytes written while the channel was open
    wire,     \* bytes that were sent
    closed,
    failed,
    shut      \* the connection was shut down for writing

vars == <<written, wire, closed, failed, shut>>

Init ==
    /\ written = << >>
    /\ wire = << >>
    /\ closed = FALSE
    /\ failed = FALSE
    /\ shut = FALSE

\* More bytes are written; none of the earlier ones changes.
Extend ==
    /\ written' \in Seq(Byte)
    /\ Len(written') > Len(written)
    /\ SubSeq(written', 1, Len(written)) = written

Write ==
    /\ ~closed
    /\ Extend
    /\ UNCHANGED <<wire, closed, failed, shut>>

Send ==
    /\ ~failed
    /\ ~shut
    /\ \E n \in 0..Len(written) : wire' = SubSeq(written, 1, n)
    /\ Len(wire') > Len(wire)
    /\ UNCHANGED <<written, closed, failed, shut>>

Fail == ~failed /\ ~shut /\ failed' = TRUE /\ UNCHANGED <<written, wire, closed, shut>>

\* Closing writes one last message.
Close ==
    /\ ~closed
    /\ closed' = TRUE
    /\ Extend
    /\ shut' = failed
    /\ UNCHANGED <<wire, failed>>

Shut ==
    /\ closed
    /\ ~shut
    /\ failed' \in {failed, TRUE}
    /\ failed' \/ wire = written
    /\ shut' = TRUE
    /\ UNCHANGED <<written, wire, closed>>

Next == Write \/ Send \/ Fail \/ Close \/ Shut

Spec == Init /\ [][Next]_vars
=============================================================================

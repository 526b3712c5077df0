------------------------- MODULE MCStreamsService -------------------------
EXTENDS StreamsService

Scenario(out, reads, writes, conn, sub) ==
    [out |-> out, reads |-> reads, writes |-> writes, conn |-> conn, sub |-> sub]

MCScenarios == {
    \* two clients that read, while one leaves or joins
    Scenario(5, 4, 0, 1, {1, 2}),
    \* two clients that write
    Scenario(0, 0, 3, 0, {1, 2}),
    \* a client that writes, while one leaves or joins
    Scenario(0, 0, 2, 1, {1}),
    \* clients that come and go
    Scenario(1, 1, 1, 2, {})}
===========================================================================

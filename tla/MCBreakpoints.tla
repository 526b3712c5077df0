--------------------------- MODULE MCBreakpoints ---------------------------
(* Small instances of the breakpoints service: address 1 is code, 2 and 3  *)
(* are data.                                                               *)
EXTENDS Breakpoints

At(l)   == [en |-> TRUE, loc |-> l, cond |-> FALSE, temp |-> FALSE]
Once(l) == [At(l) EXCEPT !.cond = TRUE, !.temp = TRUE]

MCAttrs == {At(1), Once(1), At(2), At(3)}

Scenario(p, cmds, ops, miss, aux) ==
    [proc |-> p, cmds |-> cmds, ops |-> ops, miss |-> miss, aux |-> aux]

MCScenarios == {
    \* two processes: forks, attaches, exits and detaches around a breakpoint
    Scenario(<<1, 2>>, {1} \X {1} \X {At(1)}, 1, 0, 2),
    Scenario(<<1, 2>>, {1} \X {1} \X {Once(1)}, 2, 0, 1),
    \* two threads at breakpoints of code and data, and cache misses
    Scenario(<<1, 1>>, {<<1, 1, Once(1)>>, <<1, 2, At(1)>>, <<1, 2, At(2)>>}, 2, 1, 0),
    \* more data breakpoints than debug registers
    Scenario(<<1, 1>>, {1} \X {1, 2} \X {At(2), At(3)}, 2, 0, 0),
    \* one breakpoint of two clients
    Scenario(<<1, 1>>, {1, 2} \X {1} \X {At(1)}, 3, 0, 0)}
=============================================================================

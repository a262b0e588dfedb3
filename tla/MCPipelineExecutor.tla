------------------------- MODULE MCPipelineExecutor --------------------------
(***************************************************************************)
(* Three workflows over four steps: a fail-fast pipeline around a          *)
(* fail-fast group with one slot, one that goes on after failures with     *)
(* both kinds of group and a branch, and a plain list.                     *)
(***************************************************************************)
EXTENDS PipelineExecutor

CONSTANTS a, b, c, d

Single(s) == [steps |-> <<s>>, mode |-> "single", limit |-> 1]
Group(s, t, mode, limit) == [steps |-> <<s, t>>, mode |-> mode, limit |-> limit]
Element(batch) == [then |-> <<batch>>, else |-> <<batch>>]

MCSteps == {a, b, c, d}
MCPipelines ==
    { [kind |-> "pipeline", failFast |-> TRUE, interval |-> 2,
       elements |-> <<Element(Single(a)), Element(Group(b, c, "failfast", 1)),
                      Element(Single(d))>>],
      [kind |-> "pipeline", failFast |-> FALSE, interval |-> 2,
       elements |-> <<Element(Group(a, b, "failfast", 2)),
                      [then |-> <<Single(c), Single(d)>>, else |-> <<>>]>>],
      [kind |-> "pipeline", failFast |-> FALSE, interval |-> 3,
       elements |-> <<Element(Group(a, b, "all", 2)), Element(Group(c, d, "all", 1))>>],
      [kind |-> "list", failFast |-> FALSE, interval |-> 0,
       elements |-> <<Element(Single(a)), Element(Single(b))>>] }
=============================================================================

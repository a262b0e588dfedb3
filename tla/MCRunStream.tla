---------------------------- MODULE MCRunStream ------------------------------
(***************************************************************************)
(* Up to two steps; a WebSocket or an SSE client that comes and goes at    *)
(* any time; a buffer that holds fewer events than a run has.  Steps of    *)
(* the native adapter broadcast side by side, the LangGraph stream may     *)
(* fail, each adapter meets each kind of client, the store may refuse an   *)
(* event or fail to clear, and a run id may be used again while its old    *)
(* timer sleeps.                                                           *)
(***************************************************************************)
EXTENDS RunStream

CONSTANTS a, b, c1, l1

Scenario(by, judged, flow, who, refusals, n) ==
    [adapter |-> by, evaluation |-> judged, steps |-> flow, clients |-> who,
     faults |-> refusals, runs |-> n]
MCScenarios == {
    Scenario("native", FALSE, {a, b}, {c1}, 0, 1), Scenario("langchain", FALSE, {a}, {c1}, 1, 1),
    Scenario("native", TRUE, {a, b}, {l1}, 0, 1), Scenario("langchain", TRUE, {a}, {l1}, 1, 1),
    Scenario("langchain", FALSE, {}, {l1}, 0, 2), Scenario("native", FALSE, {}, {}, 1, 2)}
=============================================================================

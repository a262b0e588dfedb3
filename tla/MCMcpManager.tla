---------------------------- MODULE MCMcpManager -----------------------------
(***************************************************************************)
(* Three calls for two names and one tool call: enough for a connection to *)
(* be replaced, for a disconnect_all() with two connections, and for a     *)
(* tool call to meet the end of its connection.                            *)
(***************************************************************************)
EXTENDS McpManager

CONSTANTS n1, n2, t1

MCNames == {n1, n2}
MCTools == {t1}
MCAsked == << {<<"connect", n1>>},
              {<<"force", n1>>, <<"connect", n2>>, <<"disconnect", n1>>},
              {<<"connect", n1>>, <<"all", n1>>} >>
MCClients == 1 .. MaxCalls
=============================================================================

--------------------------- MODULE MCModelRouter -----------------------------
(***************************************************************************)
(* Three callers on one model whose provider has two slots: one can probe, *)
(* one can be turned away and one can wait at the same time, and each kind *)
(* of request meets each other kind.                                       *)
(***************************************************************************)
EXTENDS ModelRouter, TLC

CONSTANTS c1, c2, c3

MCCallers == {c1, c2, c3}
MCKindsOf == 
    c1 :> {"gated", "client"} @@ c2 :> {"client", "stream"} @@ c3 :> {"stream", "forced"}
MCProvider == [m \in Models |-> "p"]
=============================================================================

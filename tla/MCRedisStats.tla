---------------------------- MODULE MCRedisStats -----------------------------
(***************************************************************************)
(* Two workers and two models: enough for a swap to meet another worker's  *)
(* write, for a save to be overtaken by calls of its own worker and for a  *)
(* second model to appear while the first is being saved.                  *)
(***************************************************************************)
EXTENDS RedisStats

CONSTANTS w1, w2, m1, m2

MCWorkers == {w1, w2}
MCModels == {m1, m2}
MCModelsOf == w1 :> {m1} @@ w2 :> {m1, m2}
=============================================================================

--------------------------- MODULE MCParamFlash ---------------------------
(* Two settings and two values in a partition of four blocks: a handful of *)
(* objects fills it, so that every other set compacts.                     *)
EXTENDS ParamFlash, TLC

CONSTANTS a, b, v, w

MCNames == {a, b}
MCValues == {v, w}
MCLength == (v :> 2) @@ (w :> 7)
=============================================================================

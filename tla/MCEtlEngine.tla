----------------------------- MODULE MCEtlEngine -----------------------------
(* EtlEngine for TLC: two pipelines whose frames share a key and repeat one. *)
EXTENDS EtlEngine, TLC

CONSTANTS p1, p2, k1, null

TwoFrames == (p1 :> <<k1, k1, null>>) @@ (p2 :> <<k1>>)
=============================================================================

------------------------ MODULE MCProcessDefinitions ------------------------
(***************************************************************************)
(* Two replicas with one request each: a stale chain on one, the write     *)
(* that made it stale on the other.                                        *)
(***************************************************************************)
EXTENDS ProcessDefinitions, MCChainWalks, TLC

CONSTANTS c1, c2, r1, r2

MCHome == (c1 :> r1) @@ (c2 :> r2)
=============================================================================

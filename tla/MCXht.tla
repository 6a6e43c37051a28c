-------------------------------- MODULE MCXht --------------------------------
(* A small dict for Xht: keys of which some share a bucket for longer than   *)
(* others, two with the same hash.                                           *)
EXTENDS Xht, TLC

CONSTANTS k1, k2, k3, k4, v1

MCHash4 == (k1 :> 0) @@ (k2 :> 2) @@ (k3 :> 5) @@ (k4 :> 5)
=============================================================================

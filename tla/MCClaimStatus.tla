------------------------------ MODULE MCClaimStatus -----------------------------
(***************************************************************************)
(* A claim of this driver and another one, and its successor, which has    *)
(* the same device of this driver and one more.                            *)
(***************************************************************************)
EXTENDS ClaimStatus, TLC

CONSTANTS u1, u2, d1, d2, other

SmallAlloc == u1 :> {d1, other} @@ u2 :> {d1, d2}
================================================================================

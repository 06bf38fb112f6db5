----------------------------- MODULE MCNodeClaims -----------------------------
(***************************************************************************)
(* Small instances of NodeClaims for TLC.                                  *)
(***************************************************************************)
EXTENDS NodeClaims, TLC

CONSTANTS c1, c2, a1, a2, bad, p1, p2, k1, k2, k3

OneClaim == {c1}
TwoClaims == {c1, c2}
OneProcess == {p1}
TwoProcesses == {p1, p2}
OneCall == {k1}
TwoCalls == {k1, k2}
ThreeCalls == {k1, k2, k3}
Good == {a1}
GoodAndBad == {a1, bad}
TwoGood == {a1, a2}
AllAllocations == {a1, a2, bad}
Bad == {bad}
NoAllocation == {}

\* No property names a claim, an allocation, a process or a slot.
Symmetry ==
  Permutations(Claims) \cup Permutations(Allocations \ Rejected)
    \cup Permutations(Instances) \cup Permutations(Calls)
================================================================================

------------------------------ MODULE ClaimLedger ------------------------------
(***************************************************************************)
(* What the kubelet plugin promises about a node's claims, with no         *)
(* processes, locks, calls or crashes in it.                               *)
(*                                                                         *)
(* A claim goes through its life alone: no step touches two of them.  Its  *)
(* CDI spec is complete before the ledger names the claim, does not change *)
(* while the claim can be used, and is gone before the ledger drops the    *)
(* claim.  The kubelet is told "prepared" only with a spec that carries    *)
(* the claim's allocation, and "unprepared" only when nothing is left.     *)
(***************************************************************************)
CONSTANTS Claims, Allocations, None

VARIABLES
  ledger,  \* claims recorded as prepared
  spec,    \* spec[c]: the allocation c's CDI spec makes injectable, or None
  need,    \* need[c]: what the node wants of c: idle, want, prepared, release
  grant    \* grant[c]: c's allocation, None while it is idle

ledgerVars == <<ledger, spec, need, grant>>

LedgerInit ==
  /\ ledger = {}
  /\ spec = [c \in Claims |-> None]
  /\ need = [c \in Claims |-> "idle"]
  /\ grant = [c \in Claims |-> None]

\* A pod that uses c is bound to the node.
Assign(c) ==
  /\ need[c] = "idle"
  /\ need' = [need EXCEPT ![c] = "want"]
  /\ \E a \in Allocations : grant' = [grant EXCEPT ![c] = a]
  /\ UNCHANGED <<ledger, spec>>

Compose(c) ==
  /\ c \notin ledger
  /\ need[c] = "want"
  /\ spec' = [spec EXCEPT ![c] = grant[c]]
  /\ UNCHANGED <<ledger, need, grant>>

Record(c) ==
  /\ need[c] = "want"
  /\ spec[c] = grant[c]
  /\ ledger' = ledger \cup {c}
  /\ UNCHANGED <<spec, need, grant>>

\* The kubelet learns that c is prepared.
Confirm(c) ==
  /\ need[c] = "want"
  /\ c \in ledger
  /\ spec[c] = grant[c]
  /\ need' = [need EXCEPT ![c] = "prepared"]
  /\ UNCHANGED <<ledger, spec, grant>>

\* The last pod that used c is gone, or never ran.
Surrender(c) ==
  /\ need[c] \in {"want", "prepared"}
  /\ need' = [need EXCEPT ![c] = "release"]
  /\ UNCHANGED <<ledger, spec, grant>>

Discard(c) ==
  /\ need[c] = "release"
  /\ spec' = [spec EXCEPT ![c] = None]
  /\ UNCHANGED <<ledger, need, grant>>

Erase(c) ==
  /\ need[c] = "release"
  /\ spec[c] = None
  /\ ledger' = ledger \ {c}
  /\ UNCHANGED <<spec, need, grant>>

\* The kubelet learns that c is unprepared.
Freed(c) ==
  /\ need[c] = "release"
  /\ c \notin ledger
  /\ spec[c] = None
  /\ need' = [need EXCEPT ![c] = "idle"]
  /\ grant' = [grant EXCEPT ![c] = None]
  /\ UNCHANGED <<ledger, spec>>

\* The kubelet forgets, all at once, which claims it was told are prepared.
Forget ==
  /\ need' = [c \in Claims |-> IF need[c] = "prepared" THEN "want" ELSE need[c]]
  /\ UNCHANGED <<ledger, spec, grant>>

LedgerNext ==
  \/ \E c \in Claims :
       \/ Assign(c) \/ Compose(c) \/ Record(c) \/ Confirm(c)
       \/ Surrender(c) \/ Discard(c) \/ Erase(c) \/ Freed(c)
  \/ Forget

LedgerSpec == LedgerInit /\ [][LedgerNext]_ledgerVars
================================================================================

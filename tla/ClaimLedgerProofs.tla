--------------------------- MODULE ClaimLedgerProofs ---------------------------
(***************************************************************************)
(* What the abstract ledger promises, proved of the ledger alone: the      *)
(* plugin, which implements it, inherits it.                               *)
(***************************************************************************)
EXTENDS ClaimLedger, TLAPS

LedgerTypeOK ==
  /\ ledger \in SUBSET Claims
  /\ spec \in [Claims -> Allocations \cup {None}]
  /\ need \in [Claims -> {"idle", "want", "prepared", "release"}]
  /\ grant \in [Claims -> Allocations \cup {None}]

\* What the ledger says of claim c in each state of its life.  Of a claim to be
\* released it says nothing but that its spec is no other claim's.
Promised(c) ==
  /\ spec[c] \in {None, grant[c]}
  /\ need[c] = "idle" => c \notin ledger /\ grant[c] = None
  /\ need[c] = "want" /\ c \in ledger => spec[c] = grant[c]
  /\ need[c] = "prepared" => c \in ledger /\ spec[c] = grant[c]
  /\ need[c] # "idle" => grant[c] \in Allocations

LedgerInv == LedgerTypeOK /\ \A c \in Claims : Promised(c)

LEMMA LedgerInitHolds == LedgerInit => LedgerInv
BY DEF LedgerInit, LedgerInv, LedgerTypeOK, Promised

\* A step about claim c keeps the types, and all other claims as they are.
LifeStep(c) ==
  \/ Assign(c) \/ Compose(c) \/ Record(c) \/ Confirm(c)
  \/ Surrender(c) \/ Discard(c) \/ Erase(c) \/ Freed(c)

LEMMA LifeKeepsTypes ==
  ASSUME LedgerTypeOK, NEW c \in Claims, LifeStep(c)
  PROVE  LedgerTypeOK'
<1>1. CASE Assign(c) \/ Compose(c) \/ Record(c) \/ Confirm(c)
  BY <1>1 DEF Assign, Compose, Record, Confirm, LedgerTypeOK
<1>2. CASE Surrender(c) \/ Discard(c) \/ Erase(c) \/ Freed(c)
  BY <1>2 DEF Surrender, Discard, Erase, Freed, LedgerTypeOK
<1> QED
  BY <1>1, <1>2 DEF LifeStep

LEMMA LifeIsOwn ==
  ASSUME LedgerTypeOK, NEW c \in Claims, LifeStep(c), NEW d \in Claims, d # c
  PROVE  /\ spec'[d] = spec[d] /\ need'[d] = need[d] /\ grant'[d] = grant[d]
         /\ d \in ledger' <=> d \in ledger
<1>1. CASE Assign(c) \/ Compose(c) \/ Record(c) \/ Confirm(c)
  BY <1>1 DEF Assign, Compose, Record, Confirm, LedgerTypeOK
<1>2. CASE Surrender(c) \/ Discard(c) \/ Erase(c) \/ Freed(c)
  BY <1>2 DEF Surrender, Discard, Erase, Freed, LedgerTypeOK
<1> QED
  BY <1>1, <1>2 DEF LifeStep

LEMMA LifeKeepsPromise ==
  ASSUME LedgerTypeOK, NEW c \in Claims, Promised(c), LifeStep(c)
  PROVE  Promised(c)'
<1>1. CASE Assign(c)
  BY <1>1 DEF Assign, LedgerTypeOK, Promised
<1>2. CASE Compose(c) \/ Record(c) \/ Confirm(c)
  BY <1>2 DEF Compose, Record, Confirm, LedgerTypeOK, Promised
<1>3. CASE Surrender(c) \/ Discard(c) \/ Erase(c)
  BY <1>3 DEF Surrender, Discard, Erase, LedgerTypeOK, Promised
<1>4. CASE Freed(c)
  BY <1>4 DEF Freed, LedgerTypeOK, Promised
<1> QED
  BY <1>1, <1>2, <1>3, <1>4 DEF LifeStep

LEMMA LedgerStepHolds == LedgerInv /\ [LedgerNext]_ledgerVars => LedgerInv'
<1> SUFFICES ASSUME LedgerInv, [LedgerNext]_ledgerVars
             PROVE  LedgerInv'
  OBVIOUS
<1>1. ASSUME NEW c \in Claims, LifeStep(c)
      PROVE  LedgerInv'
  <2>1. LedgerTypeOK'
    BY <1>1, LifeKeepsTypes DEF LedgerInv
  <2>2. Promised(c)'
    BY <1>1, LifeKeepsPromise DEF LedgerInv
  <2>3. ASSUME NEW d \in Claims, d # c
        PROVE  Promised(d)'
    BY <1>1, <2>3, LifeIsOwn DEF LedgerInv, Promised
  <2> QED
    BY <2>1, <2>2, <2>3 DEF LedgerInv
<1>2. CASE Forget
  BY <1>2 DEF Forget, LedgerInv, LedgerTypeOK, Promised
<1>3. CASE UNCHANGED ledgerVars
  BY <1>3 DEF ledgerVars, LedgerInv, LedgerTypeOK, Promised
<1> QED
  BY <1>1, <1>2, <1>3 DEF LedgerNext, LifeStep

\* The ledger's promises: "prepared" means recorded with a spec of the claim's own
\* allocation, "idle" that neither entry nor spec is left.
THEOREM LedgerPromises == LedgerSpec => []LedgerInv
<1> QED
  BY LedgerInitHolds, LedgerStepHolds, PTL DEF LedgerSpec

\* A claim in use and recorded keeps entry and spec, and "prepared" is taken back only
\* by its release or all at once.
THEOREM LedgerLasts ==
  LedgerSpec =>
    [][\A c \in ledger : need[c] \in {"want", "prepared"} =>
         /\ c \in ledger' /\ spec'[c] = spec[c] /\ grant'[c] = grant[c]
         /\ need'[c] # need[c] =>
              \/ need'[c] \in {"prepared", "release"}
              \/ \A d \in Claims : need'[d] # "prepared"]_ledgerVars
<1>1. LedgerInv /\ [LedgerNext]_ledgerVars =>
        [\A c \in ledger : need[c] \in {"want", "prepared"} =>
           /\ c \in ledger' /\ spec'[c] = spec[c] /\ grant'[c] = grant[c]
           /\ need'[c] # need[c] =>
                \/ need'[c] \in {"prepared", "release"}
                \/ \A d \in Claims : need'[d] # "prepared"]_ledgerVars
  <2> SUFFICES ASSUME LedgerInv, LedgerNext, NEW c \in ledger,
                      need[c] \in {"want", "prepared"}
               PROVE  /\ c \in ledger' /\ spec'[c] = spec[c] /\ grant'[c] = grant[c]
                      /\ need'[c] # need[c] =>
                           \/ need'[c] \in {"prepared", "release"}
                           \/ \A d \in Claims : need'[d] # "prepared"
    OBVIOUS
  <2>1. ASSUME NEW b \in Claims, LifeStep(b), b # c
        PROVE  /\ c \in ledger' /\ spec'[c] = spec[c] /\ grant'[c] = grant[c]
               /\ need'[c] = need[c]
    BY <2>1, LifeIsOwn DEF LedgerInv, LedgerTypeOK
  <2>2. ASSUME LifeStep(c)
        PROVE  /\ c \in ledger' /\ spec'[c] = spec[c] /\ grant'[c] = grant[c]
               /\ need'[c] # need[c] => need'[c] \in {"prepared", "release"}
    BY <2>2 DEF LifeStep, Assign, Compose, Record, Confirm, Surrender, Discard, Erase,
       Freed, LedgerInv, LedgerTypeOK
  <2>3. CASE Forget
    BY <2>3 DEF Forget, LedgerInv, LedgerTypeOK
  <2> QED
    BY <2>1, <2>2, <2>3 DEF LedgerNext, LifeStep
<1> QED
  BY <1>1, LedgerPromises, PTL DEF LedgerSpec
================================================================================

---------------------------- MODULE ClaimStatusProofs ---------------------------
(***************************************************************************)
(* The publication of a claim's device status, for any claims, devices,    *)
(* allocations and number of retries, whatever others write to the claim.  *)
(***************************************************************************)
EXTENDS ClaimStatus, TLAPS

\* The claims that may still be recorded or published under the name.
Known == past \cup (IF stored = None THEN {} ELSE {stored})

\* What RecordedIsPublished rests on: a handler that is past its update has
\* published or is excused; one that publishes has something to publish; a claim
\* is called, and so recorded, only once it has been stored.
PublishInv ==
  /\ queued \cup recorded \subseteq Known
  /\ pc # "idle" => uid \in Known
  /\ pc \in {"get", "update"} => enabled
  /\ pc = "update" /\ fresh => stored # None
  /\ pc = "record" /\ stored = uid /\ uid \notin excused => Ours(uid) \subseteq devices

\* What GivesUpOnlyWhenContended rests on: every round but the current one ended
\* in a conflict, and so did the current one if the copy is an old one.
ContentionInv ==
  /\ pc \in {"get", "update"} => contention >= attempt - 1
  /\ pc = "update" /\ ~fresh => contention >= attempt
  /\ outcome = "conflict" => contention = Steps

\* The Boolean part of CSTypeOK, for the steps that split it from the arithmetic.
Flags == enabled \in BOOLEAN /\ fresh \in BOOLEAN

CSInv == CSTypeOK /\ PublishInv /\ RecordedIsPublished /\ ContentionInv

LEMMA InitHolds == CSInit => CSInv
<1> SUFFICES ASSUME CSInit PROVE CSInv
  OBVIOUS
<1>1. CSTypeOK
  <2>1. Flags
    BY DEF CSInit, Flags
  <2> QED
    BY <2>1, ClaimStatusAssumption DEF CSInit, CSTypeOK, Flags
<1>2. PublishInv /\ RecordedIsPublished
  BY DEF CSInit, PublishInv, Known, RecordedIsPublished
<1>3. ContentionInv
  BY DEF CSInit, ContentionInv
<1> QED
  BY <1>1, <1>2, <1>3 DEF CSInv

\* Writes of others: to the object, and to nothing a handler knows but the age of
\* its copy.
LEMMA OthersKeep ==
  ASSUME CSInv, Foreign,
         Delete \/ Others \/ \E u \in Uids : Create(u)
  PROVE  CSInv'
<1> USE DEF CSInv, Foreign
<1>1. CSTypeOK'
  <2>1. Flags'
    BY DEF CSTypeOK, Flags
  <2> QED
    BY <2>1, ClaimStatusAssumption DEF CSTypeOK, Flags, Create, Delete, Others
<1>2. ContentionInv'
  BY ClaimStatusAssumption DEF CSTypeOK, ContentionInv
<1>3. PublishInv' /\ RecordedIsPublished'
  <2>1. ASSUME NEW u \in Uids, Create(u)
        PROVE  PublishInv' /\ RecordedIsPublished'
    BY <2>1, ClaimStatusAssumption
    DEF Create, CSTypeOK, PublishInv, Known, RecordedIsPublished
  <2>2. CASE Delete
    BY <2>2, ClaimStatusAssumption
    DEF Delete, CSTypeOK, PublishInv, Known, RecordedIsPublished
  <2>3. CASE Others
    BY <2>3, ClaimStatusAssumption
    DEF Others, CSTypeOK, PublishInv, Known, RecordedIsPublished, Ours
  <2> QED
    BY <2>1, <2>2, <2>3
<1> QED
  BY <1>1, <1>2, <1>3

\* Steps of the kubelet, the process and the handler outside of its update.
LEMMA HandlersKeep ==
  ASSUME CSInv,
         \/ Restart \/ Record \/ RecordFails
         \/ \E u \in Uids : Call(u) \/ Unprepare(u) \/ Take(u)
  PROVE  CSInv'
<1>1. ASSUME NEW u \in Uids, Call(u) \/ Unprepare(u) \/ Refuse(u) \/ Restored(u)
      PROVE  CSInv'
  <2> USE <1>1 DEF Call, Unprepare, Refuse, Restored, cluster, handler, CSInv
  <2>1. CSTypeOK'
    <3>1. Flags'
      BY DEF CSTypeOK, Flags
    <3> QED
      BY <3>1 DEF CSTypeOK, Flags
  <2>2. PublishInv' /\ RecordedIsPublished' /\ ContentionInv'
    BY ClaimStatusAssumption DEF CSTypeOK, PublishInv, Known, RecordedIsPublished, ContentionInv
  <2> QED
    BY <2>1, <2>2
<1>2. ASSUME NEW u \in Uids, Skips(u) \/ Publishes(u)
      PROVE  CSInv'
  <2> USE <1>2 DEF Skips, Publishes, Begin, Statuses, cluster, CSInv
  <2>1. CSTypeOK'
    <3>1. Flags'
      BY DEF CSTypeOK, Flags
    <3> QED
      BY <3>1, ClaimStatusAssumption DEF CSTypeOK, Flags
  <2>2. PublishInv' /\ RecordedIsPublished'
    BY DEF PublishInv, Known, RecordedIsPublished
  <2>3. ContentionInv'
    BY DEF ContentionInv
  <2> QED
    BY <2>1, <2>2, <2>3
<1>3. CASE Restart
  <2> USE <1>3 DEF Restart, cluster, CSInv
  <2>1. CSTypeOK'
    <3>1. Flags'
      BY DEF CSTypeOK, Flags
    <3> QED
      BY <3>1, ClaimStatusAssumption DEF CSTypeOK, Flags
  <2>2. PublishInv' /\ RecordedIsPublished' /\ ContentionInv'
    BY DEF PublishInv, Known, RecordedIsPublished, ContentionInv
  <2> QED
    BY <2>1, <2>2
<1>4. CASE Record \/ RecordFails
  <2> USE <1>4 DEF Record, RecordFails, Answer, cluster, CSInv
  <2>1. CSTypeOK'
    <3>1. Flags'
      BY DEF CSTypeOK, Flags
    <3> QED
      BY <3>1 DEF CSTypeOK, Flags
  <2>2. PublishInv' /\ RecordedIsPublished' /\ ContentionInv'
    BY DEF CSTypeOK, PublishInv, Known, RecordedIsPublished, ContentionInv, Ours
  <2> QED
    BY <2>1, <2>2
<1> QED
  BY <1>1, <1>2, <1>3, <1>4 DEF Take

\* Steps of updateDeviceStatus.
LEMMA UpdatesKeep ==
  ASSUME CSInv,
         \/ Get \/ GetFails
         \/ Update \/ UpdateFails \/ Conflicts \/ GivesUp
  PROVE  CSInv'
<1> USE ClaimStatusAssumption DEF CSInv, Done, cluster
<1>1. CASE Get \/ Conflicts
  <2> USE <1>1 DEF Get, Conflicts
  <2>1. CSTypeOK'
    <3>1. Flags'
      BY DEF CSTypeOK, Flags
    <3> QED
      BY <3>1 DEF CSTypeOK, Flags
  <2>2. PublishInv' /\ RecordedIsPublished'
    BY DEF PublishInv, Known, RecordedIsPublished
  <2>3. ContentionInv'
    BY DEF CSTypeOK, ContentionInv
  <2> QED
    BY <2>1, <2>2, <2>3
<1>2. CASE GetFails \/ UpdateFails \/ GivesUp
  <2> USE <1>2 DEF GetFails, UpdateFails, GivesUp
  <2>1. CSTypeOK'
    <3>1. Flags'
      BY DEF CSTypeOK, Flags
    <3> QED
      BY <3>1 DEF CSTypeOK, Flags
  <2>2. PublishInv' /\ RecordedIsPublished'
    BY DEF CSTypeOK, PublishInv, Known, RecordedIsPublished
  <2>3. ContentionInv'
    BY DEF CSTypeOK, ContentionInv
  <2> QED
    BY <2>1, <2>2, <2>3
\* The entries written are those of the handler's claim, and it publishes only with
\* the flag on.
<1>3. CASE Update
  <2> USE <1>3 DEF Update
  <2>1. devices' = Ours(uid)
    BY DEF PublishInv, Statuses
  <2>2. stored # None
    BY DEF PublishInv
  <2>3. CSTypeOK'
    <3>1. Flags'
      BY DEF CSTypeOK, Flags
    <3> QED
      BY <2>2, <3>1 DEF CSTypeOK, Flags, Accepted, Statuses
  <2>4. PublishInv' /\ RecordedIsPublished'
    BY <2>1, <2>2 DEF CSTypeOK, PublishInv, Known, RecordedIsPublished
  <2>5. ContentionInv'
    BY DEF CSTypeOK, ContentionInv
  <2> QED
    BY <2>3, <2>4, <2>5
<1> QED
  BY <1>1, <1>2, <1>3

--------------------------------------------------------------------------------
LEMMA StutterKeeps == CSInv /\ UNCHANGED csVars => CSInv'
<1> SUFFICES ASSUME CSInv, UNCHANGED csVars PROVE CSInv'
  OBVIOUS
<1> USE DEF csVars, cluster, handler
<1>1. CSTypeOK'
  BY DEF CSInv, CSTypeOK
<1>2. PublishInv' /\ RecordedIsPublished' /\ ContentionInv'
  BY DEF CSInv, PublishInv, Known, RecordedIsPublished, ContentionInv
<1> QED
  BY <1>1, <1>2 DEF CSInv

LEMMA StepKeeps == CSInv /\ [CSNext]_csVars => CSInv'
<1> SUFFICES ASSUME CSInv, CSNext PROVE CSInv'
  BY StutterKeeps
<1>1. CASE Delete \/ Others \/ \E u \in Uids : Create(u)
  BY <1>1, OthersKeep DEF Create, Delete, Others
<1>2. CASE \/ Restart \/ Record \/ RecordFails
           \/ \E u \in Uids : Call(u) \/ Unprepare(u) \/ Take(u)
  BY <1>2, HandlersKeep
<1>3. CASE Get \/ GetFails \/ Update \/ UpdateFails \/ Conflicts \/ GivesUp
  BY <1>3, UpdatesKeep
<1> QED
  BY <1>1, <1>2, <1>3 DEF CSNext, HandlerStep

\* Prepare and updateDeviceStatus keep the inductive invariant, whatever others write.
THEOREM StatusInvariant == CSSpec => []CSInv
<1> QED
  BY InitHolds, StepKeeps, PTL DEF CSSpec

\* Types, and that status.devices only ever has entries for allocated devices.
THEOREM StatusTypeCorrect == CSSpec => []CSTypeOK
<1>1. CSInv => CSTypeOK
  BY DEF CSInv
<1> QED
  BY <1>1, StatusInvariant, PTL

\* What Prepare has recorded in the checkpoint, and will not publish again, has been
\* published, or the driver knows why not.
THEOREM RecordedIsPublishedAlways == CSSpec => []RecordedIsPublished
<1>1. CSInv => RecordedIsPublished
  BY DEF CSInv
<1> QED
  BY <1>1, StatusInvariant, PTL

\* RetryOnConflict around Get and UpdateStatus: for any number of steps, a conflict
\* is given up only after as many writes of others.
THEOREM GivesUpLate == CSSpec => []GivesUpOnlyWhenContended
<1>1. CSInv => GivesUpOnlyWhenContended
  BY DEF CSInv, ContentionInv, GivesUpOnlyWhenContended
<1> QED
  BY <1>1, StatusInvariant, PTL

\* The driver's entries for a claim survive every later handler of the same claim.
THEOREM PublishedDataStaysAlways == CSSpec => PublishedDataStays
<1> DEFINE Stays == stored' = stored /\ uid \in {stored, None} =>
                      devices \cap Own \subseteq devices'
<1>1. ASSUME CSInv, [CSNext]_csVars
      PROVE  Stays
  <2>1. CASE Update
    <3>1. uid # None /\ devices' = Ours(uid)
      BY <1>1, <2>1 DEF CSInv, CSTypeOK, PublishInv, Update, Statuses
    <3>2. stored # None => devices \subseteq Alloc[stored]
      BY <1>1 DEF CSInv, CSTypeOK
    <3> QED
      BY <3>1, <3>2 DEF Ours
  <2>2. CASE Delete \/ \E u \in Uids : Create(u)
    BY <2>2, ClaimStatusAssumption DEF Delete, Create
  <2>3. CASE Others
    BY <2>3 DEF Others
  <2>4. CASE UNCHANGED devices
    BY <2>4
  <2>5. \/ Update \/ Delete \/ Others \/ UNCHANGED devices
        \/ \E u \in Uids : Create(u)
    <3>1. ASSUME NEW u \in Uids, Call(u) \/ Unprepare(u) \/ Take(u)
          PROVE  UNCHANGED devices
      BY <3>1 DEF Call, Unprepare, Take, Refuse, Restored, Skips, Publishes, Begin,
                  cluster
    <3>2. CASE Restart \/ HandlerStep
      BY <3>2 DEF Restart, HandlerStep, Get, GetFails, UpdateFails, Conflicts, GivesUp,
                  Record, RecordFails, Answer, cluster
    <3> QED
      BY <1>1, <3>1, <3>2 DEF CSNext, csVars, cluster
  <2> QED
    BY <2>1, <2>2, <2>3, <2>4, <2>5
<1> QED
  BY <1>1, StatusInvariant, PTL DEF CSSpec, PublishedDataStays
================================================================================

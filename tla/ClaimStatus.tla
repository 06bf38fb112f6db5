------------------------------ MODULE ClaimStatus ------------------------------
(***************************************************************************)
(* status.devices of a ResourceClaim: the side effect of prepareDevices on *)
(* the API server.  One name in a namespace, under which a claim may be    *)
(* deleted and another one created; the handlers that prepare either; and  *)
(* everybody else who writes to the claim.                                 *)
(*                                                                         *)
(* A handler is here what lies between its lock and its answer; the files  *)
(* are in module DeviceState.  The API server's optimistic concurrency is  *)
(* one bit: whether the handler's copy of the claim is still the latest.   *)
(***************************************************************************)
EXTENDS Naturals, FiniteSets

CONSTANTS
  Uids,     \* the UIDs of the claims that have the name, one after the other
  Devices,  \* allocation results, known by their device
  Own,      \* those of this driver
  Alloc,    \* Alloc[u]: the devices allocated to claim u
  Steps,    \* retry.DefaultRetry.Steps
  None

ASSUME ClaimStatusAssumption ==
  /\ None \notin Uids
  /\ Own \subseteq Devices
  /\ Alloc \in [Uids -> SUBSET Devices]
  /\ Steps \in Nat \ {0}

VARIABLES
  stored,      \* the UID of the claim that has the name, or None
  past,        \* the UIDs that had it before
  devices,     \* the devices with an entry in its status.devices
  enabled,     \* the gpu-device-status flag of this process
  recorded,    \* the claims in the checkpoint
  queued,      \* the claims of calls that wait for the lock
  pc,          \* of the handler that has it: idle, get, update or record
  uid,         \* the claim it prepares
  attempt,     \* the round of RetryOnConflict
  fresh,       \* the claim it got is the latest version of the object
  outcome,     \* what updateDeviceStatus returned to the handler
  contention,  \* writes of others since the handler began, up to Steps
  excused      \* the claims whose entries the driver knows may be missing

cluster == <<stored, past, devices>>
handler == <<pc, uid, attempt, fresh, outcome>>
csVars == <<cluster, enabled, recorded, queued, handler, contention, excused>>

CSTypeOK ==
  /\ stored \in Uids \cup {None}
  /\ past \subseteq Uids
  /\ devices \subseteq Devices
  /\ enabled \in BOOLEAN
  /\ recorded \subseteq Uids
  /\ queued \subseteq Uids
  /\ pc \in {"idle", "get", "update", "record"}
  /\ uid \in Uids \cup {None}
  /\ pc # "idle" => uid # None
  /\ attempt \in 1 .. Steps
  /\ fresh \in BOOLEAN
  /\ outcome \in {"none", "ok", "conflict", "error"}
  /\ contention \in 0 .. Steps
  /\ excused \subseteq Uids
  /\ stored \notin past
  /\ devices \subseteq (IF stored = None THEN {} ELSE Alloc[stored])

CSInit ==
  /\ stored = None
  /\ past = {}
  /\ devices = {}
  /\ enabled \in BOOLEAN
  /\ recorded = {}
  /\ queued = {}
  /\ pc = "idle"
  /\ uid = None
  /\ attempt = 1
  /\ fresh = FALSE
  /\ outcome = "none"
  /\ contention = 0
  /\ excused = {}

--------------------------------------------------------------------------------
(***************************************************************************)
(* The cluster and the kubelet.                                            *)
(***************************************************************************)

\* Somebody else writes the object: the handler's copy is an old one now.
Foreign ==
  /\ fresh' = FALSE
  /\ contention' = IF contention < Steps THEN contention + 1 ELSE Steps
  /\ UNCHANGED <<enabled, recorded, queued, pc, uid, attempt, outcome, excused>>

\* A claim of this name is created and allocated.
Create(u) ==
  /\ stored = None
  /\ u \notin past
  /\ stored' = u
  /\ devices' = {}
  /\ UNCHANGED past
  /\ Foreign

\* It is deleted, its pods with it, whether or not a handler is at work on it.
Delete ==
  /\ stored # None
  /\ past' = past \cup {stored}
  /\ stored' = None
  /\ devices' = {}
  /\ Foreign

\* Another driver adds its entries, or somebody writes another field.
Others ==
  /\ stored # None
  /\ \/ devices' = devices \cup (Alloc[stored] \ Own)
     \/ UNCHANGED devices
  /\ UNCHANGED <<stored, past>>
  /\ Foreign

\* The helper fetches the claim, compares its UID with the kubelet's, and waits
\* for the lock.
Call(u) ==
  /\ stored = u
  /\ queued' = queued \cup {u}
  /\ UNCHANGED <<cluster, enabled, recorded, handler, contention, excused>>

Unprepare(u) ==
  /\ pc = "idle"
  /\ u \in recorded
  /\ recorded' = recorded \ {u}
  /\ UNCHANGED <<cluster, enabled, queued, handler, contention, excused>>

\* A crash, and a start with the flag on or off.
Restart ==
  /\ enabled' \in BOOLEAN
  /\ queued' = {}
  /\ pc' = "idle"
  /\ uid' = None
  /\ attempt' = 1
  /\ fresh' = FALSE
  /\ outcome' = "none"
  /\ contention' = 0
  /\ UNCHANGED <<cluster, recorded, excused>>

--------------------------------------------------------------------------------
(***************************************************************************)
(* Prepare, with the lock.                                                 *)
(***************************************************************************)

Ours(u) == Alloc[u] \cap Own

\* deviceStatuses: BuildDeviceStatus has nothing to say while the flag is off.
Statuses(u) == IF enabled THEN Ours(u) ELSE {}

\* The checkpoint cannot be read, or the claim's config not applied.
Refuse(u) ==
  /\ pc = "idle"
  /\ u \in queued
  /\ queued' = queued \ {u}
  /\ UNCHANGED <<cluster, enabled, recorded, handler, contention, excused>>

\* A claim in the checkpoint is answered from it; nothing is published.
Restored(u) ==
  /\ pc = "idle"
  /\ u \in queued
  /\ u \in recorded
  /\ queued' = queued \ {u}
  /\ UNCHANGED <<cluster, enabled, recorded, handler, contention, excused>>

\* A handler that goes on, to pc = next.
Begin(u, next) ==
  /\ pc = "idle"
  /\ u \in queued
  /\ u \notin recorded
  /\ uid' = u
  /\ pc' = next
  /\ attempt' = 1
  /\ fresh' = FALSE
  /\ outcome' = "none"
  /\ contention' = 0
  /\ UNCHANGED <<cluster, enabled, queued>>

\* Mutant of Skips: an empty list of statuses is published like any other.
SkipsNothing(u) ==
  /\ Statuses(u) = {}
  /\ Begin(u, "get")
  /\ UNCHANGED <<recorded, excused>>

Skips(u) ==
  /\ Statuses(u) = {}
  /\ Begin(u, "record")
  /\ excused' = excused \cup {u}
  /\ UNCHANGED recorded

\* Mutant of Publishes: the claim is recorded before its status is published.
PublishesRecorded(u) ==
  /\ Statuses(u) # {}
  /\ Begin(u, "get")
  /\ recorded' = recorded \cup {u}
  /\ UNCHANGED excused

Publishes(u) ==
  /\ Statuses(u) # {}
  /\ Begin(u, "get")
  /\ UNCHANGED <<recorded, excused>>

--------------------------------------------------------------------------------
(***************************************************************************)
(* updateDeviceStatus: Get and UpdateStatus under RetryOnConflict.         *)
(***************************************************************************)

\* updateDeviceStatus returns: Prepare goes on whatever the outcome.
Done(o) ==
  /\ pc' = "record"
  /\ outcome' = o
  /\ UNCHANGED <<enabled, recorded, queued, uid, attempt, fresh, contention>>

Get ==
  /\ pc = "get"
  /\ stored # None
  /\ pc' = "update"
  /\ fresh' = TRUE
  /\ UNCHANGED <<cluster, enabled, recorded, queued, uid, attempt, outcome,
                 contention, excused>>

\* No claim has the name, or the server is not reached.
GetFails ==
  /\ pc = "get"
  /\ excused' = excused \cup {uid}
  /\ Done("error")
  /\ UNCHANGED cluster

\* The server refuses entries for devices that are not allocated to the claim it
\* has, which is the claim of this name, whatever its UID.
Accepted == Statuses(uid) \subseteq Alloc[stored]

\* The whole list is replaced; the response may not be heard.
Update ==
  /\ pc = "update"
  /\ fresh
  /\ Accepted
  /\ devices' = Statuses(uid)
  /\ excused' = IF stored = uid THEN excused \ {uid} ELSE excused \cup {stored}
  /\ \E o \in {"ok", "error"} : Done(o)
  /\ UNCHANGED <<stored, past>>

UpdateFails ==
  /\ pc = "update"
  /\ excused' = excused \cup {uid}
  /\ Done("error")
  /\ UNCHANGED cluster

\* Mutant of Conflicts: the claim is read once, outside of the retried function.
ConflictsReadOnce ==
  /\ pc = "update"
  /\ ~fresh
  /\ stored # None
  /\ attempt < Steps
  /\ attempt' = attempt + 1
  /\ UNCHANGED <<cluster, enabled, recorded, queued, pc, fresh, uid, outcome,
                 contention, excused>>

\* Mutant of Conflicts: retried as long as it takes.
ConflictsForEver ==
  /\ pc = "update"
  /\ ~fresh
  /\ stored # None
  /\ pc' = "get"
  /\ UNCHANGED <<cluster, enabled, recorded, queued, uid, attempt, fresh, outcome,
                 contention, excused>>

\* Mutant of Conflicts: one attempt more than there are steps.
ConflictsOneMore ==
  /\ pc = "update"
  /\ ~fresh
  /\ stored # None
  /\ attempt <= Steps
  /\ attempt' = attempt + 1
  /\ pc' = "get"
  /\ UNCHANGED <<cluster, enabled, recorded, queued, uid, fresh, outcome,
                 contention, excused>>

Conflicts ==
  /\ pc = "update"
  /\ ~fresh
  /\ stored # None
  /\ attempt < Steps
  /\ attempt' = attempt + 1
  /\ pc' = "get"
  /\ UNCHANGED <<cluster, enabled, recorded, queued, uid, fresh, outcome,
                 contention, excused>>

GivesUp ==
  /\ pc = "update"
  /\ ~fresh
  /\ stored # None
  /\ attempt = Steps
  /\ excused' = excused \cup {uid}
  /\ Done("conflict")
  /\ UNCHANGED cluster

--------------------------------------------------------------------------------
(***************************************************************************)
(* The rest of Prepare: the CDI spec file and the checkpoint.              *)
(***************************************************************************)

Answer ==
  /\ pc = "record"
  /\ pc' = "idle"
  /\ uid' = None
  /\ outcome' = "none"
  /\ queued' = queued \ {uid}
  /\ UNCHANGED <<cluster, enabled, attempt, fresh, contention, excused>>

Record ==
  /\ recorded' = recorded \cup {uid}
  /\ Answer

RecordFails ==
  /\ UNCHANGED recorded
  /\ Answer

HandlerStep ==
  \/ Get
  \/ GetFails
  \/ Update
  \/ UpdateFails
  \/ Conflicts
  \/ GivesUp
  \/ Record
  \/ RecordFails

Take(u) == Refuse(u) \/ Restored(u) \/ Skips(u) \/ Publishes(u)

CSNext ==
  \/ \E u \in Uids : Create(u) \/ Call(u) \/ Take(u) \/ Unprepare(u)
  \/ Delete
  \/ Others
  \/ Restart
  \/ HandlerStep

CSSpec == CSInit /\ [][CSNext]_csVars

\* The handler's calls end, by the client's timeouts if need be; the lock is given
\* to a waiter in the end.
CSFairSpec ==
  /\ CSSpec
  /\ WF_csVars(HandlerStep)
  /\ \A u \in Uids : SF_csVars(Take(u))

--------------------------------------------------------------------------------
(***************************************************************************)
(* Properties.                                                             *)
(***************************************************************************)

\* A claim in the checkpoint is never published again, so what is missing when it
\* is recorded stays missing.  It is there unless the flag was off, the update
\* was answered with an error, or a late handler of the deleted claim that had
\* the name before has written its own list over it.
RecordedIsPublished ==
  \A u \in recorded \ excused : stored = u => Ours(u) \subseteq devices

\* The data is kept "so past allocations can still be correlated" (gpu.go): once
\* published it is not taken back by preparing the same claim again, be it after
\* an Unprepare or with the flag off.
PublishedDataStays ==
  [][stored' = stored /\ uid \in {stored, None} => devices \cap Own \subseteq devices']_csVars

\* A handler gives a conflict up only when others have written the claim as often
\* as it has tried: every attempt starts from a new copy.
GivesUpOnlyWhenContended == outcome = "conflict" => contention = Steps

\* Whoever else writes the claim, and how often, every call is answered: the
\* handler holds the lock of all handlers while it tries.
CallAnswered == \A u \in Uids : u \in queued ~> u \notin queued

\* "add allocated device attributes into ResourceClaim.status.devices[].data via
\* server-side apply" (values.yaml): the entries of others are left alone.
OtherEntriesKept == [][stored' = stored => devices \ Own \subseteq devices']_csVars
================================================================================

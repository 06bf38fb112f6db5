------------------------------ MODULE DeviceState ------------------------------
(***************************************************************************)
(* The kubelet plugin's DeviceState: the gRPC handlers Prepare and         *)
(* Unprepare, the two kinds of file they maintain (the checkpoint and one  *)
(* CDI spec file per claim), the locks they run under, and the process     *)
(* they live in.  Who calls the handlers, and when, is module NodeClaims.  *)
(*                                                                         *)
(* A handler is a small program counter machine.  It stops at every point  *)
(* where a crash, an error or another process can be told apart:           *)
(*                                                                         *)
(*   waiting -> entered -> locked -> publish -> cdi  -> save -> ok/failed  *)
(*                                 \-> remove        -> save -> ok/failed  *)
(*                                                                         *)
(* One handler serves one claim: PrepareResourceClaims and                 *)
(* UnprepareResourceClaims (driver.go) loop over a batch, calling Prepare  *)
(* or Unprepare once per claim and sharing nothing between the rounds.     *)
(***************************************************************************)
EXTENDS Naturals

CONSTANTS
  Claims,       \* UIDs of ResourceClaims
  Allocations,  \* claim.Status.Allocation values with a result for this driver
  Rejected,     \* the allocations for which computeDeviceConfig returns an error
  Instances,    \* plugin processes that share the node's directories
  Calls,        \* slots for the handlers that run at the same time
  None,         \* no file, no lock holder, no value
  Serialize,    \* the helper serializes the calls of all instances
  CdiVolatile,  \* the CDI root does not survive a reboot (/var/run/cdi)
  ReadFaults,   \* readCheckpoint may return an error
  MaxFaults     \* bound on crashes, reboots and I/O errors

ASSUME ConstantsAssumption ==
  /\ Rejected \subseteq Allocations
  /\ {Serialize, CdiVolatile, ReadFaults} \subseteq BOOLEAN
  /\ MaxFaults \in Nat
  /\ None \notin Claims \cup Allocations \cup Instances \cup Calls

VARIABLES
  checkpoint,   \* the UIDs in checkpoint.json (PreparedClaims)
  cdi,          \* cdi[c]: the allocation written in c's CDI spec file, or None
  common,       \* the common CDI spec file exists
  up,           \* up[i]: process i serves gRPC
  mutex,        \* mutex[i]: the call that holds i's DeviceState lock
  helperLock,   \* the call that holds the helper's cross-process lock
  call,         \* call[k]: the handler in slot k
  faults        \* crashes, reboots and I/O errors so far

files == <<checkpoint, cdi, common>>
locks == <<mutex, helperLock>>
pluginVars == <<checkpoint, cdi, common, up, mutex, helperLock, call, faults>>

Answers == {"ok", "failed"}
Critical == {"locked", "publish", "cdi", "remove", "save"}
Steps == {"waiting", "entered"} \cup Critical \cup Answers

NoCall == [pc |-> "free", op |-> None, claim |-> None, alloc |-> None,
           inst |-> None, copy |-> {}, awaited |-> FALSE]

\* alloc is the claim object the helper read before the handler runs; copy is
\* the handler's in-memory Checkpoint; awaited: the caller has not given up.
HandlerCall == [pc : Steps, op : {"Prepare", "Unprepare"}, claim : Claims,
                alloc : Allocations \cup {None}, inst : Instances,
                copy : SUBSET Claims, awaited : BOOLEAN]

DeviceStateTypeOK ==
  /\ checkpoint \in SUBSET Claims
  /\ cdi \in [Claims -> Allocations \cup {None}]
  /\ common \in BOOLEAN
  /\ up \in [Instances -> BOOLEAN]
  /\ mutex \in [Instances -> Calls \cup {None}]
  /\ helperLock \in Calls \cup {None}
  /\ call \in [Calls -> HandlerCall \cup {NoCall}]
  /\ faults \in Nat

DeviceStateInit ==
  /\ checkpoint = {}
  /\ cdi = [c \in Claims |-> None]
  /\ common = FALSE
  /\ up = [i \in Instances |-> FALSE]
  /\ mutex = [i \in Instances |-> None]
  /\ helperLock = None
  /\ call = [k \in Calls |-> NoCall]
  /\ faults = 0

--------------------------------------------------------------------------------
(***************************************************************************)
(* Building blocks.                                                        *)
(***************************************************************************)

Active(k) == call[k].pc # "free"
At(k, op, pc) == call[k].op = op /\ call[k].pc = pc

\* An I/O error, a crash or a reboot: MaxFaults of them in a behaviour.
Fault == faults < MaxFaults /\ faults' = faults + 1

Goto(k, pc) == call' = [call EXCEPT ![k].pc = pc]

\* Mutant of Return: an error path that keeps the DeviceState locked.
ReturnLocked(k, answer) ==
  /\ call' = [call EXCEPT ![k].pc = answer, ![k].copy = {}]
  /\ mutex' = [mutex EXCEPT ![call[k].inst] = IF answer = "ok" THEN None ELSE @]
  /\ helperLock' = None

\* The handler returns: the deferred Unlock runs and the helper lets go of its
\* lock.  The answer stays in the slot until the caller reads it.
Return(k, answer) ==
  /\ call' = [call EXCEPT ![k].pc = answer, ![k].copy = {}]
  /\ mutex' = [mutex EXCEPT ![call[k].inst] = None]
  /\ helperLock' = None

\* writeCheckpoint: a temporary file renamed over the checkpoint.  An error
\* before the rename leaves the old file; the deferred Close can still turn
\* the call into an error after the rename.
WriteCheckpoint(new, err) ==
  checkpoint' \in IF err THEN {checkpoint, new} ELSE {new}

\* What is left of handler k when process i dies: nothing answers any more, and
\* a caller that still waits sees its call fail.
Aborted(k, i) ==
  IF call[k].inst # i THEN call[k]
  ELSE IF call[k].awaited THEN [call[k] EXCEPT !.pc = "failed", !.copy = {}]
  ELSE NoCall

Die(i) ==
  /\ up' = [up EXCEPT ![i] = FALSE]
  /\ call' = [k \in Calls |-> Aborted(k, i)]
  /\ mutex' = [mutex EXCEPT ![i] = None]
  /\ helperLock' = IF \E k \in Calls : helperLock = k /\ call[k].inst = i
                     THEN None ELSE helperLock

--------------------------------------------------------------------------------
(***************************************************************************)
(* Entering a handler: the helper's lock first, then the DeviceState's.    *)
(***************************************************************************)

\* Mutant of Enter: the processes do not wait for each other.
EnterUnserialized(k) ==
  /\ call[k].pc = "waiting"
  /\ helperLock' = IF Serialize THEN k ELSE None
  /\ Goto(k, "entered")
  /\ UNCHANGED <<files, up, mutex, faults>>

\* The helper serializes the Prepare and Unprepare calls of every instance that
\* shares the plugin directory, unless that option is off.
Enter(k) ==
  /\ call[k].pc = "waiting"
  /\ Serialize => helperLock = None
  /\ helperLock' = IF Serialize THEN k ELSE None
  /\ Goto(k, "entered")
  /\ UNCHANGED <<files, up, mutex, faults>>

\* Mutant of Lock: the DeviceState is not locked against other handlers.
LockShared(k) ==
  LET i == call[k].inst IN
  /\ call[k].pc = "entered"
  /\ mutex' = [mutex EXCEPT ![i] = k]
  /\ Goto(k, "locked")
  /\ UNCHANGED <<files, up, helperLock, faults>>

\* s.Lock(): one handler at a time in a process.
Lock(k) ==
  LET i == call[k].inst IN
  /\ call[k].pc = "entered"
  /\ mutex[i] = None
  /\ mutex' = [mutex EXCEPT ![i] = k]
  /\ Goto(k, "locked")
  /\ UNCHANGED <<files, up, helperLock, faults>>

--------------------------------------------------------------------------------
(***************************************************************************)
(* Prepare.                                                                *)
(***************************************************************************)

\* readCheckpoint fails: so does the call.
PrepareReadFails(k) ==
  /\ At(k, "Prepare", "locked")
  /\ ReadFaults /\ Fault
  /\ Return(k, "failed")
  /\ UNCHANGED <<files, up>>

\* computeDeviceConfig rejects the allocation, whether it was called to restore
\* the claim or to prepare it.
PrepareRejects(k) ==
  /\ At(k, "Prepare", "locked")
  /\ call[k].alloc \in Rejected
  /\ Return(k, "failed")
  /\ UNCHANGED <<files, up, faults>>

\* Mutant of PrepareRestores: the CDI spec file is taken for the checkpoint.
PrepareRestoresFromSpec(k) ==
  /\ At(k, "Prepare", "locked")
  /\ call[k].alloc \notin Rejected
  /\ cdi[call[k].claim] # None
  /\ Return(k, "ok")
  /\ UNCHANGED <<files, up, faults>>

\* restoreClaimFromCheckpoint: a claim in the checkpoint is answered from the
\* claim object alone.  (The devices it returns are never nil: an allocation
\* has a result for this driver.)
PrepareRestores(k) ==
  /\ At(k, "Prepare", "locked")
  /\ call[k].alloc \notin Rejected
  /\ call[k].claim \in checkpoint
  /\ Return(k, "ok")
  /\ UNCHANGED <<files, up, faults>>

\* Mutant of PrepareComputes: the lock is let go while the API server answers.
PrepareComputesUnlocked(k) ==
  /\ At(k, "Prepare", "locked")
  /\ call[k].alloc \notin Rejected
  /\ call[k].claim \notin checkpoint
  /\ call' = [call EXCEPT ![k].pc = "publish", ![k].copy = checkpoint]
  /\ mutex' = [mutex EXCEPT ![call[k].inst] = None]
  /\ UNCHANGED <<files, up, helperLock, faults>>

\* A claim that is not in the checkpoint is prepared from scratch.
PrepareComputes(k) ==
  /\ At(k, "Prepare", "locked")
  /\ call[k].alloc \notin Rejected
  /\ call[k].claim \notin checkpoint
  /\ call' = [call EXCEPT ![k].pc = "publish", ![k].copy = checkpoint]
  /\ UNCHANGED <<files, up, locks, faults>>

\* Mutant of PreparePublishes: the entry carries no UID.
PreparePublishesNoUID(k) ==
  /\ At(k, "Prepare", "publish")
  /\ call' = [call EXCEPT ![k].pc = "cdi", ![k].copy = @ \cup {None}]
  /\ UNCHANGED <<files, up, locks, faults>>

\* updateDeviceStatus has returned, with or without an error (which is only
\* logged); then addClaimToCheckpoint.  The handler keeps its locks while the
\* API server answers.
PreparePublishes(k) ==
  /\ At(k, "Prepare", "publish")
  /\ call' = [call EXCEPT ![k].pc = "cdi", ![k].copy = @ \cup {call[k].claim}]
  /\ UNCHANGED <<files, up, locks, faults>>

\* CreateClaimSpecFile replaces the claim's CDI spec file.
PrepareWritesSpec(k) ==
  /\ At(k, "Prepare", "cdi")
  /\ cdi' = [cdi EXCEPT ![call[k].claim] = call[k].alloc]
  /\ Goto(k, "save")
  /\ UNCHANGED <<checkpoint, common, up, locks, faults>>

\* Mutant of PrepareSpecFails: the error of CreateClaimSpecFile is dropped.
PrepareSpecErrorIgnored(k) ==
  /\ At(k, "Prepare", "cdi")
  /\ Fault
  /\ Goto(k, "save")
  /\ UNCHANGED <<files, up, locks>>

PrepareSpecFails(k) ==
  /\ At(k, "Prepare", "cdi")
  /\ Fault
  /\ Return(k, "failed")
  /\ UNCHANGED <<files, up>>

--------------------------------------------------------------------------------
(***************************************************************************)
(* Unprepare.                                                              *)
(***************************************************************************)

\* Mutants of UnprepareReads: the handler writes the checkpoint before it deletes
\* the CDI spec file; it takes a claim that is not in the checkpoint for an error.
UnprepareErasesFirst(k) ==
  /\ At(k, "Unprepare", "locked")
  /\ call' = [call EXCEPT ![k].pc = "remove",
                          ![k].copy = checkpoint \ {call[k].claim}]
  /\ WriteCheckpoint(checkpoint \ {call[k].claim}, FALSE)
  /\ UNCHANGED <<cdi, common, up, locks, faults>>

UnprepareRequiresEntry(k) ==
  /\ At(k, "Unprepare", "locked")
  /\ IF call[k].claim \in checkpoint
       THEN /\ call' = [call EXCEPT ![k].pc = "remove",
                                    ![k].copy = checkpoint \ {call[k].claim}]
            /\ UNCHANGED locks
       ELSE Return(k, "failed")
  /\ UNCHANGED <<files, up, faults>>

\* readCheckpoint, unprepareDevices (which does nothing) and
\* removeClaimFromCheckpoint.  A claim that is not there is not an error.
UnprepareReads(k) ==
  /\ At(k, "Unprepare", "locked")
  /\ call' = [call EXCEPT ![k].pc = "remove",
                          ![k].copy = checkpoint \ {call[k].claim}]
  /\ UNCHANGED <<files, up, locks, faults>>

\* Mutant of UnprepareResets: with an empty checkpoint there is nothing to do.
UnprepareResetsOnly(k) ==
  /\ At(k, "Unprepare", "locked")
  /\ ReadFaults /\ Fault
  /\ WriteCheckpoint({}, FALSE)
  /\ Return(k, "ok")
  /\ UNCHANGED <<cdi, common, up>>

\* readCheckpoint fails: an empty checkpoint replaces the file, but the handler
\* goes on with the nil checkpoint the failed read returned and panics.
UnprepareResets(k) ==
  /\ At(k, "Unprepare", "locked")
  /\ ReadFaults /\ Fault
  /\ WriteCheckpoint({}, FALSE)
  /\ Die(call[k].inst)
  /\ UNCHANGED <<cdi, common>>

\* Neither the read nor the write of the empty checkpoint succeeds.
UnprepareResetFails(k) ==
  /\ At(k, "Unprepare", "locked")
  /\ ReadFaults /\ faults + 2 <= MaxFaults /\ faults' = faults + 2
  /\ WriteCheckpoint({}, TRUE)
  /\ Return(k, "failed")
  /\ UNCHANGED <<cdi, common, up>>

\* DeleteClaimSpecFile: a file that does not exist is not an error.
UnprepareDeletesSpec(k) ==
  /\ At(k, "Unprepare", "remove")
  /\ cdi' = [cdi EXCEPT ![call[k].claim] = None]
  /\ Goto(k, "save")
  /\ UNCHANGED <<checkpoint, common, up, locks, faults>>

\* Mutant of UnprepareDeleteFails: the error of DeleteClaimSpecFile is dropped.
UnprepareDeleteErrorIgnored(k) ==
  /\ At(k, "Unprepare", "remove")
  /\ Fault
  /\ Goto(k, "save")
  /\ UNCHANGED <<files, up, locks>>

UnprepareDeleteFails(k) ==
  /\ At(k, "Unprepare", "remove")
  /\ Fault
  /\ Return(k, "failed")
  /\ UNCHANGED <<files, up>>

--------------------------------------------------------------------------------
(***************************************************************************)
(* Both handlers end by writing their copy of the checkpoint.              *)
(***************************************************************************)

Save(k) ==
  /\ call[k].pc = "save"
  /\ WriteCheckpoint(call[k].copy, FALSE)
  /\ Return(k, "ok")
  /\ UNCHANGED <<cdi, common, up, faults>>

\* Mutant of SaveFails: the error of writeCheckpoint is only logged.
SaveErrorLogged(k) ==
  /\ call[k].pc = "save"
  /\ Fault
  /\ WriteCheckpoint(call[k].copy, TRUE)
  /\ Return(k, "ok")
  /\ UNCHANGED <<cdi, common, up>>

SaveFails(k) ==
  /\ call[k].pc = "save"
  /\ Fault
  /\ WriteCheckpoint(call[k].copy, TRUE)
  /\ Return(k, "failed")
  /\ UNCHANGED <<cdi, common, up>>

--------------------------------------------------------------------------------
(***************************************************************************)
(* The process.                                                            *)
(***************************************************************************)

\* CreateCommonSpecFile replaces the spec every prepared device refers to.
WriteCommonSpec == common' = TRUE

\* NewDriver: NewDeviceState writes the common spec file, then the gRPC service
\* starts.  Nothing of an earlier process is kept in memory.
Start(i) ==
  /\ ~up[i]
  /\ up' = [up EXCEPT ![i] = TRUE]
  /\ WriteCommonSpec
  /\ UNCHANGED <<checkpoint, cdi, locks, call, faults>>

\* Shutdown: the helper stops once its handlers have returned.
Shutdown(i) ==
  /\ up[i]
  /\ \A k \in Calls : call[k].inst # i
  /\ up' = [up EXCEPT ![i] = FALSE]
  /\ UNCHANGED <<files, locks, call, faults>>

Crash(i) ==
  /\ up[i]
  /\ Fault
  /\ Die(i)
  /\ UNCHANGED files

\* The node goes down with everything on it but its disk.
PowerCycle ==
  /\ Fault
  /\ up' = [i \in Instances |-> FALSE]
  /\ mutex' = [i \in Instances |-> None]
  /\ helperLock' = None
  /\ call' = [k \in Calls |-> NoCall]
  /\ IF CdiVolatile THEN cdi' = [c \in Claims |-> None] /\ common' = FALSE
                    ELSE UNCHANGED <<cdi, common>>
  /\ UNCHANGED checkpoint

--------------------------------------------------------------------------------
PrepareStep(k) ==
  \/ PrepareReadFails(k) \/ PrepareRejects(k) \/ PrepareRestores(k)
  \/ PrepareComputes(k) \/ PreparePublishes(k)
  \/ PrepareWritesSpec(k) \/ PrepareSpecFails(k)

UnprepareStep(k) ==
  \/ UnprepareReads(k) \/ UnprepareResets(k) \/ UnprepareResetFails(k)
  \/ UnprepareDeletesSpec(k) \/ UnprepareDeleteFails(k)

SaveStep(k) == Save(k) \/ SaveFails(k)

\* What the handler does once it holds its locks.
Handle(k) == PrepareStep(k) \/ UnprepareStep(k) \/ SaveStep(k)

ProcessStep(i) == Start(i) \/ Shutdown(i) \/ Crash(i)

DeviceStateNext ==
  \/ \E k \in Calls : Enter(k) \/ Lock(k) \/ Handle(k)
  \/ \E i \in Instances : ProcessStep(i)
================================================================================

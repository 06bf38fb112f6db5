------------------------------ MODULE NodeClaims ------------------------------
(***************************************************************************)
(* The kubelet plugin (DeviceState) on a node: the kubelet that asks for   *)
(* claims to be prepared and unprepared, retries, times out and restarts,  *)
(* the control plane that allocates and frees the claims, and the reboots  *)
(* of the machine.  The kubelet and the control plane are external code,   *)
(* modelled as driver.go and the DRA plugin API use them:                  *)
(*                                                                         *)
(*  - a claim is allocated when a pod that uses it is bound to the node    *)
(*    and stays so until the kubelet has been told it is unprepared;       *)
(*  - the kubelet calls until it gets "ok", and any number of times;       *)
(*  - it does not start to unprepare a claim while it still waits for an   *)
(*    answer about it (two pods that share a claim do prepare it at once); *)
(*  - Prepare is handed the claim object as it was when the call arrived,  *)
(*    before any lock was taken.                                           *)
(***************************************************************************)
EXTENDS DeviceState

CONSTANTS
  Abandon,  \* the kubelet may time out, or restart, while it waits
  Reuse     \* a pod may claim again what the kubelet was about to unprepare

ASSUME NodeAssumption == {Abandon, Reuse} \subseteq BOOLEAN

VARIABLES
  alloc,    \* alloc[c]: the allocation in c's status, or None
  kube      \* kube[c]: what the kubelet wants of c, or has been told of it

vars == <<pluginVars, alloc, kube>>

Wishes == {"idle", "want", "prepared", "release"}

TypeOK ==
  /\ DeviceStateTypeOK
  /\ alloc \in [Claims -> Allocations \cup {None}]
  /\ kube \in [Claims -> Wishes]

Init ==
  /\ DeviceStateInit
  /\ alloc = [c \in Claims |-> None]
  /\ kube = [c \in Claims |-> "idle"]

--------------------------------------------------------------------------------
(***************************************************************************)
(* The control plane and the pods (external).                              *)
(***************************************************************************)

Awaiting(k, c) == call[k].claim = c /\ call[k].awaited

Undecided(c) == \E k \in Calls : Awaiting(k, c)

Schedule(c) ==
  /\ kube[c] = "idle"
  /\ \E a \in Allocations : alloc' = [alloc EXCEPT ![c] = a]
  /\ kube' = [kube EXCEPT ![c] = "want"]
  /\ UNCHANGED pluginVars

PodGone(c) ==
  /\ kube[c] \in {"want", "prepared"}
  /\ ~Undecided(c)
  /\ kube' = [kube EXCEPT ![c] = "release"]
  /\ UNCHANGED <<pluginVars, alloc>>

\* Unprepare has failed so far when another pod needs the claim.
Rejoin(c) ==
  /\ Reuse
  /\ kube[c] = "release"
  /\ ~Undecided(c)
  /\ kube' = [kube EXCEPT ![c] = "want"]
  /\ UNCHANGED <<pluginVars, alloc>>

--------------------------------------------------------------------------------
(***************************************************************************)
(* The kubelet's calls (external), as PrepareResourceClaims and            *)
(* UnprepareResourceClaims receive them.                                   *)
(***************************************************************************)

Send(k, i, c, op, a) ==
  /\ ~Active(k)
  /\ up[i]
  /\ call' = [call EXCEPT ![k] =
       [pc |-> "waiting", op |-> op, claim |-> c, alloc |-> a,
        inst |-> i, copy |-> {}, awaited |-> TRUE]]
  /\ UNCHANGED <<files, locks, up, faults, alloc, kube>>

SendPrepare(k, i, c) ==
  /\ kube[c] = "want"
  /\ Send(k, i, c, "Prepare", alloc[c])

SendUnprepare(k, i, c) ==
  /\ kube[c] = "release"
  /\ ~Undecided(c)
  /\ Send(k, i, c, "Unprepare", None)

\* Slot k once its caller is gone.
Unawaited(k) == IF Active(k) THEN [call[k] EXCEPT !.awaited = FALSE] ELSE call[k]

\* The kubelet gives up on a call; the handler never learns of it.
GiveUp(k) ==
  /\ Abandon
  /\ call[k].awaited
  /\ call' = [call EXCEPT ![k].awaited = FALSE]
  /\ UNCHANGED <<files, locks, up, faults, alloc, kube>>

\* What an "ok" that is still awaited does to the kubelet's state of the claim.
Acknowledge(c, op) ==
  IF op = "Prepare"
    THEN /\ kube' = [kube EXCEPT ![c] = IF @ = "want" THEN "prepared" ELSE @]
         /\ UNCHANGED alloc
    ELSE /\ kube' = [kube EXCEPT ![c] = "idle"]
         /\ alloc' = [alloc EXCEPT ![c] = None]

Answer(k) ==
  /\ call[k].pc \in Answers
  /\ call' = [call EXCEPT ![k] = NoCall]
  /\ IF call[k].awaited /\ call[k].pc = "ok"
       THEN Acknowledge(call[k].claim, call[k].op)
       ELSE UNCHANGED <<alloc, kube>>
  /\ UNCHANGED <<files, locks, up, faults>>

\* After a restart the kubelet knows its claims but prepares them all again.
Forgotten == [c \in Claims |-> IF kube[c] = "prepared" THEN "want" ELSE kube[c]]

KubeletRestart ==
  /\ Abandon \/ \A k \in Calls : ~call[k].awaited
  /\ call' = [k \in Calls |-> Unawaited(k)]
  /\ kube' = Forgotten
  /\ UNCHANGED <<files, locks, up, faults, alloc>>

Reboot ==
  /\ PowerCycle
  /\ kube' = Forgotten
  /\ UNCHANGED alloc

--------------------------------------------------------------------------------
PluginStep == DeviceStateNext /\ UNCHANGED <<alloc, kube>>

KubeletStep(k) ==
  \/ \E i \in Instances, c \in Claims : SendPrepare(k, i, c) \/ SendUnprepare(k, i, c)
  \/ GiveUp(k)
  \/ Answer(k)

Next ==
  \/ PluginStep
  \/ \E c \in Claims : Schedule(c) \/ PodGone(c) \/ Rejoin(c)
  \/ \E k \in Calls : KubeletStep(k)
  \/ KubeletRestart
  \/ Reboot

Spec == Init /\ [][Next]_vars

(***************************************************************************)
(* A started process runs, a handler that holds its locks goes on, and a   *)
(* finished one is answered.  sync.Mutex does not starve a waiter; the     *)
(* helper's file lock is polled by every waiter until it gets it; and the  *)
(* kubelet calls about every claim that needs it as long as there is room  *)
(* for one more call.                                                      *)
(***************************************************************************)
Fairness ==
  /\ \A i \in Instances : WF_vars(Start(i) /\ UNCHANGED <<alloc, kube>>)
  /\ \A k \in Calls :
       /\ SF_vars(Enter(k) /\ UNCHANGED <<alloc, kube>>)
       /\ SF_vars(Lock(k) /\ UNCHANGED <<alloc, kube>>)
       /\ WF_vars(Handle(k) /\ UNCHANGED <<alloc, kube>>)
       /\ WF_vars(Answer(k))
  /\ \A c \in Claims :
       /\ SF_vars(\E k \in Calls, i \in Instances : SendPrepare(k, i, c))
       /\ SF_vars(\E k \in Calls, i \in Instances : SendUnprepare(k, i, c))

FairSpec == Spec /\ Fairness

--------------------------------------------------------------------------------
(***************************************************************************)
(* Safety.                                                                 *)
(***************************************************************************)

\* A claim the kubelet was told is prepared can be injected: its CDI spec file
\* is there and carries the allocation the claim has now.  Prepare answers a
\* claim found in the checkpoint without looking at that file (state.go:163).
PreparedInjectable ==
  \A c \in Claims : kube[c] = "prepared" => common /\ cdi[c] = alloc[c]

\* A claim the kubelet was told is prepared is in the checkpoint, so that the
\* next process answers it from there.
PreparedRecorded ==
  \A c \in Claims : kube[c] = "prepared" => c \in checkpoint

\* A claim the kubelet was told is unprepared has left nothing on the node, and
\* no handler can bring it back: the kubelet will not call about it again.
NothingLeftBehind ==
  \A c \in Claims : kube[c] = "idle" =>
    /\ c \notin checkpoint
    /\ cdi[c] = None
    /\ \A k \in Calls : call[k].claim # c

\* A handler that has entered holds the helper's lock, where there is one; past
\* its s.Lock() it holds that of its process.
HandlersHoldLocks ==
  \A k \in Calls :
    /\ call[k].pc \in Critical => mutex[call[k].inst] = k
    /\ Serialize /\ call[k].pc \in {"entered"} \cup Critical => helperLock = k

\* Either the helper serializes all calls or there is only one process to lock.
Exclusive == Serialize \/ \A i, j \in Instances : i = j

\* At most one handler of the node is between its s.Lock() and its return.
OneHandler ==
  \A k, m \in Calls : {call[k].pc, call[m].pc} \subseteq Critical => k = m

\* What a handler read of the checkpoint is still true when it writes it back:
\* its copy differs from the file by its own claim and nothing else, and when it
\* is about to write, the claim's CDI spec file already agrees with the copy.
CopyCurrent(k) ==
  LET c == call[k].claim
      preparing == call[k].op = "Prepare" IN
  /\ call[k].pc = "publish" => preparing /\ call[k].copy = checkpoint
  /\ call[k].pc = "cdi" => preparing
  /\ call[k].pc \in {"publish", "cdi", "save"} /\ preparing => c \notin checkpoint
  /\ call[k].pc \in {"cdi", "save"} /\ preparing => call[k].copy = checkpoint \cup {c}
  /\ call[k].pc = "remove" => ~preparing
  /\ call[k].pc \in {"remove", "save"} /\ ~preparing => call[k].copy = checkpoint \ {c}
  /\ call[k].pc = "save" => cdi[c] = IF preparing THEN call[k].alloc ELSE None

CopiesCurrent == \A k \in Calls : CopyCurrent(k)

\* What makes the locks sufficient, whatever the kubelet and the machine do.
LockInv == TypeOK /\ HandlersHoldLocks /\ CopiesCurrent

\* A CDI spec file never carries an allocation its claim no longer has: whatever is
\* missing on the node, the wrong devices are not injected.
SpecNeverStale == \A c \in Claims : cdi[c] \in {None, alloc[c]}

\* A call is about a claim in the state it was sent for, and Unprepare has the
\* claim for itself.
CallsMatchWishes ==
  \A k \in Calls : Active(k) =>
    /\ call[k].awaited
    /\ call[k].op = "Prepare" =>
         /\ kube[call[k].claim] \in {"want", "prepared"}
         /\ call[k].alloc = alloc[call[k].claim]
    /\ call[k].op = "Unprepare" =>
         /\ kube[call[k].claim] = "release"
         /\ \A m \in Calls : Active(m) /\ call[m].claim = call[k].claim => m = k

\* An "ok" that is still on its way is true of the checkpoint.
OksAreRecorded ==
  \A k \in Calls : call[k].pc = "ok" =>
    LET c == call[k].claim IN
    IF call[k].op = "Prepare" THEN ReadFaults \/ c \in checkpoint
                              ELSE cdi[c] = None /\ c \notin checkpoint

\* The kubelet's state of a claim is backed by the checkpoint.
WishesAreRecorded ==
  \A c \in Claims :
    /\ kube[c] = "idle" => c \notin checkpoint
    /\ kube[c] = "idle" <=> alloc[c] = None
    /\ kube[c] = "prepared" => ReadFaults \/ c \in checkpoint

\* A kubelet that waits for its answers.  Then the calls, the kubelet and the
\* checkpoint agree on every claim, even if the CDI root is lost in a reboot, or a
\* claim is used again before it is unprepared.
Patient == ~Abandon

PatientInv ==
  /\ CallsMatchWishes
  /\ OksAreRecorded
  /\ WishesAreRecorded
  /\ SpecNeverStale

\* An "ok" of Prepare that is still on its way is true of the CDI spec file.
OksAreInjectable ==
  \A k \in Calls : call[k].pc = "ok" /\ call[k].op = "Prepare" =>
    cdi[call[k].claim] = alloc[call[k].claim]

\* The checkpoint can be trusted about a claim that is in use: its CDI spec file
\* is the one of its allocation.  (Of a claim in "release" it cannot.)
CheckpointTrusted ==
  \A c \in Claims :
    /\ kube[c] \in {"want", "prepared"} /\ c \in checkpoint => cdi[c] = alloc[c]
    /\ kube[c] = "prepared" => common /\ cdi[c] = alloc[c]

CommonSpecThere ==
  /\ \A i \in Instances : up[i] => common
  /\ \A k \in Calls : Active(k) => common

\* A kubelet that waits for its answers and does not change its mind, and a CDI
\* root that survives a reboot.
Orderly == Patient /\ ~Reuse /\ ~CdiVolatile

\* The files, the calls and the kubelet agree on every claim, on an orderly node.
ClaimInv ==
  /\ PatientInv
  /\ OksAreInjectable
  /\ CheckpointTrusted
  /\ CommonSpecThere

\* The checkpoint is read, changed in memory and written as a whole: no step
\* adds or drops the entry of a claim its handler was not called for.
OnlyOwnEntry ==
  [][\A c \in Claims : (c \in checkpoint) # (c \in checkpoint') =>
       \E k \in Calls : call[k].pc = "save" /\ call[k].claim = c]_vars

\* The same where reads of the checkpoint may fail: then only the reset that
\* Unprepare does drops the entries of other claims, and it drops them all.
OwnEntryOrReset ==
  [][\/ \A c \in Claims : (c \in checkpoint) # (c \in checkpoint') =>
          \E k \in Calls : call[k].pc = "save" /\ call[k].claim = c
     \/ checkpoint' = {} /\ \E k \in Calls : At(k, "Unprepare", "locked")]_vars

\* Whatever the kubelet, other calls and other processes did meanwhile, when
\* Prepare or Unprepare has done its work both files say so at that moment.
AnswersAreBacked ==
  [][\A k \in Calls : call[k].pc = "save" /\ call'[k].pc = "ok" =>
       LET c == call[k].claim IN
       IF call[k].op = "Prepare"
         THEN c \in checkpoint' /\ cdi'[c] = call[k].alloc
         ELSE c \notin checkpoint' /\ cdi'[c] = None]_vars

\* Once a claim is recorded, its CDI spec file and its entry stay as they are for as
\* long as a pod may use it: no retry, no handler of another claim and no recovery
\* rewrites them under a container that is being started.
InUseLeftAlone ==
  [][\A c \in checkpoint : kube[c] \in {"want", "prepared"} =>
       c \in checkpoint' /\ cdi'[c] = cdi[c]]_vars

\* An "ok" from the checkpoint is as good as a fresh one: the devices it names
\* are in a CDI spec file.
RestoredInjectable ==
  [][\A k \in Calls :
       At(k, "Prepare", "locked") /\ call'[k].pc = "ok" =>
         cdi[call[k].claim] = call[k].alloc]_vars

\* An Unprepare that puts an empty checkpoint in the place of one it cannot read
\* goes on from there: its process is still up.
UnprepareSurvives ==
  [][\A k \in Calls : At(k, "Unprepare", "locked") /\ checkpoint' # checkpoint =>
       up'[call[k].inst]]_vars

(***************************************************************************)
(* Progress.                                                               *)
(***************************************************************************)

\* A claim that can be prepared does not stay unanswered.
EventuallyPrepared ==
  \A c \in Claims : (kube[c] = "want" /\ alloc[c] \notin Rejected) ~> (kube[c] # "want")

\* A claim nobody uses is eventually unprepared.
EventuallyReleased ==
  \A c \in Claims : (kube[c] = "release") ~> (kube[c] = "idle")

(***************************************************************************)
(* The plugin on its node does what the abstract ledger of claims promises.*)
(***************************************************************************)
Ledger == INSTANCE ClaimLedger WITH
  ledger <- checkpoint, spec <- cdi, need <- kube, grant <- alloc

\* Locks, processes, calls, crashes and failures included, every step is one
\* step about one claim, or none.
LedgerRefinement == Ledger!LedgerSpec
================================================================================

# A verification of the DRA example driver

This directory holds a TLA+ model of the driver in this repository: a kubelet
plugin that prepares simulated GPUs for pods, and a webhook that reviews the
parameters users attach to their claims. TLC checks the model on small
instances, and TLAPS proves the most important results for all of them.

`PROJECT.json` lists, for every definition, the source lines it stands for, and
for every property the run that checks it and a plausible bug (a mutant) that
the property catches.

1. [The system](#1-the-system)
2. [The modules](#2-the-modules)
3. [What the runs show](#3-what-the-runs-show)
4. [Where code and documentation disagree](#4-where-code-and-documentation-disagree)
5. [What is proved](#5-what-is-proved)
6. [What is not modelled](#6-what-is-not-modelled)
7. [Plan](#7-plan)

## 1. The system

| Component | Source | State | Operations |
|---|---|---|---|
| DeviceState | `cmd/dra-example-kubeletplugin/state.go` | a mutex; everything else is on disk | `Prepare`, `Unprepare` of one claim |
| Checkpoint | `checkpoint.go`, `internal/api/checkpoint` | one JSON file with the UIDs of the prepared claims | read whole, replaced whole by a rename |
| CDI spec files | `cdi.go` | one file per prepared claim and a common one | write, delete |
| gRPC driver | `driver.go` | the helper and the DeviceState | batches of Prepare and Unprepare, fatal errors, shutdown |
| Plugin process | `main.go` | none of its own | start, wait for a signal or a fatal error, shutdown |
| Health check | `health.go` | none | a probe that calls the plugin's own sockets |
| Device configuration | `state.go` (`computeDeviceConfig`, `GetOpaqueDeviceConfigs`) | none | from a claim's allocation to devices with container edits |
| GPU profile | `internal/profiles` | none | enumerate devices, apply a config, build a device status |
| GPU config API | `api/example.com/resource/gpu/v1alpha1` | none | defaults, validation |
| Device status | `state.go` (`updateDeviceStatus`) | `status.devices` of the claim, in the API server | read, replace, retry on conflict |
| Webhook | `cmd/dra-example-webhook` | none | review of a ResourceClaim or ResourceClaimTemplate |

How they interact. The kubelet calls the driver over gRPC, through the
`kubeletplugin` helper of Kubernetes, which runs one call at a time by default,
across the processes of a rolling update too. For each claim the driver calls
`Prepare` or `Unprepare`. `Prepare` reads the checkpoint; a claim that is in it
is answered by computing its devices again; another one is computed, its status
published through the API server, its CDI spec file written and then its UID
added to the checkpoint. `Unprepare` deletes the spec file and then the UID.
The container runtime reads the CDI spec files, which the model reaches through
the question whether a prepared claim's file is there and right. The webhook
shares only the GPU config API with the plugin.

What is hard, and the properties that make each part correct:

* **Two files, no transaction.** A crash or an error between the spec file and
  the checkpoint, in either order of the two operations, must be healed by the
  retry, and must not touch what a pod may use: `PreparedInjectable`,
  `PreparedRecorded`, `NothingLeftBehind`, `SpecNeverStale`, `InUseLeftAlone`.
* **Read, change, write of the whole checkpoint** by concurrent handlers, and by
  two processes during a rolling update: `OnlyOwnEntry`, `OwnEntryOrReset`,
  `LockInv`.
* **A caller that does not wait.** A call that timed out still runs:
  `AnswersAreBacked`.
* **Errors reading the checkpoint.** `Unprepare` replaces an unreadable
  checkpoint: `ClaimInv` under read faults, `UnprepareSurvives`.
* **Progress** through all of this: `EventuallyPrepared`, `EventuallyReleased`.
* **Random map order**, once when a claim is prepared and again when it is
  restored: `RestoredAsPrepared`, `ResultsBecomeDevices`.
* **Precedence** as the result of two reorderings, an inserted default and a
  search from the back: `HighestPrecedenceApplied`.
* **Two programs that judge the same parameters** with different functions, one of
  them twice, for the template and for its claim, in API versions that may differ:
  `AdmittedSettledIsPrepared`, `AdmittedIsPrepared`, `ReviewAnswered`,
  `TemplateVouchesForClaim`, `DenialIsComplete`.
* **A status that others write too**, by name and not by UID, while the lock of all
  handlers is held: `RecordedIsPublished`, `GivesUpOnlyWhenContended`,
  `PublishedDataStays`, `OtherEntriesKept`, `CallAnswered`.
* **Start, end and health of the process**: errors before anybody waits for them,
  probes that arrive during start and shutdown, a handler that hangs with a lock two
  processes share: `FatalErrorEndsProcess`, `ProbesFailForACause`,
  `WedgedIsReplaced`.
* **Devices that overlap**, kept apart only by rounded quotients in counters
  another program adds up, and known by an index that outlives a change of the
  flags: `FullIsExclusive`, `CountersAreExact`; published in slices that two programs
  read: `OfferedIsPrepared`, `GoneIsFreed`.

The full list, with the line each bites at, is under `hazards` in
`PROJECT.json`, those no property covers yet included.

## 2. The modules

```
ClaimLedger          what the plugin promises of a node's claims (abstract)
     ^ refinement
NodeClaims           kubelet, control plane and reboots around the plugin
  | extends
DeviceState          the handlers, the two kinds of file, the locks, the process

ClaimStatus          status.devices of a claim in the API server, and who writes it

PluginLifecycle      the processes: start, fatal errors, probes, shutdown

ClaimParameters      webhook, allocation, plugin: the way of a claim's parameters
  | extends
DeviceConfig         computeDeviceConfig, run twice on one claim
  | extends
GpuConfig            defaults, validation and application of a GPU config

GpuDevices           EnumerateDevices, the scheduler's counters, restarts with
                     other flags
```

`MCNodeClaims`, `MCClaimStatus`, `MCClaimParameters` and `MCGpuDevices` give the
constants their values (`PluginLifecycle` takes them from its configuration);
`NodeClaimsProofs`, `ClaimLedgerProofs`, `ClaimStatusProofs`, `PluginLifecycleProofs`,
`ClaimParametersProofs`, `DeviceConfigProofs`, `GpuConfigProofs` and `GpuDevicesProofs`
hold the theorems.

`ClaimStatus` and `PluginLifecycle` look inside of single steps of `DeviceState`:
`PreparePublishes`, which goes on whatever becomes of the status, and `Start`,
`Shutdown` and `Crash`, which say only what becomes of files and locks.

### DeviceState

Files: `checkpoint` is the set of UIDs in the checkpoint, `cdi[c]` what the CDI
spec file of claim `c` was made from (its allocation) or `None`, `common` the
common spec file. `mutex[i]` is the `sync.Mutex` of the DeviceState of process
`i`, `helperLock` the helper's lock. `call[k]` is a handler: its program counter,
its claim as the helper fetched it, and `copy`, its Checkpoint in memory.

| pc | code | actions |
|---|---|---|
| waiting, entered | `driver.go:58`, `state.go:156` | `Enter`, `Lock` |
| locked (Prepare) | `state.go:159-175` | `PrepareReadFails`, `PrepareRestores`, `PrepareRejects`, `PrepareComputes` |
| publish | `state.go:224-255` | `PreparePublishes`, whatever becomes of the status |
| cdi | `state.go:177` | `PrepareWritesSpec`, `PrepareSpecFails` |
| locked (Unprepare) | `state.go:192-203` | `UnprepareReads`, `UnprepareResets`, `UnprepareResetFails` |
| remove | `state.go:204` | `UnprepareDeletesSpec`, `UnprepareDeleteFails` |
| save | `state.go:181`, `209` | `Save`, `SaveFails` |

A handler stops wherever a crash, an error or another process can make a
difference. `SaveFails` may leave the old file or the new one: the deferred
`Close` of `writeCheckpoint` can fail after the rename. `UnprepareResets` is a
whole path of the code: an error reading the checkpoint leaves a nil pointer, an
empty checkpoint is written, and the nil pointer is then dereferenced, which
takes the process down. `Start` writes the common spec file before it serves.
`PowerCycle` empties the CDI root if it is on a temporary file system.

### NodeClaims

The environment, external but for the two entry points of `driver.go`. `kube[c]`
is what the kubelet wants of `c` or was told of it; `alloc[c]` the allocation in
its status. The kubelet calls until it is told "ok", as often as it likes; two
pods that share a claim prepare it at once. It does not unprepare a claim while
a call about it is unanswered. Two constants relax it: with `Abandon` it times
out and restarts while it waits, and the handlers run on; with `Reuse` a pod may
claim again what the kubelet had begun to unprepare.

### ClaimLedger

The abstraction `NodeClaims` implements on an orderly node (no `Abandon`, no
`Reuse`, a CDI root that survives): every step is about one claim, or none. The
spec of a claim is complete before the ledger names it, unchanged while the
claim is in use, and gone before the ledger drops it; "prepared" is said only of
a claim in the ledger with a spec of its allocation, "unprepared" only when
nothing is left. The refinement mapping is the identity on the two files and on
the kubelet's knowledge; locks, calls, processes and faults are hidden.

### ClaimStatus

One name in a namespace: `stored` is the UID of the claim that has it, `devices`
the devices with an entry in its `status.devices`. A handler lies between its lock
and its answer: `Get` and `Update` are the two calls of `updateDeviceStatus`, and
the resource version the API server compares is the bit `fresh`, which every
write of another (`Foreign`) clears. `Conflicts` and `GivesUp` are
`RetryOnConflict`. `GetFails`, `UpdateFails` and an `Update` whose answer is not
heard all end in the log, and the handler goes on to the checkpoint. The server
refuses entries for devices that are not allocated to the claim (`Accepted`), which
is all that keeps the handler of a deleted claim from writing to its successor. A
claim keeps its allocation for as long as it exists.

`excused` and `contention` are for the properties. `excused` holds the claims whose
entries may be missing for a reason the driver knows, and the successors a late
handler wrote over. `RecordedIsPublished` exempts them, and with them the outcome of
a failed update, of one whose answer is not heard and of a late handler of the
predecessor: the code accepts all three, and the property does not say that they
cannot happen. What it does say is that a claim is not recorded before its status is
published, and that nothing else takes the entries away.

### PluginLifecycle

`phase[i]` is the program counter of the main goroutine of process `i`, from
`RunPlugin` through `NewDriver` to `Shutdown`. `cancelled[i]` is the context: a
signal or `HandleError` sets it, and only `Shutdown` looks at it, when `NewDriver`
has returned. One call and one probe run beside each process. `Enter` takes the
helper's lock, which the two processes share. `CheckPasses` needs a helper that serves
(`Serving`) and its lock free, as the empty `NodePrepareResources` of `Check` does;
otherwise the probe that was taken fails (`CheckFails`). Which of the two servers is
started first and which is stopped first thus decides what a probe meets. A handler
may `Hang` with the lock. The
kubelet counts failed probes, sends SIGTERM and, at the end of the grace period,
SIGKILL. Outside of `NotifyContext` SIGTERM ends the process at once, which is
what `stop()` is called early for (`main.go:249`).

### GpuConfig, DeviceConfig, ClaimParameters

A config is data: a strategy and the sections it carries. `Validate` has three
outcomes, the third being the panic on the nil section of the strategy in force.
`Apply` is `applyGpuConfig`: `Normalize`, `Validate`, and the getters, which also
refuse the section of the strategy that is not in force. A decoded object of another
kind, which `Validate` refuses like a strategy it does not know, is the config with
`NoStrategy`.

`DeviceConfig` fails a claim that is not `allocated`, that has a config of a source
neither class nor claim (`KnownSources`), or one that is not opaque or cannot be decoded,
before it applies any. It has one action per round of the code's loops: the two loops over
the map take any group that is left. It runs the computation twice on the same
claim (`round`), as Prepare and a later restore do. Edits stand for the config
they were made from, and a prepared device names the result and the group it was
made from.

`ClaimParameters` starts the behaviours. An object is submitted as a claim or a
template in some API version, possibly one that cannot be decoded. `serve` fails
(`Unserved`) or hands it to the review. `ClaimCase` and `TemplateCase` are the cases of
the review's switch, `ClaimDecoded` and `TemplateDecoded` the switches of the two
functions it calls; each lists its three resources itself. The configs are taken from
the claim's `spec` or the template's `spec.spec` (`ConfigsAt`, as the API has them)
into `deviceConfigs`, and reviewed one by one. A template that
was admitted yields a claim, in a version of the controller's choice, that is
reviewed again. The allocation puts the configs of the class, which nobody reviews,
in front of the claim's, and `DeviceConfig` does the rest. As the webhook is
optional (`values.yaml:87`), a claim may also start with any allocation, or without
one (`Unreviewed`).

### GpuDevices

`Devices(f)` is the set `EnumerateDevices` makes for the flags `f`, a device
being known by its GPU, kind and index as it is by its name. `resources` is what
the running process enumerated, `published` what the scheduler sees of it, which
is older between `NewDeviceState` and `PublishResources`, when the process
serves already. `allocations` records which claim holds which device, and the
number of partitions in force when it got it; the record of that number is for
the property alone. The scheduler is external: `Fits` adds up, as the API of
shared counters prescribes, what the published devices among the allocated ones
consume, so an allocated device that is no longer published consumes nothing.
`Prepare` and `Unprepare` keep only what depends on the devices; the rest of the
two is in `DeviceState`. A refused `Prepare` changes nothing and is no step.

`Slices(f)` is what `EnumerateDevices` hands over: the devices in one slice, and the
counter sets, if there are any, in another before it. Two programs read them:
`Offered` is what the scheduler makes of them, for which a device is there if the
counter set it draws on is, and `Allocatable` the map `NewDeviceState` collects slice by
slice.

## 3. What the runs show

| Run | Question | Bounds |
|---|---|---|
| `rolling_update` | Is what the kubelet is told true of both files, does no spec file outlive its allocation, is what a pod may use left alone, and does the whole implement the ledger, with two processes, crashes, reboots and failing writes? | 2 claims, 2 processes, 2 calls at a time, a good and a bad allocation, 2 faults |
| `hostile_node` | Without the helper's lock, does the mutex keep the checkpoint free of lost updates, and are answers true when given, if callers time out, claims are reused, reads fail and a reboot empties the CDI root? | 2 claims, 1 process, 2 calls, 2 allocations, 2 faults |
| `progress` | Is every claim that can be prepared answered, and every released claim unprepared, although an unreadable checkpoint takes the process down? What still holds of the files then? | 2 claims, 1 process, 2 calls, 2 faults |
| `claim_parameters` | Does the webhook vouch for the plugin, and the template for the claim? Does the config that takes precedence win, and is the outcome independent of map order and of configs not in force? | reviewed: every config alone, and pairs of 12, 3 classes, 3 versions and an unknown one; not reviewed: pairs of configs of 29 kinds, and all lists of 3 configs of 2 sources, 2 scopes, 3 parameters; 7 lists of results |
| `claim_status` | Is a recorded claim's status there whenever the driver has no reason to think otherwise? Is published data ever taken back, a conflict given up early, or a call left unanswered? | 2 claims one after the other, with 1 and 2 devices of the driver and 1 of another one; 5 attempts (`retry.DefaultRetry`) |
| `plugin_lifecycle` | Does a probe fail for no cause but a handler that has the lock, a fatal error always end the process, and a hung handler get it replaced? | 2 processes, a call and a probe each, 2 failed probes |
| `gpu_devices` | Do the counters allow exactly what does not overlap, across restarts with other flags? Is a claim for a device that is offered prepared, and one whose pod is gone freed, though the device be gone too? | 2 claims; 1 GPU whole, 1 in 2 parts, 2 in 3 parts; 4 units of memory, 2 of compute |

Why the bounds are enough. A handler interferes with another one through its
own claim and one other entry of the checkpoint, so two claims and two calls
show every pair; two processes are what a rolling update has. Two faults let a
crash hit the recovery from a first one. Three configs are needed to see an
order within a source around one of another source; two results, to see two
groups. Two claims under one name show a late handler of the first;
the retry limit is the library's own. The kubelet's failure threshold is 3 in the
chart: 2 already tells one failure from enough of them. Two claims overlap or not, and with 4 units of memory and 2 of compute a
third is rounded down once, and once to nothing. The proofs of section 5 lift all of these bounds for the properties they
cover. `MaxFaults` bounds crashes, reboots and I/O errors together and is the
only bound on behaviours, of `NodeClaims` alone; it is needed because a disk that
always fails prevents any progress, and it keeps the state finite. In `progress` a
failed read is therefore transient: `EventuallyReleased` says nothing of a checkpoint
that stays unreadable until an Unprepare replaces it. The counter
`contention` stops at the number of attempts.

Symmetry is used in the passing safety runs of `NodeClaims` only, over claims, good
allocations, processes and call slots, none of which a property names; the
run with liveness uses none.

Deadlock is checked in all runs but those of `ClaimParameters`, which follow one
object to its end and then stop.

**Fairness** (in `FairSpec`, for `progress`). A process that is
down is started again (the DaemonSet). A handler that has its locks goes on: its
steps are local I/O and API calls with the client's timeouts. The mutex is given
to a waiter in the end (Go's mutex has a starvation mode), and so is the
helper's lock, which waiters poll: strong fairness for `Lock` and `Enter`. A
call's answer arrives. The kubelet calls about a claim that needs it whenever
there is room for a call again and again. Nothing is assumed of the order of
calls, of faults or of the scheduler. A claim whose allocation the driver
rejects is retried for ever, and `EventuallyPrepared` leaves it out.
`GDFairSpec`, for `gpu_devices`, has the same of the plugin and the kubelet in one
step each, and the claim controller: what can be published, prepared, unprepared
or deallocated is in the end. Restarts, allocations and the end of pods have no
fairness. `CSFairSpec`, for `claim_status`, has the steps of the handler that holds
the lock (its API calls end, by the client's timeouts if need be) and strong
fairness for taking a call; those who write the claim are not limited. `PLFairSpec`,
for `plugin_lifecycle`, has the main goroutine, probes that are made and end by
their caller's deadline, and a kubelet that carries out what it has decided, SIGKILL
after the grace period included; a call that runs ends or hangs, and nothing is
assumed of a hung one.

## 4. Where code and documentation disagree

Five runs end in a counterexample on purpose. Each states what a comment or a
test of the repository says.

* `reboot_volatile_cdi` (`RestoredInjectable`). `Prepare` answers a claim in the
  checkpoint without looking at its CDI spec file. The file is gone after a
  reboot if the CDI root is `/var/run/cdi`, as the Helm chart has it. It is also
  gone after an Unprepare that failed between its two steps, which matters if the
  claim is prepared again before the retry (`Reuse`). `PreparedInjectable` and the
  refinement hold only where neither can happen.
* `unreadable_checkpoint` (`UnprepareSurvives`). The reset of a checkpoint that
  cannot be read ends in a nil dereference. `EventuallyReleased` shows that the
  restart and the retry still get the claim unprepared; `OwnEntryOrReset` that the
  reset drops the other claims' entries with it, and `ClaimInv` what their retried
  preparations then rest on.
* `other_section` (`AdmittedIsPrepared`). The section of the other strategy is
  ignored by `Validate`, as `validate_test.go:107` expects, and refused by the getters.
* `nil_section` (`ReviewAnswered`). The webhook validates what it has not
  normalized.
* `status_overwritten` (`OtherEntriesKept`). The Helm values promise that device
  attributes are added "via server-side apply" (`values.yaml:31`); the code reads the
  claim and replaces the whole list, other drivers' entries included.

Two more, which no run states. A config that is not opaque is skipped by the webhook
(`main.go:306`) and refused by the plugin, whoever it is for (`state.go:447`), as a
"future API extension"; the API has no such config yet. `AdmittedSettledIsPrepared` leaves the claims
that have one out. And the devices of a claim come back in another order
each time they are computed (`state.go:331` ranges over a map), while
`state.go:266` says the computation "should be deterministic". As sets they agree,
edits included, which is what `RestoredAsPrepared` says.

## 5. What is proved

`NodeClaimsProofs` proves, for any sets of claims, allocations, processes and
calls and any number of faults:

| Theorem | States | Assumes |
|---|---|---|
| `TypeCorrect` | `[]TypeOK` | |
| `LocksSuffice` | `[]LockInv` | `Exclusive` |
| `NoLostUpdate` | `OwnEntryOrReset` | `Exclusive` |
| `NoLostUpdateNoReset` | `OnlyOwnEntry` | `Exclusive`, no read faults |
| `AnswersBacked` | `AnswersAreBacked` | `Exclusive` |
| `PatienceSuffices` | `[](LockInv /\ PatientInv)` | `Exclusive`, `Patient` |
| `NothingIsLeftBehind`, `SpecIsNeverStale` | `NothingLeftBehind`, `SpecNeverStale` | `Exclusive`, `Patient` |
| `PreparedIsRecorded` | `[]PreparedRecorded` | `Exclusive`, `Patient`, no read faults |
| `InUseIsLeftAlone` | `InUseLeftAlone` | `Exclusive`, `Patient`, no read faults, a CDI root that lasts |
| `ClaimsAgree` | `[](LockInv /\ ClaimInv)` | `Exclusive`, `Orderly` |
| `PreparedIsInjectable`, `RestoredIsInjectable` | `PreparedInjectable`, `RestoredInjectable` | `Exclusive`, `Orderly` |
| `ImplementsLedger` | `LedgerRefinement` | `Exclusive`, `Orderly`, no read faults |

`Exclusive` says that the helper serializes calls or that there is one process;
`Patient` that the kubelet waits for its answers; `Orderly` that in addition it does
not use a claim again that it is about to unprepare, and that the CDI root survives a
reboot. The assumptions on constants are `ConstantsAssumption` and
`NodeAssumption`, evaluated by every run.

The argument has three layers, each an inductive invariant over the one before, and
each theorem rests on the lowest layer that carries it.

1. `LockInv` does not mention the kubelet: a handler past its locks holds them,
   hence is alone, hence what it read of the checkpoint is still in the file
   (`CopyCurrent`), and just before it saves, the CDI spec file of its claim agrees
   with what it is about to record. Every action either is a step of the one handler,
   or does not touch files and locks, or takes the process down together with the
   lock; three lemmas (`GoesOn`, a return, `Die`) cover these shapes.
2. `PatientInv` adds the kubelet and the checkpoint: a call in flight is about a
   claim in the state it was sent for, and an Unprepare has its claim for itself
   (`CallsMatchWishes`); an "ok" on its way and the kubelet's own state are true of
   the checkpoint (`OksAreRecorded`, `WishesAreRecorded`); and a CDI spec file carries
   the claim's present allocation or is not there (`SpecNeverStale`). This needs
   nothing of the CDI root and allows `Rejoin`: it is what holds on a node as the Helm
   chart sets it up, where `/var/run/cdi` does not survive a reboot. There, a file may
   be missing, but none is wrong, nothing is left behind, and nothing is forgotten.
3. `ClaimInv` adds the spec files: the checkpoint can be trusted about a claim in
   use (`CheckpointTrusted`). That it implies the spec file fails in the middle of
   an Unprepare, and is saved only by the fact that no Prepare of the claim can then
   be running, and that the claim is not used again before the Unprepare has
   succeeded. The two findings about the CDI root and about `Reuse` are the two ways
   in which this layer, and only this one, breaks.

`InUseLeftAlone` is proved from the second layer, for reused claims too: a handler that
rewrites a spec file is a Prepare of a claim that is not recorded, or an Unprepare,
which no claim in use has. `RestoredInjectable`, which the run `reboot_volatile_cdi`
refutes, is a theorem where the CDI root lasts: the run's assumption is the only one
missing.

The refinement maps each action to one ledger step or a stutter, using the invariants.
`ClaimLedgerProofs` proves of the ledger alone what it is good for: "prepared" means
recorded with a spec of the claim's own allocation and "idle" that nothing is left
(`LedgerPromises`), and a claim in use keeps entry, spec and allocation
(`LedgerLasts`), without any assumption.

`GpuConfigProofs` proves that `Apply` never panics (`ApplyAnswers`), that what
the webhook accepts needs no defaults (`ValidIsNormal`), and that the plugin
applies exactly those accepted configs without a foreign section
(`ValidAppliesIfSettled`): the pure core of `AdmittedSettledIsPrepared`.
`AppliedConfigs` spells out what the plugin applies of all a user can write, and
`PanicsAreApplied` that the configs a review panics on are among it, but for those
with a foreign section.

`DeviceConfigProofs` is about `GetOpaqueDeviceConfigs` and the search from the back,
for allocations of any length. The loops that append what they keep are one recursive
function over the index, `Kept`. That such a function exists, and what it returns,
takes an induction; as the library's induction theorems cannot be instantiated here,
`AllNaturals` derives one over sets of numbers from the well-foundedness of `<`.
`KeptInOrder` then says that the result is the wanted entries, all of them and no
others, in their order: it gives for each place in the result the place it was found
at. Two such maps, one after the other, give `OpaqueInPrecedence`: places in the
returned list grow as precedence does. All of this is for configs of the two known
sources; with another one the function returns an error. The greatest matching place is thus the config
that beats all others, which is how the documentation defines the config in force
(`FoundIsBest`, `InForceIsExpected`).

`GpuDevicesProofs` proves, for any number of claims and GPUs, any flags, and any
memory and compute of a GPU, that the counters are exact (`CountersExact`), that a
full GPU stays exclusive (`FullStaysExclusive`), and the types
(`GpuDevicesTypeCorrect`). It assumes only that a GPU has a unit of memory for
each of its partitions (`GpuDevicesAssumption`): the shares of memory are then
not zero, while those of compute may be. `FitsExactly` is the core, arithmetic
over the quotients and the number of partitions taken; exclusiveness follows,
because a device allocated under the published partition count on a GPU that is
published is itself published, whatever was published in between, and so is
counted. `OfferedAreAllocatable` is the safety part of `OfferedIsPrepared`: the two
readings of the slices give the same devices. Claims allocated under different partition counts are left out for a
reason: after a change of `gpuPartitions`, `gpu-0` and `gpu-0-full` can be held at
once, and a partition held under the old count is counted with the new share.
The driver has nothing against it, and its documents do not promise it.

`ClaimStatusProofs` proves the four safety properties of `ClaimStatus`, for any
number of claims under a name, any allocations and any number of attempts
(`StatusTypeCorrect`, `RecordedIsPublishedAlways`, `GivesUpLate`,
`PublishedDataStaysAlways`). `RecordedIsPublished` is about the time when the claim
is recorded, so the invariant carries it back through the handler: between the
update and the checkpoint the entries are there or the claim is excused, and from
then on only an update could remove them, whose handler is of another claim. For
`GivesUpOnlyWhenContended`, an attempt that has failed, or a copy that is old,
accounts for a write of somebody else each.

`PluginLifecycleProofs` proves the types (`LifecycleTypeCorrect`), among them that the
lock is held exactly by a process whose call is at work, and `ProbesFailForACause`
(`TakenProbesAreServed`), for any number of processes, with or without the health
service. The invariant, `ProbeInv`, is that a probe is only ever with a process whose
health service runs or is being stopped: the helper serves before the one starts
and until the other has waited for the probe.

`ClaimParametersProofs` proves all safety properties of the run `claim_parameters`, for
any lists of configs and results. `ComputeInv` says of each phase what has
been done for the groups visited and nothing for those left; the device of a
result, its edits included, is then a function of the claim (`DeviceOf`), because a
claim gets no device twice and hence no group can overwrite another's edits. So a
restore gives what was prepared (`RestoreComputesTheSame`), and each result becomes
one device (`EachResultOneDevice`). `CPInv` adds the review: the errors counted are
the configs at fault among those looked at, which makes denials complete
(`DenialCountsAll`); a template is admitted without any, so its claim is
(`TemplateVouches`). Both need `ExtractInv`: what is under review is what the user wrote,
whichever switch and field it went through. `ConfigInv` says that the configs of a reviewed claim are those of
its class and those it was admitted with. With `InForceIsExpected` the edits of a
device are those of the config in force (`PrecedenceHolds`). `OnlyConfigsInForceMatter`
gives all causes for which the computation fails: a claim that is not allocated, a config
of an unknown source, one that is not opaque or cannot be decoded, a device that is not
allocatable, and a config in force that cannot be applied; what a config not in force
asks for is none of them. And what was admitted is prepared where every config is opaque
and none has a foreign section (`AdmittedSettledPrepares`).
`AbortsOnDefaults` says of the finding `nil_section` that it is the only way for a
review to end without an answer.

Every invariant and action property of a passing run is thus a theorem, for all values
of the constants. Only model-checked are the liveness properties (fairness and
ENABLED are out of the prover's reach): `EventuallyPrepared`, `EventuallyReleased`,
`OfferedIsPrepared`, `GoneIsFreed`, `CallAnswered`, `FatalErrorEndsProcess` and
`WedgedIsReplaced`. Not proved is the refinement under read faults, where it does not
hold: the reset drops entries of claims the kubelet was told are prepared.

## 6. What is not modelled

* The kubelet, the control plane and the helper are external: modelled from how
  `driver.go` uses them.
* The content of a status entry, and a claim that is deallocated and allocated
  again under one UID.
* What happens inside of the helper's `Stop` and the health server's graceful stop:
  modelled by what they wait for. A fatal error before the helper is created cannot
  be reported and is no step.
* Of the devices, their attributes and UUIDs, the limit on how many a slice may
  hold, and the scheduler's exception for claims with admin access, which get devices
  that others hold.
* Temporary files a failed `writeCheckpoint` leaves behind, and a rename that is
  lost in a power cycle because its directory is not synced.
* The text of environment variables, device IDs and messages; TLS and the readiness
  handler of the webhook; the conversion of beta API versions, which is generated
  code; updates of an object, which are reviewed like its creation.
* Flags, logging, Helm chart, demos, tests and the build have no state of the
  running system. What the chart decides that matters, the CDI root, is a
  constant.
* A late Prepare of a caller that gave up, after the claim's Unprepare was
  answered, leaves its entry behind. No document promises otherwise, and the runs
  state `NothingLeftBehind` only for a kubelet that waits.

## 7. Plan

Done, in this order: `DeviceState`, `NodeClaims`, `ClaimLedger`, their proofs;
`GpuConfig`, `DeviceConfig`, `ClaimParameters`, the facts about configs;
`GpuDevices` and its proofs; `ClaimStatus` and its proofs; `PluginLifecycle` and its
proofs; the proofs about `ClaimParameters` and `DeviceConfig`; the layer of `PatientInv`.

What would come next:

1. The composition of `ClaimStatus` with `DeviceState`, to relate a crash between
   the CDI spec file and the checkpoint to the status: each has been checked against
   an environment that contains what the other can do.
2. Allocations that change under one UID (the claim is deallocated when its last
   pod is gone), for a checkpoint entry that outlives its allocation.

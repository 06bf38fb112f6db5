------------------------------- MODULE GpuDevices ------------------------------
(***************************************************************************)
(* The devices EnumerateDevices makes of a node's GPUs, and the life of a  *)
(* claim for one of them: the scheduler allocates from what the plugin has *)
(* published, the plugin prepares what it has enumerated, and a restart    *)
(* with other flags changes the devices under claims that hold them.       *)
(*                                                                         *)
(* A GPU is either one whole device, or partitions and a full device that  *)
(* draw on the GPU's counter set.  Two readers go through the slices these *)
(* are published in: the scheduler, and the plugin for its own map of what *)
(* it may prepare.  Attributes are left out.                               *)
(***************************************************************************)
EXTENDS Integers, FiniteSets, Sequences

CONSTANTS
  Claims,  \* claims for one GPU device each
  Flags,   \* the values of num-devices and gpu-partitions the plugin is given
  Total    \* the counters of one GPU: memoryPerGPU and computePerGPU

Counters == {"memory", "compute"}

\* A partition is never so small that it gets none of the 80Gi of memory; of
\* the 100 units of compute it may get none.
ASSUME GpuDevicesAssumption ==
  /\ Flags \subseteq [gpus : Nat, parts : Int]
  /\ Total \in [Counters -> Nat]
  /\ Total["memory"] > 0
  /\ \A f \in Flags : f.parts <= Total["memory"]

VARIABLES
  resources,    \* DeviceState.driverResources, as the flags they come from
  published,    \* what the scheduler sees of them in the ResourceSlices
  allocations,  \* which claim holds which device, and the gpu-partitions then
  prepared,     \* the claims in the checkpoint
  gone          \* the claims whose pod is gone

gdVars == <<resources, published, allocations, prepared, gone>>

Whole(g) == [gpu |-> g, kind |-> "whole", index |-> 0]
Full(g) == [gpu |-> g, kind |-> "full", index |-> 0]
Partition(g, j) == [gpu |-> g, kind |-> "partition", index |-> j]

\* Mutant of Devices: one partition too many.
DevicesOneMore(f) ==
  LET GPUs == 0 .. f.gpus - 1 IN
  IF f.parts > 0
  THEN {Partition(g, j) : g \in GPUs, j \in 0 .. f.parts} \cup {Full(g) : g \in GPUs}
  ELSE {Whole(g) : g \in GPUs}

Devices(f) ==
  LET GPUs == 0 .. f.gpus - 1 IN
  IF f.parts > 0
  THEN {Partition(g, j) : g \in GPUs, j \in 0 .. f.parts - 1} \cup {Full(g) : g \in GPUs}
  ELSE {Whole(g) : g \in GPUs}

\* Mutant of Consumes: the full device draws no more than a partition.
ConsumesShare(f, kind, r) == Total[r] \div f.parts

\* Mutant of Consumes: the shares are rounded up.
ConsumesRoundedUp(f, kind, r) ==
  IF kind = "full" THEN Total[r] ELSE (Total[r] + f.parts - 1) \div f.parts

\* What a device draws from counter r of its GPU.
Consumes(f, kind, r) == IF kind = "full" THEN Total[r] ELSE Total[r] \div f.parts

\* A counter set is named by its GPU.
CounterSets(f) == IF f.parts > 0 THEN 0 .. f.gpus - 1 ELSE {}

\* The slices of the node's pool: counter sets have one of their own, before that
\* of the devices.
Slices(f) ==
  LET devices == [counters |-> {}, devices |-> Devices(f)] IN
  IF CounterSets(f) # {}
    THEN <<[counters |-> CounterSets(f), devices |-> {}], devices>>
    ELSE <<devices>>

\* Mutant of Allocatable: the first slice alone.
AllocatableFirstSlice == Slices(resources)[1].devices

\* NewDeviceState's map of the devices this process may prepare.
Allocatable == UNION {Slices(resources)[i].devices : i \in DOMAIN Slices(resources)}

--------------------------------------------------------------------------------
(***************************************************************************)
(* The scheduler.  A device is known by its name; the counters add up what *)
(* the published devices among the allocated ones consume.                 *)
(***************************************************************************)
\* A device that draws on a counter set needs it in some slice of its pool.
Offered(f) ==
  LET pool == {Slices(f)[i] : i \in DOMAIN Slices(f)} IN
  {d \in UNION {slice.devices : slice \in pool} :
     d.kind # "whole" => d.gpu \in UNION {slice.counters : slice \in pool}}

Taken == {a.device : a \in allocations}

PartitionsTaken(f, g) == {j \in 0 .. f.parts - 1 : Partition(g, j) \in Taken}

Used(f, g, r) ==
  Cardinality(PartitionsTaken(f, g)) * Consumes(f, "partition", r)
    + (IF Full(g) \in Taken THEN Consumes(f, "full", r) ELSE 0)

\* A whole GPU consumes no counters.
Fits(f, d) ==
  d.kind # "whole" =>
    \A r \in Counters : Used(f, d.gpu, r) + Consumes(f, d.kind, r) <= Total[r]

Holders == {a.claim : a \in allocations}

Allocate(c) ==
  /\ c \notin Holders
  /\ \E d \in Offered(published) \ Taken :
       /\ Fits(published, d)
       /\ allocations' = allocations \cup
            {[claim |-> c, device |-> d, parts |-> published.parts]}
  /\ UNCHANGED <<resources, published, prepared, gone>>

\* The claim is unreserved once its pod is gone and the kubelet has unprepared it.
Deallocate(c) ==
  /\ c \in gone \ prepared
  /\ allocations' = {a \in allocations : a.claim # c}
  /\ gone' = gone \ {c}
  /\ UNCHANGED <<resources, published, prepared>>

PodGone(c) ==
  /\ c \in Holders
  /\ gone' = gone \cup {c}
  /\ UNCHANGED <<resources, published, allocations, prepared>>

--------------------------------------------------------------------------------
(***************************************************************************)
(* The plugin.                                                             *)
(***************************************************************************)

\* Prepare refuses, and changes nothing, when the device is not allocatable.
Prepare(c) ==
  /\ c \notin prepared \cup gone
  /\ \E a \in allocations : a.claim = c /\ a.device \in Allocatable
  /\ prepared' = prepared \cup {c}
  /\ UNCHANGED <<resources, published, allocations, gone>>

\* Mutant of Unprepare: it looks for the device, as Prepare does.
UnprepareEnumerated(c) ==
  /\ c \in prepared \cap gone
  /\ \E a \in allocations : a.claim = c /\ a.device \in Allocatable
  /\ prepared' = prepared \ {c}
  /\ UNCHANGED <<resources, published, allocations, gone>>

\* Unprepare asks for no device.
Unprepare(c) ==
  /\ c \in prepared \cap gone
  /\ prepared' = prepared \ {c}
  /\ UNCHANGED <<resources, published, allocations, gone>>

\* A new process serves the kubelet before it has published its devices.
Restart(f) ==
  /\ resources' = f
  /\ UNCHANGED <<published, allocations, prepared, gone>>

Publish ==
  /\ published' = resources
  /\ UNCHANGED <<resources, allocations, prepared, gone>>

GDInit ==
  /\ resources \in Flags
  /\ published = resources
  /\ allocations = {}
  /\ prepared = {}
  /\ gone = {}

GDNext ==
  \/ Publish
  \/ \E f \in Flags : Restart(f)
  \/ \E c \in Claims : \/ Allocate(c) \/ Prepare(c) \/ PodGone(c)
                       \/ Unprepare(c) \/ Deallocate(c)

GDSpec == GDInit /\ [][GDNext]_gdVars

\* The kubelet and the helper retry; the claim controller does not give up.
GDFairSpec ==
  /\ GDSpec
  /\ WF_gdVars(Publish)
  /\ \A c \in Claims : /\ WF_gdVars(Prepare(c))
                       /\ WF_gdVars(Unprepare(c))
                       /\ WF_gdVars(Deallocate(c))

--------------------------------------------------------------------------------
(***************************************************************************)
(* Properties.                                                             *)
(***************************************************************************)

\* A device of the profile under gpu-partitions = parts.
DeviceUnder(d, parts) ==
  /\ d.gpu \in Nat
  /\ \/ d = Whole(d.gpu) /\ parts <= 0
     \/ d = Full(d.gpu) /\ parts > 0
     \/ d = Partition(d.gpu, d.index) /\ d.index \in 0 .. parts - 1

\* Every claim holds at most one device, every device is held by at most one
\* claim, and is one of those the plugin enumerated when it was allocated.
GDTypeOK ==
  /\ resources \in Flags /\ published \in Flags
  /\ \A a \in allocations :
       /\ a = [claim |-> a.claim, device |-> a.device, parts |-> a.parts]
       /\ a.claim \in Claims
       /\ a.parts \in Int
       /\ DeviceUnder(a.device, a.parts)
  /\ \A a, b \in allocations : a.claim = b.claim \/ a.device = b.device => a = b
  /\ prepared \subseteq Holders
  /\ gone \subseteq Holders

\* A full GPU and a partition of it are never held at once, whatever happened in
\* between: restarts with other numbers of GPUs and partitions, devices that
\* vanished under their claims and came back.  Only claims allocated under the
\* same gpu-partitions count: nothing protects a GPU across a change of it.
FullIsExclusive ==
  \A a, b \in allocations :
    /\ a.parts = b.parts
    /\ a.device.gpu = b.device.gpu
    /\ a.device.kind = "full"
    => a = b

\* The published counters say exactly what a GPU can still give (EnumerateDevices'
\* rounded shares): a free partition can be allocated unless the full GPU is
\* taken, and the free full GPU unless a partition is.
CountersAreExact ==
  \A d \in Offered(published) \ Taken :
    Fits(published, d) <=>
      \/ d.kind = "whole"
      \/ d.kind = "partition" /\ Full(d.gpu) \notin Taken
      \/ d.kind = "full" /\ PartitionsTaken(published, d.gpu) = {}

\* A claim for a device the scheduler reads out of the slices of the running plugin
\* is prepared: the plugin's own reading of them (NewDeviceState's loop over the
\* slices EnumerateDevices has built) misses none, whether the claim was allocated
\* before or after a restart.  Unless its pod goes away or the plugin comes back with
\* other devices.
Offers(c) ==
  /\ published = resources
  /\ \E a \in allocations : a.claim = c /\ a.device \in Offered(published)

OfferedIsPrepared ==
  \A c \in Claims : Offers(c) ~> (c \in prepared \cup gone \/ ~Offers(c))

\* A claim whose pod is gone gives its device back, also when the plugin no longer
\* has the device: Unprepare, unlike Prepare, does not look for it.
GoneIsFreed == \A c \in Claims : c \in gone ~> c \notin gone

================================================================================

---------------------------- MODULE GpuDevicesProofs ---------------------------
(***************************************************************************)
(* The counters keep a full GPU and its partitions apart, for any number   *)
(* of claims and GPUs, any flags and any memory and compute of a GPU.      *)
(***************************************************************************)
EXTENDS GpuDevices, FiniteSetTheorems, TLAPS

--------------------------------------------------------------------------------
(***************************************************************************)
(* Arithmetic of the shares.                                               *)
(***************************************************************************)

\* The shares of n of k partitions stay within the total.
LEMMA SharesFit ==
  ASSUME NEW t \in Nat, NEW k \in Nat \ {0}, NEW n \in 0 .. k
  PROVE  /\ t \div k \in Nat
         /\ n * (t \div k) \in Nat
         /\ n * (t \div k) <= t
<1> DEFINE q == t \div k
<1>1. q \in Nat /\ k * q <= t
  OBVIOUS
<1> HIDE DEF q
<1>2. n * q \in Nat /\ n * q <= k * q
  BY <1>1
<1> QED
  BY <1>1, <1>2 DEF q

\* A partition gets some of a total that is no less than the number of partitions.
LEMMA ShareIsPositive ==
  ASSUME NEW t \in Nat, NEW k \in Nat \ {0}, k <= t
  PROVE  t \div k > 0
  OBVIOUS

--------------------------------------------------------------------------------
(***************************************************************************)
(* What the scheduler reads and adds up.                                   *)
(***************************************************************************)

\* The slices offer every device there is, each beside its counter set.
LEMMA OfferedAreDevices ==
  ASSUME NEW f \in Flags
  PROVE  Offered(f) = Devices(f)
<1> DEFINE pool == {Slices(f)[i] : i \in DOMAIN Slices(f)}
           all == [counters |-> {}, devices |-> Devices(f)]
           sets == [counters |-> CounterSets(f), devices |-> {}]
<1>0. f.gpus \in Nat /\ f.parts \in Int
  BY GpuDevicesAssumption
<1>1. \A d \in Devices(f) : d.kind # "whole" => d.gpu \in CounterSets(f)
  BY <1>0 DEF Devices, CounterSets, Whole, Full, Partition
<1>2. pool = IF CounterSets(f) = {} THEN {all} ELSE {sets, all}
  BY DEF Slices
<1>3. /\ all.devices = Devices(f) /\ all.counters = {}
      /\ sets.devices = {} /\ sets.counters = CounterSets(f)
  OBVIOUS
<1>4. Offered(f) = {d \in UNION {slice.devices : slice \in pool} :
                      d.kind # "whole" => d.gpu \in UNION {slice.counters : slice \in pool}}
  BY DEF Offered
<1> HIDE DEF pool, all, sets
<1>5. UNION {slice.devices : slice \in pool} = Devices(f)
  BY <1>2, <1>3
<1>6. UNION {slice.counters : slice \in pool} = CounterSets(f)
  BY <1>2, <1>3
<1> QED
  BY <1>1, <1>4, <1>5, <1>6

\* Of the slices of one process, NewDeviceState's loop and the scheduler read the
\* same devices, for any number of GPUs and partitions.
THEOREM OfferedAreAllocatable ==
  ASSUME resources \in Flags
  PROVE  Allocatable = Offered(resources)
<1>1. CASE CounterSets(resources) = {}
  <2>1. Allocatable = Devices(resources)
    BY <1>1 DEF Allocatable, Slices
  <2> QED
    BY <2>1, OfferedAreDevices
<1>2. CASE CounterSets(resources) # {}
  <2>1. {Slices(resources)[i].devices : i \in DOMAIN Slices(resources)} = {{}, Devices(resources)}
    BY <1>2 DEF Slices
  <2> QED
    BY <2>1, OfferedAreDevices DEF Allocatable
<1> QED
  BY <1>1, <1>2

\* The partitions of a GPU that are taken: how many there can be, and that there
\* are fewer while one is free.
LEMMA PartitionsTakenCount ==
  ASSUME NEW f \in Flags, f.parts > 0, NEW g
  PROVE  /\ Cardinality(PartitionsTaken(f, g)) \in 0 .. f.parts
         /\ PartitionsTaken(f, g) = {} <=> Cardinality(PartitionsTaken(f, g)) = 0
         /\ \A j \in 0 .. f.parts - 1 :
              Partition(g, j) \notin Taken =>
                Cardinality(PartitionsTaken(f, g)) + 1 \in 0 .. f.parts
<1> DEFINE P == PartitionsTaken(f, g)
           I == 0 .. f.parts - 1
<1>1. f.parts \in Nat \ {0}
  BY GpuDevicesAssumption
<1>2. IsFiniteSet(I) /\ Cardinality(I) = f.parts
  <2>1. 0 \in Int /\ f.parts - 1 \in Int
    BY <1>1
  <2>2. /\ IsFiniteSet(0 .. f.parts - 1)
        /\ Cardinality(0 .. f.parts - 1) =
             IF 0 > f.parts - 1 THEN 0 ELSE f.parts - 1 - 0 + 1
    BY <2>1, FS_Interval
  <2> QED
    BY <1>1, <2>2
<1>3. P \subseteq I
  BY DEF PartitionsTaken
<1>4. /\ IsFiniteSet(P)
      /\ Cardinality(P) <= Cardinality(I)
      /\ Cardinality(I) = Cardinality(P) => I = P
  BY <1>2, <1>3, FS_Subset
<1>5. Cardinality(P) \in Nat /\ (Cardinality(P) = 0 <=> P = {})
  BY <1>4, FS_CardinalityType, FS_EmptySet
<1>6. ASSUME NEW j \in I, Partition(g, j) \notin Taken
      PROVE  Cardinality(P) # f.parts
  <2>1. j \notin P
    BY <1>6 DEF PartitionsTaken
  <2> QED
    BY <2>1, <1>6, <1>4, <1>2
<1> HIDE DEF P
<1>7. Cardinality(P) \in 0 .. f.parts
  BY <1>1, <1>2, <1>4, <1>5
<1>8. \A j \in I : Partition(g, j) \notin Taken => Cardinality(P) + 1 \in 0 .. f.parts
  BY <1>1, <1>6, <1>7
<1> QED
  BY <1>5, <1>7, <1>8 DEF P

\* Within the counters, a free device of a partitioned GPU fits exactly when the
\* device that overlaps it is free.
LEMMA FitsExactly ==
  ASSUME NEW f \in Flags, NEW d \in Devices(f) \ Taken
  PROVE  Fits(f, d) <=>
           \/ d.kind = "whole"
           \/ d.kind = "partition" /\ Full(d.gpu) \notin Taken
           \/ d.kind = "full" /\ PartitionsTaken(f, d.gpu) = {}
<1> DEFINE g == d.gpu
           n == Cardinality(PartitionsTaken(f, g))
           s(r) == Total[r] \div f.parts
<1>0. f.parts \in Int /\ \A r \in Counters : Total[r] \in Nat
  BY GpuDevicesAssumption
<1>1. CASE ~ f.parts > 0
  BY <1>1 DEF Devices, Fits, Whole
<1>2. CASE f.parts > 0
  <2>1. f.parts \in Nat \ {0}
    BY <1>0, <1>2
  <2>2. /\ n \in 0 .. f.parts
        /\ PartitionsTaken(f, g) = {} <=> n = 0
        /\ \A j \in 0 .. f.parts - 1 :
             Partition(g, j) \notin Taken => n + 1 \in 0 .. f.parts
    BY <1>2, PartitionsTakenCount
  <2>3. \A r \in Counters : /\ s(r) \in Nat
                            /\ n * s(r) \in Nat
                            /\ n * s(r) <= Total[r]
    BY <1>0, <2>1, <2>2, SharesFit
  <2>4. "memory" \in Counters /\ s("memory") > 0
    BY <1>0, <2>1, ShareIsPositive, GpuDevicesAssumption DEF Counters
  <2>5. \A r \in Counters :
          Used(f, g, r) = n * s(r) + (IF Full(g) \in Taken THEN Total[r] ELSE 0)
    BY DEF Used, Consumes
  <2> HIDE DEF n, s
  <2>6. CASE d.kind = "partition"
    <3>1. PICK j \in 0 .. f.parts - 1 : d = Partition(g, j)
      BY <1>2, <2>6 DEF Devices, Partition, Full
    <3>2. n + 1 \in 0 .. f.parts
      BY <2>2, <3>1
    <3>3. \A r \in Counters : (n + 1) * s(r) <= Total[r]
      BY <1>0, <2>1, <3>2, SharesFit DEF s
    <3>4. \A r \in Counters : (n + 1) * s(r) = n * s(r) + s(r)
      BY <2>2, <2>3
    <3>5. Fits(f, d) <=> \A r \in Counters : Used(f, g, r) + s(r) <= Total[r]
      BY <2>6 DEF Fits, Consumes, s
    <3>6. CASE Full(g) \in Taken
      <4>1. Used(f, g, "memory") + s("memory") > Total["memory"]
        BY <1>0, <2>3, <2>4, <2>5, <3>6
      <4> QED
        BY <1>0, <2>3, <2>4, <2>5, <2>6, <3>5, <3>6, <4>1
    <3>7. CASE Full(g) \notin Taken
      BY <1>0, <2>3, <2>5, <2>6, <3>3, <3>4, <3>5, <3>7
    <3> QED
      BY <3>6, <3>7
  <2>7. CASE d.kind = "full"
    <3>1. d = Full(g)
      BY <1>2, <2>7 DEF Devices, Partition, Full
    <3>2. Full(g) \notin Taken
      BY <3>1
    <3>3. Fits(f, d) <=> \A r \in Counters : n * s(r) + Total[r] <= Total[r]
      BY <1>0, <2>3, <2>5, <2>7, <3>2 DEF Fits, Consumes
    <3>4. CASE n = 0
      <4>1. \A r \in Counters : n * s(r) = 0
        BY <2>3, <3>4
      <4> QED
        BY <1>0, <2>2, <2>7, <3>3, <3>4, <4>1
    <3>5. CASE n # 0
      <4>1. n * s("memory") > 0
        BY <2>2, <2>3, <2>4, <3>5
      <4>2. ~ (n * s("memory") + Total["memory"] <= Total["memory"])
        BY <1>0, <2>3, <2>4, <4>1
      <4> QED
        BY <2>2, <2>4, <2>7, <3>3, <3>5, <4>2
    <3> QED
      BY <3>4, <3>5
  <2>8. d.kind \in {"partition", "full"}
    BY <1>2 DEF Devices, Partition, Full
  <2> QED
    BY <2>6, <2>7, <2>8
<1> QED
  BY <1>1, <1>2

--------------------------------------------------------------------------------
(***************************************************************************)
(* Invariants.                                                             *)
(***************************************************************************)

LEMMA DevicesAreOfTheProfile ==
  ASSUME NEW f \in Flags, NEW d \in Devices(f)
  PROVE  DeviceUnder(d, f.parts)
<1>1. f.gpus \in Nat /\ f.parts \in Int
  BY GpuDevicesAssumption
<1>2. CASE f.parts > 0
  BY <1>1, <1>2 DEF Devices, DeviceUnder, Partition, Full
<1>3. CASE ~ f.parts > 0
  BY <1>1, <1>3 DEF Devices, DeviceUnder, Whole
<1> QED
  BY <1>2, <1>3

\* Every claim holds at most one device and every device has at most one holder,
\* through any sequence of restarts, publications and claims.
THEOREM GpuDevicesTypeCorrect == GDSpec => []GDTypeOK
<1>1. GDInit => GDTypeOK
  BY DEF GDInit, GDTypeOK, Holders
<1>2. GDTypeOK /\ [GDNext]_gdVars => GDTypeOK'
  <2> SUFFICES ASSUME GDTypeOK, [GDNext]_gdVars
               PROVE  GDTypeOK'
    OBVIOUS
  <2> USE DEF GDTypeOK, Holders
  <2>1. CASE Publish
    BY <2>1 DEF Publish
  <2>2. ASSUME NEW f \in Flags, Restart(f)
        PROVE  GDTypeOK'
    BY <2>2 DEF Restart
  <2>3. ASSUME NEW c \in Claims, Allocate(c)
        PROVE  GDTypeOK'
    <3>1. PICK d \in Offered(published) \ Taken :
            allocations' = allocations \cup
              {[claim |-> c, device |-> d, parts |-> published.parts]}
      BY <2>3 DEF Allocate
    <3> DEFINE x == [claim |-> c, device |-> d, parts |-> published.parts]
    <3>2. x.claim = c /\ x.device = d /\ x.parts = published.parts
      OBVIOUS
    <3>3. published.parts \in Int /\ DeviceUnder(d, published.parts)
      BY DevicesAreOfTheProfile, OfferedAreDevices, GpuDevicesAssumption
    <3>4. \A a \in allocations : a.claim # c /\ a.device # d
      BY <2>3, <3>1 DEF Allocate, Taken
    <3>5. UNCHANGED <<resources, published, prepared, gone>>
      BY <2>3 DEF Allocate
    <3> HIDE DEF x
    <3>6. x = [claim |-> x.claim, device |-> x.device, parts |-> x.parts]
      BY <3>2 DEF x
    <3>7. allocations' = allocations \cup {x}
      BY <3>1 DEF x
    <3>8. \A a \in allocations' : /\ a = [claim |-> a.claim, device |-> a.device, parts |-> a.parts]
                                  /\ a.claim \in Claims
                                  /\ a.parts \in Int
                                  /\ DeviceUnder(a.device, a.parts)
      BY <3>2, <3>3, <3>6, <3>7
    <3>9. \A a, b \in allocations' : a.claim = b.claim \/ a.device = b.device => a = b
      BY <3>2, <3>4, <3>7
    <3>10. (prepared \subseteq Holders)' /\ (gone \subseteq Holders)'
      BY <3>5, <3>7
    <3>11. resources' \in Flags /\ published' \in Flags
      BY <3>5
    <3>12. \A a \in allocations' : DeviceUnder(a.device, a.parts)'
      BY <3>8 DEF DeviceUnder
    <3> QED
      BY <3>8, <3>9, <3>10, <3>11, <3>12
  <2>4. ASSUME NEW c \in Claims, Prepare(c)
        PROVE  GDTypeOK'
    BY <2>4 DEF Prepare
  <2>5. ASSUME NEW c \in Claims, PodGone(c)
        PROVE  GDTypeOK'
    BY <2>5 DEF PodGone
  <2>6. ASSUME NEW c \in Claims, Unprepare(c)
        PROVE  GDTypeOK'
    BY <2>6 DEF Unprepare
  <2>7. ASSUME NEW c \in Claims, Deallocate(c)
        PROVE  GDTypeOK'
    <3>1. (prepared \subseteq Holders)'
      BY <2>7 DEF Deallocate
    <3>2. (gone \subseteq Holders)'
      BY <2>7 DEF Deallocate
    <3> QED
      BY <2>7, <3>1, <3>2 DEF Deallocate
  <2>8. CASE UNCHANGED gdVars
    BY <2>8 DEF gdVars
  <2> QED
    BY <2>1, <2>2, <2>3, <2>4, <2>5, <2>6, <2>7, <2>8 DEF GDNext
<1> QED
  BY <1>1, <1>2, PTL DEF GDSpec

\* The published counters say exactly what a GPU can still give, for any sizes:
\* rounding the shares down neither strands a partition nor gives the full GPU
\* away beside one.
THEOREM CountersExact == GDSpec => []CountersAreExact
<1>1. GDTypeOK => CountersAreExact
  BY FitsExactly, OfferedAreDevices DEF GDTypeOK, CountersAreExact
<1> QED
  BY <1>1, GpuDevicesTypeCorrect, PTL

\* A full GPU and a partition of it are never held at once under one partition
\* count.  The invariant is inductive beside the types: what was allocated under
\* the published count and still exists is what the counters see.
THEOREM FullStaysExclusive == GDSpec => []FullIsExclusive
<1>1. GDInit => FullIsExclusive
  BY DEF GDInit, FullIsExclusive
<1>2. GDTypeOK /\ FullIsExclusive /\ [GDNext]_gdVars => FullIsExclusive'
  <2> SUFFICES ASSUME GDTypeOK, FullIsExclusive, [GDNext]_gdVars
               PROVE  FullIsExclusive'
    OBVIOUS
  <2>1. CASE UNCHANGED allocations
    BY <2>1 DEF FullIsExclusive
  <2>2. ASSUME NEW c \in Claims, Deallocate(c)
        PROVE  FullIsExclusive'
    BY <2>2 DEF Deallocate, FullIsExclusive
  <2>3. ASSUME NEW c \in Claims, Allocate(c)
        PROVE  FullIsExclusive'
    <3>1. PICK d \in Offered(published) \ Taken :
            /\ Fits(published, d)
            /\ allocations' = allocations \cup
                 {[claim |-> c, device |-> d, parts |-> published.parts]}
      BY <2>3 DEF Allocate
    <3>2. published \in Flags /\ published.parts \in Int /\ published.gpus \in Nat
      BY GpuDevicesAssumption DEF GDTypeOK
    <3>3. \/ d.kind = "whole"
          \/ d.kind = "partition" /\ Full(d.gpu) \notin Taken
          \/ d.kind = "full" /\ PartitionsTaken(published, d.gpu) = {}
      BY <3>1, <3>2, FitsExactly, OfferedAreDevices
    <3>4. DeviceUnder(d, published.parts)
      BY <3>1, <3>2, DevicesAreOfTheProfile, OfferedAreDevices
    \* What is held of this GPU under this count lies on the other side.
    <3>5. ASSUME NEW a \in allocations,
                 a.parts = published.parts, a.device.gpu = d.gpu
          PROVE  a.device.kind # "full" /\ d.kind # "full"
      <4>1. DeviceUnder(a.device, published.parts) /\ a.device \in Taken
        BY <3>5 DEF GDTypeOK, Taken
      <4>2. CASE d.kind = "whole"
        BY <3>2, <3>4, <3>5, <4>1, <4>2 DEF DeviceUnder, Whole, Full, Partition
      <4>3. CASE d.kind = "partition"
        <5>1. Full(d.gpu) \notin Taken
          BY <3>3, <4>3
        <5> QED
          BY <3>5, <4>1, <4>3, <5>1 DEF DeviceUnder, Whole, Full, Partition
      <4>4. CASE d.kind = "full"
        <5>1. PartitionsTaken(published, d.gpu) = {} /\ d = Full(d.gpu)
          BY <3>3, <3>4, <4>4 DEF DeviceUnder, Whole, Full, Partition
        <5>2. a.device # Full(d.gpu)
          BY <3>1, <4>1, <5>1
        <5>3. published.parts > 0
          BY <3>4, <4>4 DEF DeviceUnder, Whole, Full, Partition
        <5>4. PICK j \in 0 .. published.parts - 1 : a.device = Partition(d.gpu, j)
          BY <3>2, <3>5, <4>1, <5>2, <5>3 DEF DeviceUnder
        <5>5. j \in PartitionsTaken(published, d.gpu)
          BY <4>1, <5>4 DEF PartitionsTaken
        <5> QED
          BY <5>1, <5>5
      <4> QED
        BY <3>3, <4>2, <4>3, <4>4
    <3> QED
      BY <3>1, <3>5 DEF FullIsExclusive
  <2>4. CASE Publish \/ \E f \in Flags : Restart(f)
    BY <2>1, <2>4 DEF Publish, Restart
  <2>5. ASSUME NEW c \in Claims, Prepare(c) \/ PodGone(c) \/ Unprepare(c)
        PROVE  FullIsExclusive'
    BY <2>1, <2>5 DEF Prepare, PodGone, Unprepare
  <2>6. CASE UNCHANGED gdVars
    BY <2>1, <2>6 DEF gdVars
  <2> QED
    BY <2>2, <2>3, <2>4, <2>5, <2>6 DEF GDNext
<1> QED
  BY <1>1, <1>2, GpuDevicesTypeCorrect, PTL DEF GDSpec
================================================================================

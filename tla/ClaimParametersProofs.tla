------------------------- MODULE ClaimParametersProofs -------------------------
(***************************************************************************)
(* The review of a claim's parameters and the computation of its devices,  *)
(* for any configs, results and order of the loops over the map of groups. *)
(***************************************************************************)
EXTENDS ClaimParameters, DeviceConfigProofs, FiniteSetTheorems, TLAPS

--------------------------------------------------------------------------------
(***************************************************************************)
(* computeDeviceConfig: what it returns is a function of the claim.        *)
(***************************************************************************)

GroupOf(i) == Group(configs, results[i].request)

\* The prepared device of a result, and those of the claim.
DeviceOf(i) ==
  [result |-> i, group |-> GroupOf(i),
   edits |-> Normalize(Params(configs, GroupOf(i))), admin |-> AdminAccess]

Made == {DeviceOf(i) : i \in OwnResults}

\* Whether the claim is rejected.
Faulty ==
  \/ ~allocated
  \/ ~KnownSources(configs)
  \/ ~Decodable(configs)
  \/ ~AllAllocatable
  \/ \E g \in Groups : Apply(Params(configs, g)) # "ok"

Edited(i) == edits[results[i].device] = Normalize(Params(configs, GroupOf(i)))

DecodeInv == phase = "decode" => todo = {} /\ prepared = {}

ApplyInv ==
  phase = "apply" =>
    /\ allocated /\ KnownSources(configs) /\ Decodable(configs) /\ AllAllocatable
    /\ todo \subseteq Groups
    /\ prepared = {}
    /\ \A g \in Groups \ todo : Apply(Params(configs, g)) = "ok"
    /\ \A i \in OwnResults : GroupOf(i) \notin todo => Edited(i)

ListInv ==
  phase = "list" =>
    /\ ~Faulty
    /\ todo \subseteq Groups
    /\ \A i \in OwnResults : Edited(i)
    /\ prepared = {DeviceOf(i) : i \in {j \in OwnResults : GroupOf(j) \notin todo}}

ReturnInv ==
  /\ phase = "done" => ~Faulty /\ prepared = Made
  /\ phase = "failed" => Faulty /\ prepared = {}

FirstInv ==
  /\ round \in {1, 2}
  /\ round = 2 =>
       first = IF Faulty THEN [devices |-> {}, phase |-> "failed"]
                         ELSE [devices |-> Made, phase |-> "done"]

ComputeInv ==
  /\ results \in ResultLists
  /\ DecodeInv
  /\ ApplyInv
  /\ ListInv
  /\ ReturnInv
  /\ FirstInv

\* The claim's part of the invariant depends on its allocation only.
LEMMA ClaimUnchanged ==
  ASSUME UNCHANGED input
  PROVE  /\ OwnResults' = OwnResults
         /\ \A i : GroupOf(i)' = GroupOf(i)
         /\ \A i : DeviceOf(i)' = DeviceOf(i)
         /\ Groups' = Groups
         /\ Made' = Made
         /\ Faulty' = Faulty
         /\ AllAllocatable' = AllAllocatable
  BY DEF input, OwnResults, GroupOf, DeviceOf, AdminAccess, Groups, Made, Faulty,
         AllAllocatable

\* No two results of this driver are for the same device.
LEMMA DevicesDiffer ==
  ASSUME results \in ResultLists, NEW i \in OwnResults, NEW j \in OwnResults,
         results[i].device = results[j].device
  PROVE  i = j
  BY DeviceConfigAssumption DEF OwnResults

LEMMA DecodeKeeps == ComputeInv /\ Decode => ComputeInv'
<1> SUFFICES ASSUME ComputeInv, Decode PROVE ComputeInv'
  OBVIOUS
<1>1. UNCHANGED <<input, round, first>>
  BY DEF Decode, Fail
<1> USE <1>1, ClaimUnchanged DEF input
<1>2. CASE allocated /\ KnownSources(configs) /\ Decodable(configs) /\ AllAllocatable
  <2>1. phase' = "apply" /\ todo' = Groups /\ prepared' = {}
    BY <1>2 DEF Decode, ComputeInv, DecodeInv
  <2>2. \A i \in OwnResults : GroupOf(i) \in Groups
    BY DEF GroupOf, Groups
  <2> QED
    BY <1>2, <2>1, <2>2
    DEF ComputeInv, DecodeInv, ApplyInv, ListInv, ReturnInv, FirstInv
<1>3. CASE ~(allocated /\ KnownSources(configs) /\ Decodable(configs) /\ AllAllocatable)
  <2>1. phase' = "failed" /\ prepared' = {} /\ Faulty
    BY <1>3 DEF Decode, Fail, Faulty
  <2> QED
    BY <2>1 DEF ComputeInv, DecodeInv, ApplyInv, ListInv, ReturnInv, FirstInv
<1> QED
  BY <1>2, <1>3

\* A group gives its edits to its own devices and to no other result's.
LEMMA ApplyKeeps ==
  ASSUME ComputeInv, NEW g \in todo, ApplyGroup(g)
  PROVE  ComputeInv'
<1> USE ClaimUnchanged DEF input
<1>1. /\ phase = "apply" /\ phase' = "apply"
      /\ todo' = todo \ {g}
      /\ UNCHANGED <<allocated, configs, results, prepared, round, first>>
      /\ Apply(Params(configs, g)) = "ok"
  BY DEF ApplyGroup
<1>2. ASSUME NEW i \in OwnResults, GroupOf(i) \notin todo'
      PROVE  Edited(i)'
  <2>1. results[i].device \in Allocatable
    BY <1>1 DEF ComputeInv, ApplyInv, AllAllocatable
  <2>2. edits'[results[i].device] =
          IF \E j \in Members(g) : results[j].device = results[i].device
            THEN Normalize(Params(configs, g)) ELSE edits[results[i].device]
    BY <2>1 DEF ApplyGroup
  <2>3. i \in Members(g) <=> GroupOf(i) = g
    BY DEF Members, GroupOf
  <2>4. (\E j \in Members(g) : results[j].device = results[i].device) <=> GroupOf(i) = g
    BY <2>3, DevicesDiffer DEF Members, ComputeInv
  <2>5. GroupOf(i) = g \/ Edited(i)
    BY <1>1, <1>2 DEF ComputeInv, ApplyInv
  <2> QED
    BY <1>1, <2>2, <2>4, <2>5 DEF Edited
<1>3. ApplyInv'
  BY <1>1, <1>2 DEF ComputeInv, ApplyInv
<1> QED
  BY <1>1, <1>3 DEF ComputeInv, DecodeInv, ListInv, ReturnInv, FirstInv

LEMMA ApplyFailsKeeps ==
  ASSUME ComputeInv, NEW g \in todo, ApplyFails(g)
  PROVE  ComputeInv'
<1>1. phase = "apply" /\ phase' = "failed" /\ prepared' = {} /\ UNCHANGED <<input, round, first>>
  BY DEF ApplyFails, Fail
<1>2. Faulty
  BY <1>1 DEF ApplyFails, ComputeInv, ApplyInv, Faulty
<1> QED
  BY <1>1, <1>2, ClaimUnchanged
  DEF input, ComputeInv, DecodeInv, ApplyInv, ListInv, ReturnInv, FirstInv

LEMMA AppliedKeeps == ComputeInv /\ Applied => ComputeInv'
<1> SUFFICES ASSUME ComputeInv, Applied PROVE ComputeInv'
  OBVIOUS
<1> USE ClaimUnchanged DEF input
<1>1. /\ phase = "apply" /\ phase' = "list" /\ todo = {} /\ todo' = Groups
      /\ UNCHANGED <<allocated, configs, results, edits, prepared, round, first>>
  BY DEF Applied
<1>2. ~Faulty
  BY <1>1 DEF ComputeInv, ApplyInv, Faulty
<1>3. \A i \in OwnResults : GroupOf(i) \in Groups /\ Edited(i)
  BY <1>1 DEF ComputeInv, ApplyInv, GroupOf, Groups
<1>4. \A i : Edited(i)' = Edited(i)
  BY <1>1 DEF Edited
<1>5. prepared = {}
  BY <1>1 DEF ComputeInv, ApplyInv
<1>6. ListInv'
  BY <1>1, <1>2, <1>3, <1>4, <1>5 DEF ListInv
<1> QED
  BY <1>1, <1>6 DEF ComputeInv, DecodeInv, ApplyInv, ReturnInv, FirstInv

LEMMA ListKeeps ==
  ASSUME ComputeInv, NEW g \in todo, ListGroup(g)
  PROVE  ComputeInv'
<1> USE ClaimUnchanged DEF input
<1>1. /\ phase = "list" /\ phase' = "list" /\ todo' = todo \ {g}
      /\ UNCHANGED <<allocated, configs, results, edits, round, first>>
  BY DEF ListGroup
<1>2. \A i : Edited(i)' = Edited(i)
  BY <1>1 DEF Edited
<1>3. \A i \in Members(g) :
        DeviceOf(i) = [result |-> i, group |-> g, edits |-> edits[results[i].device],
                       admin |-> AdminAccess]
  BY <1>1 DEF Members, DeviceOf, GroupOf, ComputeInv, ListInv, Edited
<1>4. prepared' = prepared \cup {DeviceOf(i) : i \in Members(g)}
  BY <1>3 DEF ListGroup
<1>5. \A i \in OwnResults :
        GroupOf(i) \notin todo' <=> GroupOf(i) \notin todo \/ i \in Members(g)
  BY <1>1 DEF Members, GroupOf
<1>6. prepared' = {DeviceOf(i) : i \in {j \in OwnResults : GroupOf(j) \notin todo'}}
  BY <1>1, <1>4, <1>5 DEF ComputeInv, ListInv, Members
<1>7. ListInv'
  BY <1>1, <1>2, <1>6 DEF ComputeInv, ListInv
<1> QED
  BY <1>1, <1>7 DEF ComputeInv, DecodeInv, ApplyInv, ReturnInv, FirstInv

LEMMA ReturnsKeep == ComputeInv /\ (Listed \/ Restore) => ComputeInv'
<1> USE ClaimUnchanged DEF input
<1>1. ASSUME ComputeInv, Listed
      PROVE  ComputeInv'
  <2>1. /\ phase = "list" /\ phase' = "done" /\ todo = {}
        /\ UNCHANGED <<allocated, configs, results, prepared, round, first>>
    BY <1>1 DEF Listed
  <2>2. prepared = Made /\ ~Faulty
    BY <1>1, <2>1 DEF ComputeInv, ListInv, Made
  <2> QED
    BY <1>1, <2>1, <2>2 DEF ComputeInv, DecodeInv, ApplyInv, ListInv, ReturnInv, FirstInv
<1>2. ASSUME ComputeInv, Restore
      PROVE  ComputeInv'
  <2>1. /\ phase \in {"done", "failed"} /\ phase' = "decode"
        /\ todo' = {} /\ prepared' = {} /\ round' = 2
        /\ first' = [devices |-> prepared, phase |-> phase]
        /\ UNCHANGED <<allocated, configs, results>>
    BY <1>2 DEF Restore, Begin
  <2> QED
    BY <1>2, <2>1 DEF ComputeInv, DecodeInv, ApplyInv, ListInv, ReturnInv, FirstInv
<1> QED
  BY <1>1, <1>2

LEMMA ComputeKeeps == ComputeInv /\ ComputeStep => ComputeInv'
  BY DecodeKeeps, ApplyKeeps, ApplyFailsKeeps, AppliedKeeps, ListKeeps, ReturnsKeep
  DEF ComputeStep

LEMMA ComputeStutters == ComputeInv /\ UNCHANGED dcVars => ComputeInv'
<1> SUFFICES ASSUME ComputeInv, UNCHANGED dcVars PROVE ComputeInv'
  OBVIOUS
<1>1. \A i : Edited(i)' = Edited(i)
  BY ClaimUnchanged DEF dcVars, input, Edited
<1> QED
  BY <1>1, ClaimUnchanged
  DEF dcVars, input, ComputeInv, DecodeInv, ApplyInv, ListInv, ReturnInv, FirstInv

--------------------------------------------------------------------------------
(***************************************************************************)
(* The review.                                                             *)
(***************************************************************************)

\* The configs at fault among those looked at.
FoundAtFault == {i \in 1 .. at - 1 : Verdict(deviceConfigs[i]) = "error"}

Blameless == intact /\ \A i \in DOMAIN spec : Verdict(spec[i]) = "ok"

CountInv ==
  /\ spec \in SpecLists \cup {<<>>}
  /\ deviceConfigs \in {spec, <<>>}
  /\ at \in 1 .. Len(deviceConfigs) + 1
  /\ \A i \in 1 .. at - 1 : Verdict(deviceConfigs[i]) # "panic"
  /\ errs = Cardinality(FoundAtFault)

\* A verdict on an object is one on all of its configs.
ExtractInv ==
  /\ stage \in {"received", "unserved"} => deviceConfigs = <<>>
  /\ stage \in {"reviewing", "admitted", "aborted"} => deviceConfigs = spec

StageInv ==
  /\ version \in Versions \cup {"other"}
  /\ stage \in {"received", "unserved"} => object \in {"template", "claim"}
  /\ stage = "reviewing" => intact
  /\ stage = "admitted" => Blameless
  /\ stage = "denied" =>
       \/ version = "other"
       \/ ~intact
       \/ errs > 0 /\ at = Len(deviceConfigs) + 1 /\ deviceConfigs = spec
  /\ templated => Blameless /\ version \in Versions
  /\ TemplateVouchesForClaim

\* No device is computed before there is an allocation.
AllocationInv ==
  stage # "prepare" => phase = "decode" /\ round = 1 /\ todo = {} /\ prepared = {}

CPInv == ComputeInv /\ CountInv /\ ExtractInv /\ StageInv /\ AllocationInv

LEMMA SpecIsSequence ==
  ASSUME spec \in SpecLists \cup {<<>>}
  PROVE  spec \in Seq({c \in ConfigEntries : c.source = "claim"})
<1>1. CASE spec \in SpecLists
  BY <1>1, ClaimParametersAssumption
<1>2. CASE spec = <<>>
  BY <1>2
<1> QED
  BY <1>1, <1>2

LEMMA SpecDomain ==
  ASSUME spec \in SpecLists \cup {<<>>}
  PROVE  /\ Len(spec) \in Nat
         /\ DOMAIN spec = 1 .. Len(spec)
         /\ \A i \in DOMAIN spec : spec[i] \in ConfigEntries
  BY SpecIsSequence

LEMMA SpecSources ==
  ASSUME spec \in SpecLists \cup {<<>>}
  PROVE  \A i \in DOMAIN spec : spec[i].source = "claim"
  BY SpecIsSequence

LEMMA ExtractedDomain ==
  ASSUME CountInv
  PROVE  /\ Len(deviceConfigs) \in Nat
         /\ DOMAIN deviceConfigs = 1 .. Len(deviceConfigs)
         /\ \A i \in DOMAIN deviceConfigs : deviceConfigs[i] \in ConfigEntries
<1>1. CASE deviceConfigs = spec
  BY <1>1, SpecDomain DEF CountInv
<1>2. CASE deviceConfigs = <<>>
  BY <1>2
<1> QED
  BY <1>1, <1>2 DEF CountInv

\* "notOpaque" is skipped, "foreign" too: there is a verdict on every config.
LEMMA VerdictRange ==
  ASSUME NEW c \in ConfigEntries
  PROVE  Verdict(c) \in {"ok", "error", "panic"}
<1>1. c.form \in {"ours", "foreign", "notOpaque", "garbled"}
  BY DEF ConfigEntries
<1>2. Validate(c.params) \in {"ok", "error", "panic"}
  BY DEF Validate
<1> QED
  BY <1>1, <1>2 DEF Verdict

LEMMA InitCPInv == CPInit => CPInv
<1> SUFFICES ASSUME CPInit PROVE CPInv
  OBVIOUS
<1> USE DEF CPInit, DCStart
<1>1. ComputeInv
  BY DEF ComputeInv, DecodeInv, ApplyInv, ListInv, ReturnInv, FirstInv
<1>2. spec \in SpecLists \cup {<<>>} /\ at = 1 /\ errs = 0
  BY DEF Submitted, Unreviewed
<1>3. FoundAtFault = {}
  BY <1>2 DEF FoundAtFault
<1>4. CountInv
  BY <1>2, <1>3, FS_EmptySet DEF CountInv
<1>5. StageInv /\ ExtractInv
  BY DEF StageInv, ExtractInv, Submitted, Unreviewed, Versions, TemplateVouchesForClaim
<1>6. AllocationInv
  BY DEF AllocationInv
<1> QED
  BY <1>1, <1>4, <1>5, <1>6 DEF CPInv

\* The part of the invariant about the devices needs to know only whether the step
\* is Allocate, Prepares or neither.
LEMMA DevicesKeep == CPInv /\ CPNext => ComputeInv' /\ AllocationInv'
<1> SUFFICES ASSUME CPInv, CPNext PROVE ComputeInv' /\ AllocationInv'
  OBVIOUS
<1> USE DEF CPInv
<1>1. CASE Allocate
  <2>1. /\ phase = "decode" /\ round = 1 /\ todo = {} /\ prepared = {}
        /\ UNCHANGED <<results, phase, round, todo, prepared>>
        /\ stage' = "prepare"
    BY <1>1 DEF Allocate, AllocationInv
  <2> QED
    BY <2>1
    DEF ComputeInv, DecodeInv, ApplyInv, ListInv, ReturnInv, FirstInv, AllocationInv
<1>2. CASE Prepares
  BY <1>2, ComputeKeeps DEF Prepares, review, AllocationInv
<1>3. CASE ~Allocate /\ ~Prepares
  <2>1. UNCHANGED dcVars
    BY <1>3 DEF CPNext, Unserved, Resubmit, ExtractClaim, ExtractTemplate, Extracts, ExtractFails, Moves,
                Passes, Faults, Panics, Respond, Instantiate
  <2>2. stage' # "prepare"
    BY <1>3 DEF CPNext, Unserved, Resubmit, ExtractClaim, ExtractTemplate, Extracts, ExtractFails, Moves,
                Passes, Faults, Panics, Respond, Instantiate, Reviewing
  <2>3. stage # "prepare"
    BY <1>3 DEF CPNext, Unserved, Resubmit, ExtractClaim, ExtractTemplate, Extracts, ExtractFails, Moves,
                Passes, Faults, Panics, Respond, Instantiate, Reviewing
  <2> QED
    BY <2>1, <2>2, <2>3, ComputeStutters DEF dcVars, AllocationInv
<1> QED
  BY <1>1, <1>2, <1>3

LEMMA FoundIsFinite == ASSUME CountInv PROVE IsFiniteSet(FoundAtFault)
<1>1. IsFiniteSet(1 .. at - 1)
  BY ExtractedDomain, FS_Interval DEF CountInv
<1> QED
  BY <1>1, FS_Subset DEF FoundAtFault

\* One more config is looked at and counted if it is at fault.
LEMMA CountKeeps == CPInv /\ CPNext => CountInv'
<1> SUFFICES ASSUME CPInv, CPNext PROVE CountInv'
  OBVIOUS
<1>1. /\ CountInv
      /\ Len(deviceConfigs) \in Nat /\ DOMAIN deviceConfigs = 1 .. Len(deviceConfigs)
      /\ at \in 1 .. Len(deviceConfigs) + 1
  BY ExtractedDomain DEF CPInv, CountInv
<1>2. CASE Passes
  <2>1. /\ at \in 1 .. Len(deviceConfigs) /\ at' = at + 1 /\ errs' = errs
        /\ UNCHANGED <<deviceConfigs, spec>> /\ Verdict(deviceConfigs[at]) = "ok"
    BY <1>1, <1>2 DEF Passes, Reviewing, request
  <2>2. FoundAtFault' = FoundAtFault
    BY <2>1 DEF FoundAtFault
  <2>3. \A i \in 1 .. at' - 1 : Verdict(deviceConfigs'[i]) # "panic"
    BY <1>1, <2>1 DEF CountInv
  <2> QED
    BY <1>1, <2>1, <2>2, <2>3 DEF CountInv
<1>3. CASE Faults
  <2>1. /\ at \in 1 .. Len(deviceConfigs) /\ at' = at + 1 /\ errs' = errs + 1
        /\ UNCHANGED <<deviceConfigs, spec>> /\ Verdict(deviceConfigs[at]) = "error"
    BY <1>1, <1>3 DEF Faults, Reviewing, request
  <2>2. FoundAtFault' = FoundAtFault \cup {at}
    BY <2>1 DEF FoundAtFault
  <2>3. at \notin FoundAtFault
    BY <2>1 DEF FoundAtFault
  <2>4. Cardinality(FoundAtFault') = Cardinality(FoundAtFault) + 1
    BY <1>1, <2>2, <2>3, FoundIsFinite, FS_AddElement
  <2>5. \A i \in 1 .. at' - 1 : Verdict(deviceConfigs'[i]) # "panic"
    BY <1>1, <2>1 DEF CountInv
  <2> QED
    BY <1>1, <2>1, <2>4, <2>5 DEF CountInv
<1>4. CASE ExtractClaim \/ ExtractTemplate \/ Instantiate
  <2>1. at' = 1 /\ errs' = 0 /\ deviceConfigs' \in {spec, <<>>} /\ spec' = spec
    <3>1. CASE Instantiate
      BY <3>1 DEF Instantiate
    <3>2. CASE ExtractClaim \/ ExtractTemplate
      <4>1. stage = "received" /\ UNCHANGED <<at, errs, spec>>
            /\ deviceConfigs' \in {spec, <<>>}
        BY <3>2 DEF ExtractClaim, ExtractTemplate, Extracts, ConfigsAt, request
      <4>2. deviceConfigs = <<>> /\ at = 1
        BY <1>1, <4>1 DEF CPInv, ExtractInv
      <4>3. FoundAtFault = {}
        BY <4>2 DEF FoundAtFault
      <4> QED
        BY <1>1, <4>1, <4>2, <4>3, FS_EmptySet DEF CountInv
    <3> QED
      BY <1>4, <3>1, <3>2
  <2>2. FoundAtFault' = {} /\ 1 .. at' - 1 = {}
    BY <2>1 DEF FoundAtFault
  <2>3. Cardinality(FoundAtFault') = 0
    BY <2>2, FS_EmptySet
  <2>4. Len(deviceConfigs') \in Nat
    BY <1>1, <2>1, SpecDomain DEF CountInv
  <2> QED
    BY <1>1, <2>1, <2>2, <2>3, <2>4 DEF CountInv
<1>5. CASE ~Passes /\ ~Faults /\ ~ExtractClaim /\ ~ExtractTemplate /\ ~Instantiate
  <2>1. UNCHANGED <<spec, deviceConfigs, at, errs>>
    BY <1>5 DEF CPNext, Unserved, Resubmit, ExtractFails, Moves, Panics, Respond, Allocate,
                Prepares, review, request
  <2>2. FoundAtFault' = FoundAtFault
    BY <2>1 DEF FoundAtFault
  <2> QED
    BY <1>1, <2>1, <2>2 DEF CountInv
<1> QED
  BY <1>2, <1>3, <1>4, <1>5

\* With no error and no panic counted at the end, no config is at fault.
LEMMA NoneAtFault ==
  ASSUME CountInv, at = Len(deviceConfigs) + 1, errs = 0
  PROVE  \A i \in DOMAIN deviceConfigs : Verdict(deviceConfigs[i]) = "ok"
<1>1. FoundAtFault = {}
  BY FoundIsFinite, FS_EmptySet DEF CountInv
<1>2. Len(deviceConfigs) \in Nat /\ DOMAIN deviceConfigs = 1 .. at - 1
  BY ExtractedDomain DEF CountInv
<1>3. \A i \in DOMAIN deviceConfigs : Verdict(deviceConfigs[i]) \in {"ok", "error", "panic"}
  BY ExtractedDomain, VerdictRange DEF CountInv
<1> QED
  BY <1>1, <1>2, <1>3 DEF CountInv, FoundAtFault

\* And with none at fault, none is counted.
LEMMA NoneCounted ==
  ASSUME CountInv, \A i \in DOMAIN deviceConfigs : Verdict(deviceConfigs[i]) = "ok"
  PROVE  errs = 0
<1>1. \A i \in 1 .. at - 1 : i \in DOMAIN deviceConfigs
  BY ExtractedDomain DEF CountInv
<1>2. FoundAtFault = {}
  BY <1>1 DEF FoundAtFault
<1> QED
  BY <1>2, FS_EmptySet DEF CountInv

LEMMA CountIsNatural == ASSUME CountInv PROVE errs \in Nat
  BY FoundIsFinite, FS_CardinalityType DEF CountInv

\* The path is that of the object's kind: the review sees all configs.
LEMMA ExtractsAll ==
  ASSUME ExtractClaim \/ ExtractTemplate
  PROVE  deviceConfigs' = spec /\ spec' = spec
<1>1. CASE ExtractClaim
  <2>1. object = "claim"
    BY <1>1 DEF ExtractClaim, ClaimCase, resource
  <2> QED
    BY <1>1, <2>1 DEF ExtractClaim, Extracts, ConfigsAt, request
<1>2. CASE ExtractTemplate
  <2>1. object = "template"
    BY <1>2 DEF ExtractTemplate, TemplateCase, resource
  <2> QED
    BY <1>2, <2>1 DEF ExtractTemplate, Extracts, ConfigsAt, request
<1> QED
  BY <1>1, <1>2

\* The switches know the same resources: only an unknown or damaged object is denied
\* without a look at its configs.
LEMMA DeniedUnseen ==
  ASSUME ExtractFails, object \in {"template", "claim"}, version \in Versions
  PROVE  ~intact
<1>1. resource \in {"claim"} \X {"v1", "v1beta1", "v1beta2"}
      \/ resource \in {"template"} \X {"v1", "v1beta1", "v1beta2"}
  BY DEF resource, Versions
<1> QED
  BY <1>1 DEF ExtractFails, ClaimCase, ClaimDecoded, TemplateCase, TemplateDecoded

LEMMA ExtractKeeps == CPInv /\ CPNext => ExtractInv'
<1> SUFFICES ASSUME CPInv, CPNext PROVE ExtractInv'
  OBVIOUS
<1>1. CASE ExtractClaim \/ ExtractTemplate
  <2>1. stage' = "reviewing"
    BY <1>1 DEF ExtractClaim, ExtractTemplate, Extracts
  <2> QED
    BY <1>1, <2>1, ExtractsAll DEF ExtractInv
<1>2. CASE Instantiate
  BY <1>2 DEF Instantiate, ExtractInv
<1>3. CASE ~ExtractClaim /\ ~ExtractTemplate /\ ~Instantiate
  <2>1. UNCHANGED <<spec, deviceConfigs>>
    BY <1>3 DEF CPNext, Unserved, Resubmit, ExtractFails, Moves, Passes, Faults, Panics,
                Respond, Allocate, Prepares, review, request
  <2>2. /\ stage' \in {"received", "unserved"} => stage \in {"received", "unserved"}
        /\ stage' \in {"reviewing", "admitted", "aborted"} =>
             stage \in {"reviewing", "admitted", "aborted"}
    BY <1>3 DEF CPNext, Unserved, Resubmit, ExtractFails, Moves, Passes, Faults, Panics,
                Reviewing, Respond, Allocate, Prepares, review
  <2> QED
    BY <2>1, <2>2 DEF CPInv, ExtractInv
<1> QED
  BY <1>1, <1>2, <1>3

LEMMA StageKeeps == CPInv /\ CPNext => StageInv'
<1> SUFFICES ASSUME CPInv, CPNext PROVE StageInv'
  OBVIOUS
<1> USE DEF CPInv
<1>1. UNCHANGED <<intact, spec>> => Blameless' = Blameless
  BY DEF Blameless, Verdict, Validate
<1>2. CASE Unserved \/ Resubmit
  BY <1>1, <1>2 DEF Unserved, Resubmit, Moves, request, StageInv, TemplateVouchesForClaim
<1>3. CASE ExtractClaim \/ ExtractTemplate
  <2>1. /\ stage' = "reviewing" /\ UNCHANGED request /\ intact
    BY <1>3 DEF ExtractClaim, ExtractTemplate, Extracts, ClaimDecoded, TemplateDecoded
  <2> QED
    BY <1>1, <2>1 DEF request, StageInv, TemplateVouchesForClaim
<1>4. CASE ExtractFails
  <2>1. stage = "received" /\ stage' = "denied" /\ UNCHANGED request
    BY <1>4 DEF ExtractFails, Moves
  <2>2. version = "other" \/ ~intact
    BY <1>4, <2>1, DeniedUnseen DEF StageInv
  <2>3. ~templated
    BY <2>2 DEF StageInv, Blameless, Versions
  <2> QED
    BY <1>1, <2>1, <2>2, <2>3 DEF request, StageInv, TemplateVouchesForClaim
<1>5. CASE Passes \/ Faults
  BY <1>1, <1>5 DEF Passes, Faults, Reviewing, request, StageInv, TemplateVouchesForClaim
<1>6. CASE Panics
  <2>1. /\ stage = "reviewing" /\ stage' = "aborted" /\ UNCHANGED request
        /\ at \in DOMAIN deviceConfigs /\ Verdict(deviceConfigs[at]) = "panic"
    BY <1>6 DEF Panics, Reviewing
  <2>2. ~templated
    BY <2>1 DEF ExtractInv, StageInv, Blameless
  <2> QED
    BY <1>1, <2>1, <2>2 DEF request, StageInv, TemplateVouchesForClaim
<1>7. CASE Respond
  <2>1. /\ stage = "reviewing" /\ at = Len(deviceConfigs) + 1 /\ deviceConfigs = spec
        /\ UNCHANGED <<object, version, intact, templated, spec, deviceConfigs, at, errs>>
    BY <1>7 DEF Respond, request, ExtractInv
  <2>2. CASE errs = 0
    <3>1. stage' = "admitted"
      BY <1>7, <2>2 DEF Respond
    <3>2. Blameless
      BY <2>1, <2>2, NoneAtFault DEF StageInv, Blameless
    <3> QED
      BY <1>1, <2>1, <3>1, <3>2 DEF StageInv, TemplateVouchesForClaim
  <2>3. CASE errs # 0
    <3>1. stage' = "denied" /\ errs > 0
      BY <1>7, <2>3, CountIsNatural DEF Respond
    <3>2. ~templated
      BY <2>1, <2>3, NoneCounted DEF StageInv, Blameless
    <3> QED
      BY <1>1, <2>1, <3>1, <3>2 DEF StageInv, TemplateVouchesForClaim
  <2> QED
    BY <2>2, <2>3
<1>8. CASE Instantiate
  BY <1>1, <1>8 DEF Instantiate, StageInv, TemplateVouchesForClaim
<1>9. CASE Allocate \/ Prepares
  BY <1>1, <1>9 DEF Allocate, Prepares, review, request, StageInv, TemplateVouchesForClaim
<1> QED
  BY <1>2, <1>3, <1>4, <1>5, <1>6, <1>7, <1>8, <1>9 DEF CPNext

LEMMA CPInvStutters == CPInv /\ UNCHANGED cpVars => CPInv'
<1> SUFFICES ASSUME CPInv, UNCHANGED cpVars PROVE CPInv'
  OBVIOUS
<1>1. UNCHANGED <<dcVars, phase, round, todo, prepared, object, version, intact,
                  templated, spec, deviceConfigs, at, errs, stage>>
  BY DEF cpVars, review, request, dcVars
<1>2. FoundAtFault' = FoundAtFault /\ Blameless' = Blameless
  BY <1>1 DEF FoundAtFault, Blameless, Verdict, Validate
<1> QED
  BY <1>1, <1>2, ComputeStutters
  DEF CPInv, CountInv, ExtractInv, StageInv, AllocationInv, TemplateVouchesForClaim

THEOREM ReviewInvariant == CPSpec => []CPInv
<1>1. CPInv /\ [CPNext]_cpVars => CPInv'
  BY DevicesKeep, CountKeeps, ExtractKeeps, StageKeeps, CPInvStutters DEF CPInv
<1> QED
  BY InitCPInv, <1>1, PTL DEF CPSpec

--------------------------------------------------------------------------------
(***************************************************************************)
(* What follows from it.                                                   *)
(***************************************************************************)

\* computeDeviceConfig makes one device of each result of this driver, however
\* many configs and results there are and whatever order the map is visited in.
THEOREM EachResultOneDevice == CPSpec => []ResultsBecomeDevices
<1>1. CPInv => ResultsBecomeDevices
  <2> SUFFICES ASSUME CPInv, phase = "done" PROVE
        /\ {p.result : p \in prepared} = OwnResults
        /\ \A p, q \in prepared : p.result = q.result => p = q
    BY DEF ResultsBecomeDevices
  <2>1. prepared = Made
    BY DEF CPInv, ComputeInv, ReturnInv
  <2>2. \A i : DeviceOf(i).result = i
    BY DEF DeviceOf
  <2> QED
    BY <2>1, <2>2 DEF Made
<1> QED
  BY <1>1, ReviewInvariant, PTL

\* A claim restored from the checkpoint gets the devices and edits it was prepared
\* with, or fails again if it failed, whatever two orders the map is visited in.
THEOREM RestoreComputesTheSame == CPSpec => []RestoredAsPrepared
<1>1. CPInv => RestoredAsPrepared
  BY DEF CPInv, ComputeInv, ReturnInv, FirstInv, RestoredAsPrepared, Returns
<1> QED
  BY <1>1, ReviewInvariant, PTL

\* The webhook denies for a cause, and names the number of all configs at fault.
THEOREM DenialCountsAll == CPSpec => []DenialIsComplete
<1>1. CPInv => DenialIsComplete
  <2> SUFFICES ASSUME CPInv, stage = "denied", version # "other", intact PROVE
        /\ errs > 0
        /\ errs = Cardinality({i \in DOMAIN spec :
                     \/ spec[i].form = "garbled"
                     \/ spec[i].form = "ours" /\ Validate(spec[i].params) # "ok"})
    BY DEF DenialIsComplete
  <2>1. CountInv /\ errs > 0 /\ at = Len(spec) + 1 /\ deviceConfigs = spec
    BY DEF CPInv, StageInv
  <2>2. /\ Len(spec) \in Nat /\ DOMAIN spec = 1 .. at - 1
        /\ \A i \in DOMAIN spec : spec[i] \in ConfigEntries
    BY <2>1, SpecDomain DEF CountInv
  <2>3. ASSUME NEW i \in DOMAIN spec
        PROVE  Verdict(spec[i]) = "error" <=>
                 \/ spec[i].form = "garbled"
                 \/ spec[i].form = "ours" /\ Validate(spec[i].params) # "ok"
    <3>1. spec[i].form \in {"ours", "foreign", "notOpaque", "garbled"}
      BY <2>2, <2>3 DEF ConfigEntries
    <3>2. Verdict(spec[i]) # "panic"
      BY <2>1, <2>2, <2>3 DEF CountInv
    <3>3. Validate(spec[i].params) \in {"ok", "error", "panic"}
      BY DEF Validate
    <3> QED
      BY <3>1, <3>2, <3>3 DEF Verdict
  <2> QED
    BY <2>1, <2>2, <2>3 DEF CountInv, FoundAtFault
<1> QED
  BY <1>1, ReviewInvariant, PTL

\* The claim of an admitted template is never denied, nor its review aborted.
THEOREM TemplateVouches == CPSpec => []TemplateVouchesForClaim
<1>1. CPInv => TemplateVouchesForClaim
  BY DEF CPInv, StageInv
<1> QED
  BY <1>1, ReviewInvariant, PTL

--------------------------------------------------------------------------------
(***************************************************************************)
(* Where the configs come from, and the types.                             *)
(***************************************************************************)

\* The configs of a reviewed claim are those of its class and those it was
\* admitted with.
ConfigInv ==
  /\ configs \in Seq(ConfigEntries)
  /\ stage = "prepare" /\ object = "claim" =>
       allocated /\ Blameless /\ \E class \in ClassLists : configs = class \o spec

TypeInv ==
  /\ allocated \in BOOLEAN
  /\ phase \in {"decode", "apply", "list", "done", "failed"}
  /\ phase \notin {"apply", "list"} => todo = {}
  /\ edits \in [Allocatable -> Configs]
  /\ round = 1 => first = [devices |-> {}, phase |-> "none"]
  /\ object \in {"template", "claim", "unreviewed"}
  /\ intact \in BOOLEAN
  /\ templated \in BOOLEAN
  /\ stage \in Stages
  /\ templated => object = "claim"

LEMMA ClassAndSpec ==
  ASSUME NEW class \in ClassLists, spec \in SpecLists \cup {<<>>}
  PROVE  /\ class \o spec \in Seq(ConfigEntries)
         /\ \A i \in DOMAIN (class \o spec) :
              \/ (class \o spec)[i].source = "class"
              \/ \E j \in DOMAIN spec : (class \o spec)[i] = spec[j]
<1>1. class \in Seq({c \in ConfigEntries : c.source = "class"})
  BY ClaimParametersAssumption
<1>2. spec \in Seq({c \in ConfigEntries : c.source = "claim"})
  BY SpecIsSequence
<1>3. class \in Seq(ConfigEntries) /\ spec \in Seq(ConfigEntries)
  BY <1>1, <1>2
<1>4. \A i \in 1 .. Len(class) : class[i].source = "class"
  BY <1>1
<1>5. /\ Len(class) \in Nat /\ Len(spec) \in Nat /\ DOMAIN spec = 1 .. Len(spec)
      /\ DOMAIN (class \o spec) = 1 .. Len(class) + Len(spec)
      /\ \A i \in 1 .. Len(class) : (class \o spec)[i] = class[i]
      /\ \A i \in 1 .. Len(class) + Len(spec) :
           i > Len(class) => (class \o spec)[i] = spec[i - Len(class)]
  BY <1>3
<1>6. ASSUME NEW i \in DOMAIN (class \o spec)
      PROVE  \/ (class \o spec)[i].source = "class"
             \/ \E j \in DOMAIN spec : (class \o spec)[i] = spec[j]
  <2>1. CASE i \in 1 .. Len(class)
    BY <1>4, <1>5, <2>1
  <2>2. CASE i \notin 1 .. Len(class)
    <3>1. i - Len(class) \in DOMAIN spec /\ i > Len(class)
      BY <1>5, <2>2
    <3> QED
      BY <1>5, <3>1
  <2> QED
    BY <2>1, <2>2
<1> QED
  BY <1>3, <1>6

LEMMA InitConfigAndType == CPInit => ConfigInv /\ TypeInv
<1> SUFFICES ASSUME CPInit PROVE ConfigInv /\ TypeInv
  OBVIOUS
<1>1. ASSUME Submitted PROVE ConfigInv
  BY <1>1 DEF ConfigInv, Submitted
<1>2. ASSUME Unreviewed PROVE ConfigInv
  BY <1>2, DeviceConfigAssumption DEF ConfigInv, Unreviewed
<1>3. TypeInv
  BY DEF TypeInv, CPInit, DCStart, Submitted, Unreviewed, Stages, Configs
<1> QED
  BY <1>1, <1>2, <1>3 DEF CPInit

LEMMA ConfigKeeps == CPInv /\ ConfigInv /\ CPNext => ConfigInv'
<1> SUFFICES ASSUME CPInv, ConfigInv, CPNext PROVE ConfigInv'
  OBVIOUS
<1>1. CASE Allocate
  <2>1. PICK class \in ClassLists : configs' = class \o spec
    BY <1>1 DEF Allocate
  <2>2. Blameless' /\ allocated' /\ spec' = spec
    BY <1>1 DEF Allocate, request, CPInv, StageInv, Blameless, Verdict, Validate
  <2>3. class \o spec \in Seq(ConfigEntries)
    BY ClassAndSpec DEF CPInv, CountInv
  <2> QED
    BY <2>1, <2>2, <2>3 DEF ConfigInv
<1>2. CASE ~Allocate
  <2>1. UNCHANGED <<allocated, configs>>
    BY <1>2 DEF CPNext, Unserved, Resubmit, ExtractClaim, ExtractTemplate, Extracts, ExtractFails, Moves, Passes, Faults,
                Panics, Respond, Instantiate, Prepares, ComputeStep, dcVars, input, Decode,
                Fail, ApplyGroup, ApplyFails, ListGroup, Applied, Listed, Restore
  <2>2. stage' = "prepare" => stage = "prepare" /\ UNCHANGED <<object, intact, spec>>
    BY <1>2 DEF CPNext, Unserved, Resubmit, ExtractClaim, ExtractTemplate, Extracts, ExtractFails, Moves, Passes, Faults,
                Panics, Respond, Instantiate, Prepares, review, request, Reviewing
  <2>3. UNCHANGED <<intact, spec>> => Blameless' = Blameless
    BY DEF Blameless, Verdict, Validate
  <2> QED
    BY <2>1, <2>2, <2>3 DEF ConfigInv
<1> QED
  BY <1>1, <1>2

\* The groups are places in the list that is searched.
LEMMA GroupsAreRanked ==
  ASSUME configs \in Seq(ConfigEntries)
  PROVE  Groups \subseteq DOMAIN Ranked(configs)
  BY GroupFound DEF Groups

LEMMA TypeKeeps == CPInv /\ ConfigInv /\ TypeInv /\ CPNext => TypeInv'
<1> SUFFICES ASSUME CPInv, ConfigInv, TypeInv, CPNext PROVE TypeInv'
  OBVIOUS
<1>1. CASE Prepares
  <2>1. UNCHANGED <<object, intact, templated, stage>>
    BY <1>1 DEF Prepares, review, request
  <2>2. /\ allocated' = allocated
        /\ phase' \in {"decode", "apply", "list", "done", "failed"}
        /\ phase' \notin {"apply", "list"} => todo' = {}
        /\ round' = 1 => first' = [devices |-> {}, phase |-> "none"]
    BY <1>1 DEF Prepares, ComputeStep, Decode, Fail, ApplyGroup, ApplyFails, ListGroup,
                Applied, Listed, Restore, Begin, input, TypeInv
  <2>3. ASSUME NEW g \in todo, ApplyGroup(g)
        PROVE  edits' \in [Allocatable -> Configs]
    <3>1. g \in DOMAIN Ranked(configs)
      BY <2>3, GroupsAreRanked DEF ApplyGroup, CPInv, ComputeInv, ApplyInv, ConfigInv
    <3>2. Normalize(Params(configs, g)) \in Configs
      BY <3>1, ParamsAreConfig, NormalizedHasSection DEF ConfigInv, Configs
    <3> QED
      BY <2>3, <3>2 DEF ApplyGroup, TypeInv
  <2>4. ASSUME ~(\E g \in todo : ApplyGroup(g))
        PROVE  edits' \in [Allocatable -> Configs]
    <3>1. edits' = edits \/ edits' = [d \in Allocatable |-> Unset]
      BY <1>1, <2>4 DEF Prepares, ComputeStep, Decode, Fail, ApplyFails, ListGroup,
                        Applied, Listed, Restore, Begin
    <3> QED
      BY <3>1 DEF TypeInv, Configs
  <2>5. edits' \in [Allocatable -> Configs]
    BY <2>3, <2>4
  <2> QED
    BY <2>1, <2>2, <2>5 DEF TypeInv
<1>2. CASE ~Prepares
  <2>1. UNCHANGED <<phase, todo, edits, round, first>> /\ allocated' \in BOOLEAN
    BY <1>2 DEF TypeInv, CPNext, Unserved, Resubmit, ExtractClaim, ExtractTemplate, Extracts, ExtractFails, Moves, Passes, Faults,
                Panics, Respond, Instantiate, Allocate, dcVars
  <2>2. CASE Instantiate
    BY <2>1, <2>2 DEF Instantiate, TypeInv, Stages
  <2>3. CASE ~Instantiate
    <3>1. UNCHANGED <<object, intact, templated>>
      BY <1>2, <2>3 DEF CPNext, Unserved, Resubmit, ExtractClaim, ExtractTemplate, Extracts, ExtractFails, Moves, Passes,
                        Faults, Panics, Respond, Allocate, request
    <3>2. stage' \in Stages
      BY <1>2, <2>3 DEF CPNext, Unserved, Resubmit, ExtractClaim, ExtractTemplate, Extracts, ExtractFails, Moves, Passes,
                        Faults, Panics, Respond, Allocate, TypeInv, Stages
    <3> QED
      BY <2>1, <3>1, <3>2 DEF TypeInv
  <2> QED
    BY <2>2, <2>3
<1> QED
  BY <1>1, <1>2

THEOREM ClaimInvariant == CPSpec => [](CPInv /\ ConfigInv /\ TypeInv)
<1>1. CPInv /\ ConfigInv /\ TypeInv /\ UNCHANGED cpVars => ConfigInv' /\ TypeInv'
  <2> SUFFICES ASSUME ConfigInv, TypeInv, UNCHANGED cpVars PROVE ConfigInv' /\ TypeInv'
    OBVIOUS
  <2>1. Blameless' = Blameless
    BY DEF cpVars, review, request, Blameless, Verdict, Validate
  <2>2. ConfigInv'
    BY <2>1 DEF ConfigInv, cpVars, dcVars, review, request
  <2>3. TypeInv'
    BY DEF TypeInv, cpVars, dcVars, review, request
  <2> QED
    BY <2>2, <2>3
<1>2. CPInv /\ ConfigInv /\ TypeInv /\ [CPNext]_cpVars => ConfigInv' /\ TypeInv'
  BY <1>1, ConfigKeeps, TypeKeeps
<1> QED
  BY InitConfigAndType, ReviewInvariant, <1>2, PTL DEF CPSpec

--------------------------------------------------------------------------------
(***************************************************************************)
(* What follows for the devices.                                           *)
(***************************************************************************)

\* Every device is configured by the config that takes precedence for its request,
\* whatever configs the class and the claim have, and however many.
THEOREM PrecedenceHolds == CPSpec => []HighestPrecedenceApplied
<1>1. CPInv /\ ConfigInv => HighestPrecedenceApplied
  <2> SUFFICES ASSUME CPInv, ConfigInv, phase = "done", NEW p \in prepared
               PROVE  p.edits = Expected(results[p.result].request)
    BY DEF HighestPrecedenceApplied
  <2>1. PICK i \in OwnResults : p = DeviceOf(i)
    BY DEF CPInv, ComputeInv, ReturnInv, Made
  <2>2. p.result = i /\ p.edits = Normalize(Params(configs, GroupOf(i)))
    BY <2>1 DEF DeviceOf
  <2>3. KnownSources(configs)
    BY DEF CPInv, ComputeInv, ReturnInv, Faulty
  <2> QED
    BY <2>2, <2>3, InForceIsExpected DEF ConfigInv, GroupOf
<1> QED
  BY <1>1, ClaimInvariant, PTL

\* Whether a claim is rejected, told from what is promised instead of from the list
\* that is searched.
LEMMA FaultyAsExpected ==
  ASSUME configs \in Seq(ConfigEntries)
  PROVE  Faulty <=>
           \/ ~allocated
           \/ \E i \in DOMAIN configs :
                \/ configs[i].source = "other"
                \/ configs[i].form \in {"notOpaque", "garbled"}
           \/ \E i \in OwnResults :
                \/ results[i].device \notin Allocatable
                \/ Apply(Expected(results[i].request)) # "ok"
<1>1. ASSUME KnownSources(configs)
      PROVE  (\E g \in Groups : Apply(Params(configs, g)) # "ok") <=>
               \E i \in OwnResults : Apply(Expected(results[i].request)) # "ok"
  BY <1>1, AppliesAsExpected DEF Groups
<1>2. ~Decodable(configs) <=>
        \E i \in DOMAIN configs : configs[i].form \in {"notOpaque", "garbled"}
  BY DEF Decodable
<1>3. ~AllAllocatable <=> \E i \in OwnResults : results[i].device \notin Allocatable
  BY DEF AllAllocatable
<1>4. ~KnownSources(configs) <=> \E i \in DOMAIN configs : configs[i].source = "other"
  <2>1. \A i \in DOMAIN configs : configs[i] \in ConfigEntries
    OBVIOUS
  <2>2. \A i \in DOMAIN configs : configs[i].source \in {"class", "claim", "other"}
    BY <2>1 DEF ConfigEntries
  <2> QED
    BY <2>2 DEF KnownSources
<1> QED
  BY <1>1, <1>2, <1>3, <1>4 DEF Faulty

\* A config in force for no result of this driver never fails a claim, and one in
\* force that cannot be applied fails it in every order of the map; what else fails
\* it is its allocation: missing, with a config of an unknown source or form
\* anywhere in the list, or with a device the driver has not enumerated.
THEOREM OnlyConfigsInForceMatter == CPSpec => []UnusedConfigsDoNotMatter
<1>1. CPInv /\ ConfigInv => UnusedConfigsDoNotMatter
  <2> SUFFICES ASSUME CPInv, ConfigInv, Returns
               PROVE  phase = "failed" <=> Faulty
    BY FaultyAsExpected DEF UnusedConfigsDoNotMatter, ConfigInv
  <2> QED
    BY DEF Returns, CPInv, ComputeInv, ReturnInv
<1> QED
  BY <1>1, ClaimInvariant, PTL

LEMMA DefaultApplies == Apply(DefaultGpuConfig) = "ok"
<1>1. DefaultGpuConfig # Unset /\ "Default" # Unset
  BY GpuConfigAssumption
  DEF DefaultGpuConfig, Sharings, Strategies, Intervals
<1>2. Validate(DefaultGpuConfig) = "ok" /\ Settled(DefaultGpuConfig)
  BY <1>1 DEF Validate, Settled, DefaultGpuConfig, Strategies, Intervals
<1> QED
  BY <1>2, DefaultIsConfig, ValidAppliesIfSettled

\* A config of a reviewed claim is in order if those of its class are: it has passed
\* the review, and Apply agrees with Validate where the other section is unset.
LEMMA ReviewedInOrder ==
  ASSUME CPInv, ConfigInv, RestInOrder,
         \A i \in DOMAIN spec :
           /\ spec[i].form # "notOpaque"
           /\ spec[i].form = "ours" => Settled(spec[i].params)
  PROVE  \A i \in DOMAIN configs :
           /\ configs[i].form \in {"ours", "foreign"}
           /\ configs[i].form = "ours" => Apply(configs[i].params) = "ok"
<1>1. PICK class \in ClassLists : configs = class \o spec
  BY DEF ConfigInv, RestInOrder
<1>2. Blameless
  BY DEF ConfigInv, RestInOrder
<1>3. spec \in SpecLists \cup {<<>>}
  BY DEF CPInv, CountInv
<1> SUFFICES ASSUME NEW i \in DOMAIN configs
             PROVE  /\ configs[i].form \in {"ours", "foreign"}
                    /\ configs[i].form = "ours" => Apply(configs[i].params) = "ok"
  OBVIOUS
<1>4. configs[i].source = "class" \/ \E j \in DOMAIN spec : configs[i] = spec[j]
  BY <1>1, <1>3, ClassAndSpec
<1>5. CASE configs[i].source = "class"
  BY <1>5 DEF RestInOrder
<1>6. CASE \E j \in DOMAIN spec : configs[i] = spec[j]
  <2>1. PICK j \in DOMAIN spec : configs[i] = spec[j]
    BY <1>6
  <2>2. spec[j] \in ConfigEntries /\ Verdict(spec[j]) = "ok"
    BY <1>2, <1>3, SpecDomain DEF Blameless
  <2>3. spec[j].form \in {"ours", "foreign", "notOpaque", "garbled"} /\ spec[j].params \in Configs
    BY <2>2 DEF ConfigEntries
  <2>4. spec[j].form # "garbled"
    BY <2>2 DEF Verdict
  <2>5. spec[j].form = "ours" => Validate(spec[j].params) = "ok"
    BY <2>2 DEF Verdict
  <2> QED
    BY <2>1, <2>3, <2>4, <2>5, ValidAppliesIfSettled
<1> QED
  BY <1>4, <1>5, <1>6

\* What the webhook has admitted the plugin prepares, where no config carries the
\* section of the strategy not in force and what users do not write is in order.
THEOREM AdmittedSettledPrepares == CPSpec => []AdmittedSettledIsPrepared
<1>1. CPInv /\ ConfigInv => AdmittedSettledIsPrepared
  <2> SUFFICES ASSUME CPInv, ConfigInv, RestInOrder, phase = "failed",
                      \A i \in DOMAIN spec :
                        /\ spec[i].form # "notOpaque"
                        /\ spec[i].form = "ours" => Settled(spec[i].params)
               PROVE  FALSE
    BY DEF AdmittedSettledIsPrepared
  <2>1. \A i \in DOMAIN configs :
          /\ configs[i].form \in {"ours", "foreign"}
          /\ configs[i].form = "ours" => Apply(configs[i].params) = "ok"
    BY ReviewedInOrder
  <2>2. /\ allocated /\ Decodable(configs) /\ AllAllocatable
        /\ KnownSources(configs)
    <3>1. PICK class \in ClassLists : configs = class \o spec
      BY DEF ConfigInv, RestInOrder
    <3>2. \A i \in DOMAIN configs : configs[i].source \in {"class", "claim"}
      BY <3>1, ClassAndSpec, SpecSources DEF CPInv, CountInv
    <3> QED
      BY <2>1, <3>2 DEF Decodable, KnownSources, RestInOrder, ConfigInv
  <2>3. PICK g \in Groups : Apply(Params(configs, g)) # "ok"
    BY <2>2 DEF CPInv, ComputeInv, ReturnInv, Faulty
  <2>4. PICK req : g = Group(configs, req)
    BY DEF Groups
  <2> DEFINE best == {i \in Relevant(req) :
                        \A j \in Relevant(req) \ {i} : Beats(i, j)}
  <2>5. \/ Params(configs, g) = DefaultGpuConfig
        \/ \E i \in DOMAIN configs : best = {i} /\ Params(configs, g) = configs[i].params
    BY <2>2, <2>4, FoundIsBest DEF ConfigInv
  <2>6. PICK i \in DOMAIN configs : best = {i} /\ Params(configs, g) = configs[i].params
    BY <2>3, <2>5, DefaultApplies
  <2>7. configs[i].form = "ours"
    BY <2>6 DEF Relevant
  <2> QED
    BY <2>1, <2>3, <2>6, <2>7
<1> QED
  BY <1>1, ClaimInvariant, PTL

--------------------------------------------------------------------------------
(***************************************************************************)
(* The type invariant.                                                     *)
(***************************************************************************)

LEMMA DevicesAreTyped ==
  ASSUME CPInv, ConfigInv, TypeInv
  PROVE  /\ Made \subseteq PreparedDevice
         /\ prepared \subseteq PreparedDevice
<1>1. ASSUME NEW i \in OwnResults
      PROVE  DeviceOf(i) \in PreparedDevice
  <2>1. results \in Seq(Results)
    BY DeviceConfigAssumption DEF CPInv, ComputeInv
  <2>2. i \in Nat
    BY <2>1 DEF OwnResults
  <2>3. GroupOf(i) \in DOMAIN Ranked(configs)
    BY GroupFound DEF GroupOf, ConfigInv
  <2>4. GroupOf(i) \in Nat
    BY <2>3, RankedIs DEF ConfigInv
  <2>5. Normalize(Params(configs, GroupOf(i))) \in Sharings
    BY <2>3, ParamsAreConfig, NormalizedHasSection DEF ConfigInv
  <2>6. AdminAccess \in BOOLEAN
    BY DEF AdminAccess
  <2> QED
    BY <2>2, <2>4, <2>5, <2>6 DEF DeviceOf, PreparedDevice
<1>2. Made \subseteq PreparedDevice
  BY <1>1 DEF Made
<1>3. prepared \subseteq Made
  BY DEF CPInv, ComputeInv, DecodeInv, ApplyInv, ListInv, ReturnInv, TypeInv, Made
<1> QED
  BY <1>2, <1>3

\* No more configs are counted than there are.
LEMMA CountIsBounded == ASSUME CountInv PROVE errs \in 0 .. Len(deviceConfigs)
<1>1. Len(deviceConfigs) \in Nat /\ at - 1 \in Nat /\ at - 1 <= Len(deviceConfigs)
  BY ExtractedDomain DEF CountInv
<1>2. IsFiniteSet(1 .. at - 1) /\ Cardinality(1 .. at - 1) = at - 1
  BY <1>1, FS_Interval
<1>3. Cardinality(FoundAtFault) <= at - 1
  BY <1>2, FS_Subset DEF FoundAtFault
<1>4. errs \in Nat /\ errs = Cardinality(FoundAtFault)
  BY CountIsNatural DEF CountInv
<1> QED
  BY <1>1, <1>3, <1>4

\* The review and the computation keep to their types; in particular every group on
\* the way is a place in the list, every edit a normalized config, and no more errors
\* are counted than there are configs.
THEOREM ParametersTypeCorrect == CPSpec => []CPTypeOK
<1>1. CPInv /\ ConfigInv /\ TypeInv => CPTypeOK
  <2> SUFFICES ASSUME CPInv, ConfigInv, TypeInv PROVE CPTypeOK
    OBVIOUS
  <2>1. results \in Seq(Results)
    BY DeviceConfigAssumption DEF CPInv, ComputeInv
  <2>2. todo \subseteq DOMAIN Ranked(configs)
    BY GroupsAreRanked DEF ConfigInv, TypeInv, CPInv, ComputeInv, ApplyInv, ListInv
  <2>3. first \in Returned
    BY DevicesAreTyped DEF CPInv, ComputeInv, FirstInv, TypeInv, Returned
  <2>4. DCTypeOK
    BY <2>1, <2>2, <2>3, DevicesAreTyped
    DEF DCTypeOK, ConfigInv, TypeInv, CPInv, ComputeInv, FirstInv
  <2>5. errs \in 0 .. Len(deviceConfigs)
    BY CountIsBounded DEF CPInv
  <2> QED
    BY <2>4, <2>5 DEF CPTypeOK, TypeInv, CPInv, CountInv, StageInv
<1> QED
  BY <1>1, ClaimInvariant, PTL

--------------------------------------------------------------------------------
(***************************************************************************)
(* Reviews that end in a panic.                                            *)
(***************************************************************************)

\* The config at fault is under review when the handler panics, and nothing happens
\* to the object afterwards.
AbortInv ==
  stage = "aborted" => at \in DOMAIN deviceConfigs /\ Verdict(deviceConfigs[at]) = "panic"

LEMMA AbortKeeps == AbortInv /\ [CPNext]_cpVars => AbortInv'
<1> SUFFICES ASSUME AbortInv, [CPNext]_cpVars
             PROVE  AbortInv'
  OBVIOUS
<1>1. CASE Panics
  BY <1>1 DEF Panics, Reviewing, AbortInv, Verdict, Validate
<1>2. CASE Unserved \/ Resubmit \/ ExtractClaim \/ ExtractTemplate \/ ExtractFails \/ Passes \/ Faults \/ Respond
             \/ Instantiate \/ Allocate
  <2>1. stage' # "aborted"
    BY <1>2 DEF Unserved, Resubmit, ExtractClaim, ExtractTemplate, Extracts, ExtractFails, Passes, Faults, Reviewing, Respond,
       Instantiate, Allocate, Moves
  <2> QED
    BY <2>1 DEF AbortInv
<1>3. CASE Prepares
  BY <1>3 DEF Prepares, review, AbortInv, Verdict, Validate
<1>4. CASE UNCHANGED cpVars
  BY <1>4 DEF cpVars, review, AbortInv, Verdict, Validate
<1> QED
  BY <1>1, <1>2, <1>3, <1>4 DEF CPNext

\* A review that gets no answer is of an object whose author has left the section of
\* the strategy to its default: a config the plugin itself applies, unless it also has
\* a section of the other strategy.
THEOREM AbortsOnDefaults ==
  CPSpec => [](stage = "aborted" =>
                 \E i \in DOMAIN spec :
                   /\ spec[i].form = "ours"
                   /\ Validate(spec[i].params) = "panic"
                   /\ Apply(spec[i].params) = "ok" <=> Settled(spec[i].params))
<1>1. CPInit => AbortInv
  BY DEF CPInit, Submitted, Unreviewed, AbortInv
<1>2. CPSpec => []AbortInv
  BY <1>1, AbortKeeps, PTL DEF CPSpec
<1>3. CPInv /\ AbortInv =>
        (stage = "aborted" =>
           \E i \in DOMAIN spec :
             /\ spec[i].form = "ours"
             /\ Validate(spec[i].params) = "panic"
             /\ Apply(spec[i].params) = "ok" <=> Settled(spec[i].params))
  <2> SUFFICES ASSUME CPInv, AbortInv, stage = "aborted"
               PROVE  \E i \in DOMAIN spec :
                        /\ spec[i].form = "ours"
                        /\ Validate(spec[i].params) = "panic"
                        /\ Apply(spec[i].params) = "ok" <=> Settled(spec[i].params)
    OBVIOUS
  <2>1. at \in DOMAIN spec /\ Verdict(spec[at]) = "panic"
    BY DEF AbortInv, CPInv, ExtractInv
  <2>2. spec[at] \in ConfigEntries
    BY <2>1, SpecDomain DEF CPInv, CountInv
  <2>3. spec[at].form = "ours" /\ Validate(spec[at].params) = "panic"
    BY <2>1, <2>2 DEF Verdict, ConfigEntries
  <2>4. Apply(spec[at].params) = "ok" <=> Settled(spec[at].params)
    BY <2>2, <2>3, PanicsAreApplied DEF ConfigEntries
  <2> QED
    BY <2>1, <2>3, <2>4
<1> QED
  BY <1>2, <1>3, ReviewInvariant, PTL
================================================================================

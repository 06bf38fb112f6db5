---------------------------- MODULE ClaimParameters ----------------------------
(***************************************************************************)
(* The opaque parameters of one claim from the user to the device: the     *)
(* webhook reviews them in a ResourceClaim or in the ResourceClaimTemplate *)
(* the claim is made from, the scheduler copies them into the allocation   *)
(* next to those of the device class, which nobody reviews, and the plugin *)
(* computes the device configuration from them (module DeviceConfig).      *)
(* The webhook is optional: a claim may also come without any review.      *)
(***************************************************************************)
EXTENDS DeviceConfig

CONSTANTS
  SpecLists,   \* the values of spec.devices.config of the claim or its template
  ClassLists   \* the configs of the device class

ASSUME ClaimParametersAssumption ==
  /\ SpecLists \subseteq Seq({c \in ConfigEntries : c.source = "claim"})
  /\ ClassLists \subseteq Seq({c \in ConfigEntries : c.source = "class"})

VARIABLES
  object,     \* what is under review: "template" or "claim", or "unreviewed"
  version,    \* the API version it is submitted in
  intact,     \* the object can be decoded in its version
  templated,  \* the claim was made from an admitted template
  spec,       \* spec.devices.config, or spec.spec.devices.config of the template
  deviceConfigs, \* what the review has extracted of it
  at,         \* configIndex of the review, from 1
  errs,       \* the number of errors collected
  stage       \* see Stages

request == <<object, version, intact, templated, spec>>
review == <<request, deviceConfigs, at, errs, stage>>
cpVars == <<dcVars, review>>

\* ResourceClaims and ResourceClaimTemplates come in these versions, anything else
\* in "other".
Versions == {"v1", "v1beta1", "v1beta2"}

Stages == {"received", "unserved", "reviewing", "admitted", "denied", "aborted", "prepare"}

Submitted ==
  /\ object \in {"template", "claim"}
  /\ version \in Versions \cup {"other"}
  /\ intact \in BOOLEAN
  /\ spec \in SpecLists
  /\ allocated = FALSE
  /\ configs = <<>>
  /\ stage = "received"

Unreviewed ==
  /\ object = "unreviewed"
  /\ version = "v1"
  /\ intact = TRUE
  /\ spec = <<>>
  /\ allocated \in BOOLEAN
  /\ configs \in ConfigLists
  /\ ~allocated => configs = <<>> /\ results = <<>>
  /\ stage = "prepare"

CPInit ==
  /\ DCStart
  /\ Submitted \/ Unreviewed
  /\ templated = FALSE
  /\ deviceConfigs = <<>>
  /\ at = 1
  /\ errs = 0

CPTypeOK ==
  /\ DCTypeOK
  /\ object \in {"template", "claim", "unreviewed"}
  /\ version \in Versions \cup {"other"}
  /\ intact \in BOOLEAN
  /\ templated \in BOOLEAN
  /\ spec \in SpecLists \cup {<<>>}
  /\ deviceConfigs \in {spec, <<>>}
  /\ at \in 1 .. Len(deviceConfigs) + 1
  /\ errs \in 0 .. Len(deviceConfigs)
  /\ stage \in Stages
  /\ templated => object = "claim"

--------------------------------------------------------------------------------
(***************************************************************************)
(* serve, and the extraction of the configs.                               *)
(***************************************************************************)

Moves(from, to) ==
  /\ stage = from
  /\ stage' = to
  /\ UNCHANGED <<request, deviceConfigs, at, errs, dcVars>>

\* The request is not read, or its answer not written: the API server, whose
\* failure policy is Fail, refuses the object, and the client submits it again.
Unserved == Moves("received", "unserved")

Resubmit == Moves("unserved", "received")

\* ar.Request.Resource.
resource == <<object, version>>

\* The cases of the review's switch,
ClaimCase == resource \in {"claim"} \X {"v1", "v1beta1", "v1beta2"}
TemplateCase == resource \in {"template"} \X {"v1", "v1beta1", "v1beta2"}

\* Mutant of ClaimDecoded: one version is missing from the second switch.
ClaimDecodedOld == intact /\ resource \in {"claim"} \X {"v1", "v1beta1"}

\* and those of the switches of the functions it calls, which decode the object
\* into the type of its version and convert that to v1.
ClaimDecoded == intact /\ resource \in {"claim"} \X {"v1", "v1beta1", "v1beta2"}
TemplateDecoded == intact /\ resource \in {"template"} \X {"v1", "v1beta1", "v1beta2"}

\* The devices.config at a path of the decoded object: a template has it one level
\* deeper than a claim, and a field that is not there is empty.
ConfigsAt(path) ==
  IF <<object, path>> \in {<<"claim", "spec">>, <<"template", "spec.spec">>}
    THEN spec ELSE <<>>

Extracts(list) ==
  /\ stage = "received"
  /\ deviceConfigs' = list
  /\ stage' = "reviewing"
  /\ UNCHANGED <<request, at, errs, dcVars>>

ExtractClaim ==
  /\ ClaimCase
  /\ ClaimDecoded
  /\ Extracts(ConfigsAt("spec"))

\* Mutant of ExtractTemplate: the template is taken for the claim it holds.
ExtractTemplateAsClaim ==
  /\ TemplateCase
  /\ TemplateDecoded
  /\ Extracts(ConfigsAt("spec"))

ExtractTemplate ==
  /\ TemplateCase
  /\ TemplateDecoded
  /\ Extracts(ConfigsAt("spec.spec"))

ExtractFails ==
  /\ ~(ClaimCase /\ ClaimDecoded)
  /\ ~(TemplateCase /\ TemplateDecoded)
  /\ Moves("received", "denied")

--------------------------------------------------------------------------------
(***************************************************************************)
(* admitResourceClaimParameters: one config after the other.               *)
(***************************************************************************)

Reviewing == stage = "reviewing" /\ at \in DOMAIN deviceConfigs

\* What the review makes of a config: skipped if it is not for this driver, and
\* otherwise decoded and validated, as it was written and without defaults.
Verdict(c) ==
  CASE c.form \in {"foreign", "notOpaque"} -> "ok"
    [] c.form = "garbled" -> "error"
    [] c.form = "ours" -> Validate(c.params)

Passes ==
  /\ Reviewing
  /\ Verdict(deviceConfigs[at]) = "ok"
  /\ at' = at + 1
  /\ UNCHANGED <<request, deviceConfigs, errs, stage, dcVars>>

\* Mutant of Faults: the review ends at the first error.
FaultsOnce ==
  /\ Reviewing
  /\ Verdict(deviceConfigs[at]) = "error"
  /\ at' = Len(deviceConfigs) + 1
  /\ errs' = errs + 1
  /\ UNCHANGED <<request, deviceConfigs, stage, dcVars>>

\* Mutant of Faults: an object that cannot be decoded is logged and passed over.
FaultsOnlyInvalid ==
  /\ Reviewing
  /\ Verdict(deviceConfigs[at]) = "error"
  /\ at' = at + 1
  /\ errs' = IF deviceConfigs[at].form = "garbled" THEN errs ELSE errs + 1
  /\ UNCHANGED <<request, deviceConfigs, stage, dcVars>>

Faults ==
  /\ Reviewing
  /\ Verdict(deviceConfigs[at]) = "error"
  /\ at' = at + 1
  /\ errs' = errs + 1
  /\ UNCHANGED <<request, deviceConfigs, stage, dcVars>>

\* The handler panics on a nil section; the server drops the connection and the
\* API server rejects the object.
Panics ==
  /\ Reviewing
  /\ Verdict(deviceConfigs[at]) = "panic"
  /\ stage' = "aborted"
  /\ UNCHANGED <<request, deviceConfigs, at, errs, dcVars>>

Respond ==
  /\ stage = "reviewing"
  /\ at = Len(deviceConfigs) + 1
  /\ stage' = IF errs = 0 THEN "admitted" ELSE "denied"
  /\ UNCHANGED <<request, deviceConfigs, at, errs, dcVars>>

--------------------------------------------------------------------------------
(***************************************************************************)
(* The cluster, and the plugin.                                            *)
(***************************************************************************)

\* The controller makes the claim of a template, in a version of its own choice; it
\* is reviewed in its turn.
Instantiate ==
  /\ stage = "admitted"
  /\ object = "template"
  /\ object' = "claim"
  /\ version' \in Versions
  /\ templated' = TRUE
  /\ deviceConfigs' = <<>>
  /\ at' = 1
  /\ errs' = 0
  /\ stage' = "received"
  /\ UNCHANGED <<intact, spec, dcVars>>

Allocate ==
  /\ stage = "admitted"
  /\ object = "claim"
  /\ \E class \in ClassLists : configs' = class \o spec
  /\ allocated' = TRUE
  /\ stage' = "prepare"
  /\ UNCHANGED <<request, deviceConfigs, at, errs,
                 results, phase, todo, edits, prepared, round, first>>

Prepares ==
  /\ stage = "prepare"
  /\ ComputeStep
  /\ UNCHANGED review

CPNext ==
  \/ Unserved
  \/ Resubmit
  \/ ExtractClaim
  \/ ExtractTemplate
  \/ ExtractFails
  \/ Passes
  \/ Faults
  \/ Panics
  \/ Respond
  \/ Instantiate
  \/ Allocate
  \/ Prepares

CPSpec == CPInit /\ [][CPNext]_cpVars

--------------------------------------------------------------------------------
(***************************************************************************)
(* Properties.                                                             *)
(***************************************************************************)

\* What is outside of the user's parameters is in order: the devices exist and
\* the configs of the class can be applied.
RestInOrder ==
  /\ object = "claim"
  /\ stage = "prepare"
  /\ AllAllocatable
  /\ \A i \in DOMAIN configs : configs[i].source = "class" =>
       /\ configs[i].form \in {"ours", "foreign"}
       /\ configs[i].form = "ours" => Apply(configs[i].params) = "ok"

\* The webhook vouches for what the plugin will do: parameters it has admitted
\* do not make Prepare fail, in either round.
AdmittedIsPrepared == RestInOrder => phase # "failed"

\* The webhook checks with other functions than the plugin applies with (Validate
\* alone, against Normalize, Validate and the getters of each strategy).  Where no
\* config carries the section of the strategy not in force, they agree on those of
\* this driver.  They also disagree on a config that is not opaque: the review
\* skips it and the plugin refuses the claim, whoever the config is for.  The
\* claims that have one are left out here.
AdmittedSettledIsPrepared ==
  /\ RestInOrder
  /\ \A i \in DOMAIN spec :
       /\ spec[i].form # "notOpaque"
       /\ spec[i].form = "ours" => Settled(spec[i].params)
  => phase # "failed"

\* A denial is for a cause: the object is none the webhook knows in any version, or
\* it counts every config at fault ("%d configs failed to validate"), after whatever
\* mixture of errors and other drivers' configs came before.
DenialIsComplete ==
  stage = "denied" =>
    \/ version = "other"
    \/ ~intact
    \/ /\ errs > 0
       /\ errs = Cardinality({i \in DOMAIN spec :
                    \/ spec[i].form = "garbled"
                    \/ spec[i].form = "ours" /\ Validate(spec[i].params) # "ok"})

\* A pod must not get stuck between two reviews: the claim made from an admitted
\* template is admitted, although each is decoded by a switch of its own, in a
\* version of its own, and has its configs at a path of its own.
TemplateVouchesForClaim == templated => stage \notin {"denied", "aborted"}

\* Validate "returns nil for valid configuration, or an error explaining why the
\* configuration is invalid" (profiles.go): every review is answered.
ReviewAnswered == stage # "aborted"
================================================================================

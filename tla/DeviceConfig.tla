------------------------------ MODULE DeviceConfig -----------------------------
(***************************************************************************)
(* computeDeviceConfig: from the allocation in a claim's status to the     *)
(* prepared devices with their container edits.  It runs twice in each     *)
(* behaviour, as it does when a claim is prepared and later restored from  *)
(* the checkpoint: once for each value of round.  How the claim came by    *)
(* its configs is in module ClaimParameters.                               *)
(*                                                                         *)
(* The configs are grouped in a Go map and the groups are visited twice,   *)
(* to apply them and to list their devices, each time in an order of the   *)
(* runtime's choice: ApplyGroup and ListGroup take any group that is left. *)
(***************************************************************************)
EXTENDS GpuConfig, Sequences, FiniteSets

CONSTANTS
  Requests,     \* the requests of the claim
  Allocatable,  \* the device names the driver has enumerated
  Gone,         \* device names it has not
  ConfigLists,  \* the values of claim.Status.Allocation.Devices.Config
  ResultLists   \* the values of claim.Status.Allocation.Devices.Results

VARIABLES
  allocated, \* claim.Status.Allocation is there
  configs,   \* claim.Status.Allocation.Devices.Config
  results,   \* claim.Status.Allocation.Devices.Results
  phase,     \* decode, apply, list, done or failed
  todo,      \* the groups the current loop has not visited
  edits,     \* perDeviceCDIContainerEdits
  prepared,  \* preparedDevices, in no order
  round,     \* 1 when Prepare computes, 2 when it restores
  first      \* what round 1 returned

input == <<allocated, configs, results>>
dcVars == <<allocated, configs, results, phase, todo, edits, prepared, round, first>>

\* source: where the config comes from, "other" if the API has grown one more; form:
\* addressed to this driver and decodable ("ours"), to another driver, not opaque, or
\* not decodable.
ConfigEntries == [source : {"class", "claim", "other"},
                  form : {"ours", "foreign", "notOpaque", "garbled"},
                  requests : SUBSET Requests,
                  params : Configs]

Results == [request : Requests, device : Allocatable \cup Gone,
            driver : {"ours", "foreign"}, admin : BOOLEAN]

\* The allocator gives a claim no device of a driver twice.
ASSUME DeviceConfigAssumption ==
  /\ Allocatable \cap Gone = {}
  /\ \A rs \in ResultLists : \A i, j \in DOMAIN rs :
       rs[i].device = rs[j].device /\ rs[i].driver = rs[j].driver => i = j
  /\ ConfigLists \subseteq Seq(ConfigEntries)
  /\ ResultLists \subseteq Seq(Results)

\* A device is named by the index of its result, which has its request and name.
PreparedDevice == [result : Nat, group : Nat, edits : Sharings, admin : BOOLEAN]

Returned == [devices : SUBSET PreparedDevice, phase : {"none", "done", "failed"}]

--------------------------------------------------------------------------------
(***************************************************************************)
(* GetOpaqueDeviceConfigs.                                                 *)
(***************************************************************************)

From(source) == {c \in ConfigEntries : c.source = source}

\* What a loop that appends the entries in T has collected: kept[n] is the slice
\* after the first n entries of s.
Kept(s, T) ==
  LET kept[n \in 0 .. Len(s)] ==
        IF n = 0 THEN <<>>
        ELSE IF s[n] \in T THEN Append(kept[n - 1], s[n]) ELSE kept[n - 1]
  IN  kept[Len(s)]

\* A source that is neither of the two is an error, whoever the config is for.
KnownSources(cs) == \A i \in DOMAIN cs : cs[i].source \in {"class", "claim"}

\* Mutant of Candidates: the order of the sources is reversed.
ClaimFirst(cs) == Kept(cs, From("claim")) \o Kept(cs, From("class"))

\* The configs of the class, then those of the claim, each in their order.
Candidates(cs) == Kept(cs, From("class")) \o Kept(cs, From("claim"))

\* Any config that is not opaque is an error, an undecodable one only if it is
\* addressed to this driver.
Decodable(cs) == \A i \in DOMAIN cs : cs[i].form \notin {"notOpaque", "garbled"}

OpaqueConfigs(cs) ==
  LET own == Kept(Candidates(cs), {c \in ConfigEntries : c.form = "ours"}) IN
  [i \in DOMAIN own |-> [requests |-> own[i].requests, params |-> own[i].params]]

\* The default config has the lowest precedence and matches every request.
Ranked(cs) == <<[requests |-> {}, params |-> DefaultGpuConfig]>> \o OpaqueConfigs(cs)

--------------------------------------------------------------------------------
(***************************************************************************)
(* Which config is applied to which result.                                *)
(***************************************************************************)

OwnResults == {i \in DOMAIN results : results[i].driver = "ours"}

Matches(config, request) == config.requests = {} \/ request \in config.requests

\* The last config of the list that matches, found from the back.
Group(cs, request) ==
  LET matching == {i \in DOMAIN Ranked(cs) : Matches(Ranked(cs)[i], request)} IN
  CHOOSE i \in matching : \A j \in matching : j <= i

\* Mutant of Groups: every config is applied, in force or not.
GroupsOfAllConfigs == DOMAIN Ranked(configs)

Groups == {Group(configs, results[i].request) : i \in OwnResults}

\* Mutant of Members: the search goes on after the first match.
MembersOfAll(g) == {i \in OwnResults : Matches(Ranked(configs)[g], results[i].request)}

\* The results grouped under a config.
Members(g) == {i \in OwnResults : Group(configs, results[i].request) = g}

\* checkAdminAccess: of all results, those of other drivers included.
AdminAccess == \E i \in DOMAIN results : results[i].admin

Params(cs, g) == Ranked(cs)[g].params

--------------------------------------------------------------------------------
DCTypeOK ==
  /\ allocated \in BOOLEAN
  /\ configs \in Seq(ConfigEntries)
  /\ results \in Seq(Results)
  /\ phase \in {"decode", "apply", "list", "done", "failed"}
  /\ todo \subseteq DOMAIN Ranked(configs)
  /\ edits \in [Allocatable -> Configs]
  /\ prepared \subseteq PreparedDevice
  /\ round \in {1, 2}
  /\ first \in Returned

\* A round starts with the same claim and nothing else.
Begin(r) ==
  /\ phase' = "decode"
  /\ todo' = {}
  /\ edits' = [d \in Allocatable |-> Unset]
  /\ prepared' = {}
  /\ round' = r

DCStart ==
  /\ results \in ResultLists
  /\ phase = "decode"
  /\ todo = {}
  /\ edits = [d \in Allocatable |-> Unset]
  /\ prepared = {}
  /\ round = 1
  /\ first = [devices |-> {}, phase |-> "none"]

Fail ==
  /\ phase' = "failed"
  /\ todo' = {}
  /\ prepared' = {}
  /\ UNCHANGED <<edits, input, round, first>>

AllAllocatable == \A i \in OwnResults : results[i].device \in Allocatable

Decode ==
  /\ phase = "decode"
  /\ IF allocated /\ KnownSources(configs) /\ Decodable(configs) /\ AllAllocatable
       THEN /\ phase' = "apply"
            /\ todo' = Groups
            /\ UNCHANGED <<edits, prepared, input, round, first>>
       ELSE Fail

\* ApplyConfig on one group.  Each of its devices gets the edits of this config,
\* and loses those another group may have given it.
ApplyGroup(g) ==
  /\ phase = "apply"
  /\ g \in todo
  /\ Apply(Params(configs, g)) = "ok"
  /\ edits' = [d \in Allocatable |->
       IF \E i \in Members(g) : results[i].device = d
         THEN Normalize(Params(configs, g)) ELSE edits[d]]
  /\ todo' = todo \ {g}
  /\ UNCHANGED <<phase, prepared, input, round, first>>

\* Mutant of ApplyFails: the error ends the loop and is not returned.
ApplyStops(g) ==
  /\ phase = "apply"
  /\ g \in todo
  /\ Apply(Params(configs, g)) # "ok"
  /\ phase' = "list"
  /\ todo' = Groups
  /\ UNCHANGED <<edits, prepared, input, round, first>>

ApplyFails(g) ==
  /\ phase = "apply"
  /\ g \in todo
  /\ Apply(Params(configs, g)) # "ok"
  /\ Fail

Applied ==
  /\ phase = "apply"
  /\ todo = {}
  /\ phase' = "list"
  /\ todo' = Groups
  /\ UNCHANGED <<edits, prepared, input, round, first>>

ListGroup(g) ==
  /\ phase = "list"
  /\ g \in todo
  /\ prepared' = prepared \cup
       {[result |-> i, group |-> g, edits |-> edits[results[i].device],
         admin |-> AdminAccess] : i \in Members(g)}
  /\ todo' = todo \ {g}
  /\ UNCHANGED <<phase, edits, input, round, first>>

Listed ==
  /\ phase = "list"
  /\ todo = {}
  /\ phase' = "done"
  /\ UNCHANGED <<todo, edits, prepared, input, round, first>>

\* The claim is restored: the same computation, on the same claim.
Restore ==
  /\ phase \in {"done", "failed"}
  /\ round = 1
  /\ first' = [devices |-> prepared, phase |-> phase]
  /\ Begin(2)
  /\ UNCHANGED input

ComputeStep ==
  \/ Decode
  \/ \E g \in todo : ApplyGroup(g) \/ ApplyFails(g) \/ ListGroup(g)
  \/ Applied
  \/ Listed
  \/ Restore

--------------------------------------------------------------------------------
(***************************************************************************)
(* Properties.  Expected states the precedence of README and of the        *)
(* comment on GetOpaqueDeviceConfigs over the allocation itself: no list   *)
(* is reordered and nothing is searched from the back.                     *)
(***************************************************************************)

Returns == phase \in {"done", "failed"}

\* Of two configs: the claim's over the class's, then the later one.
Beats(i, j) ==
  \/ configs[i].source = "claim" /\ configs[j].source = "class"
  \/ configs[i].source = configs[j].source /\ i > j

Relevant(request) ==
  {i \in DOMAIN configs : configs[i].form = "ours" /\ Matches(configs[i], request)}

Expected(request) ==
  LET best == {i \in Relevant(request) :
                 \A j \in Relevant(request) \ {i} : Beats(i, j)} IN
  IF best = {} THEN DefaultGpuConfig
  ELSE Normalize(configs[CHOOSE i \in best : TRUE].params)

\* Every device is configured by the config that takes precedence for its
\* request, and by no other (state.go's two reorderings, the search from the
\* back, the grouping by pointer and the merge of edits together).
HighestPrecedenceApplied ==
  phase = "done" =>
    \A p \in prepared : p.edits = Expected(results[p.result].request)

\* Each result of this driver becomes exactly one prepared device, no other
\* driver's result does, although they pass through a map of groups.
ResultsBecomeDevices ==
  phase = "done" =>
    /\ {p.result : p \in prepared} = OwnResults
    /\ \A p, q \in prepared : p.result = q.result => p = q

\* What Prepare returned and wrote into the CDI spec file, and what a restore
\* from the checkpoint returns, are the same devices with the same edits,
\* whatever order the runtime chose for the map each time.
RestoredAsPrepared ==
  Returns /\ round = 2 =>
    /\ phase = first.phase
    /\ prepared = first.devices

\* A claim whose allocation holds a config that is in force for no result of this
\* driver is prepared even if that config could not be applied; one that is in
\* force and cannot be applied fails the claim in every order.  Besides, a claim
\* fails that is not allocated, that has a config of an unknown source or form in
\* any place, in force or not, or that was given a device the driver does not know.
UnusedConfigsDoNotMatter ==
  Returns =>
    (phase = "failed" <=>
       \/ ~allocated
       \/ \E i \in DOMAIN configs :
            \/ configs[i].source = "other"
            \/ configs[i].form \in {"notOpaque", "garbled"}
       \/ \E i \in OwnResults :
            \/ results[i].device \notin Allocatable
            \/ Apply(Expected(results[i].request)) # "ok")
================================================================================

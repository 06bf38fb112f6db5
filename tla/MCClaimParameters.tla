--------------------------- MODULE MCClaimParameters ---------------------------
(***************************************************************************)
(* Small claims for ClaimParameters and DeviceConfig.                      *)
(*                                                                         *)
(* Reviewed: up to two configs of the user with every shape of parameters, *)
(* and a class without or with a config.                                   *)
(*                                                                         *)
(* Not reviewed: up to three configs, which is what it takes to order two  *)
(* of one source around one of the other, and up to three results of two   *)
(* requests and two drivers.                                               *)
(***************************************************************************)
EXTENDS ClaimParameters

CONSTANTS r1, r2, d1, d2, gone

UpTo(n, S) == UNION {[1 .. k -> S] : k \in 0 .. n}

Entry(source, form, requests, params) ==
  [source |-> source, form |-> form, requests |-> requests, params |-> params]

Result(req, device, driver, admin) ==
  [request |-> req, device |-> device, driver |-> driver, admin |-> admin]

short == [strategy |-> "TimeSlicing", slicing |-> "Short", parts |-> Unset]
halves == [strategy |-> "SpacePartitioning", slicing |-> Unset, parts |-> 2]
bare == [strategy |-> "SpacePartitioning", slicing |-> Unset, parts |-> Unset]
mixed == [strategy |-> "TimeSlicing", slicing |-> "Long", parts |-> 1]

PartitionCounts == {-1, 0, 1, 2}

\* Every config of this driver for all requests, alone.
AnyConfig == {<<Entry("claim", "ours", {}, params)>> : params \in Configs}

\* Two configs of a few shapes, one of them for one request.
SomeConfigs ==
  {Entry("claim", "ours", {}, params) : params \in
     {Unset, short, mixed, bare, [halves EXCEPT !.parts = -1],
      [short EXCEPT !.slicing = NoInterval], [short EXCEPT !.strategy = NoStrategy]}}
  \cup {Entry("claim", "ours", {r1}, params) : params \in {halves, mixed}}
  \cup {Entry("claim", form, {}, mixed) : form \in {"foreign", "notOpaque", "garbled"}}

Specs == AnyConfig \cup UpTo(2, SomeConfigs)

Classes == {<<>>, <<Entry("class", "ours", {r2}, bare)>>, <<Entry("class", "foreign", {}, mixed)>>}

Ours(P, Scopes) ==
  [source : {"class", "claim"}, form : {"ours"}, requests : Scopes, params : P]

\* Two configs of any source and form, with any parameters.
PairsOfAnyForm ==
  UpTo(2, Ours({Unset, short, halves, mixed}, {{}, {r1}, {r1, r2}})
            \cup {Entry("claim", form, {}, bare) : form \in {"foreign", "notOpaque", "garbled"}}
            \cup {Entry("other", form, {}, bare) : form \in {"ours", "foreign"}})

\* Three configs of this driver that can all be applied.
Triples == [1 .. 3 -> Ours({short, halves, bare}, {{}, {r1}})]

Lists == PairsOfAnyForm \cup Triples

TwoResults == {<<Result(r1, d1, "ours", FALSE), Result(r2, d2, "ours", FALSE)>>}

\* No device twice.
AnyResults ==
  TwoResults \cup
  {<<>>, <<Result(r1, d1, "foreign", TRUE)>>, <<Result(r1, gone, "ours", FALSE)>>,
   <<Result(r1, d1, "ours", FALSE), Result(r2, gone, "foreign", FALSE)>>,
   <<Result(r2, d1, "ours", FALSE), Result(r1, d2, "ours", TRUE)>>,
   <<Result(r1, d1, "ours", FALSE), Result(r1, d2, "ours", FALSE),
     Result(r2, gone, "foreign", FALSE)>>}
================================================================================

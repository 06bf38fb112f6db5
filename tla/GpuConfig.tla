------------------------------- MODULE GpuConfig -------------------------------
(***************************************************************************)
(* The GPU profile's opaque parameters: what Normalize fills in, what      *)
(* Validate accepts, and what applyGpuConfig makes of them.  The webhook   *)
(* (module ClaimParameters) and the plugin (module DeviceConfig) both rest *)
(* on these operators, in different orders.                                *)
(*                                                                         *)
(* A config is Unset (no sharing) or a record [strategy, slicing, parts]:  *)
(* slicing is the interval of its timeSlicingConfig, parts the count of    *)
(* its spacePartitioningConfig, and Unset stands for a nil pointer.        *)
(***************************************************************************)
EXTENDS Integers

CONSTANTS
  Unset,      \* a nil pointer
  Counts,     \* values of partitionCount
  NoStrategy, \* a strategy or an interval the API does not define
  NoInterval

\* A decoded object of another kind than GpuConfig, of which the decoder's scheme
\* knows some, is refused where a config with NoStrategy is, and stands for it.
Strategies == {"TimeSlicing", "SpacePartitioning"}
Intervals == {"Default", "Short", "Medium", "Long"}

ASSUME GpuConfigAssumption ==
  /\ Counts \subseteq Int
  /\ 1 \in Counts
  /\ NoStrategy \notin Strategies
  /\ NoInterval \notin Intervals
  /\ Unset \notin Counts
  /\ Unset \notin Intervals \cup {NoInterval}
  /\ Unset \notin [strategy : Strategies \cup {NoStrategy},
                   slicing : Intervals \cup {NoInterval, Unset},
                   parts : Counts \cup {Unset}]

Sharings == [strategy : Strategies \cup {NoStrategy},
             slicing : Intervals \cup {NoInterval, Unset},
             parts : Counts \cup {Unset}]

Configs == Sharings \cup {Unset}

DefaultGpuConfig == [strategy |-> "TimeSlicing", slicing |-> "Default", parts |-> Unset]

\* Normalize: a missing sharing is time slicing, and the section of the strategy
\* in force gets its default.
Normalize(config) ==
  LET s == IF config = Unset
             THEN [strategy |-> "TimeSlicing", slicing |-> Unset, parts |-> Unset]
             ELSE config IN
  [s EXCEPT
     !.slicing = IF s.strategy = "TimeSlicing" /\ @ = Unset THEN "Default" ELSE @,
     !.parts = IF s.strategy = "SpacePartitioning" /\ @ = Unset THEN 1 ELSE @]

\* Validate, of the section of the strategy in force only.  A nil section is
\* dereferenced: the caller does not get an answer.
Validate(config) ==
  IF config = Unset \/ config.strategy \notin Strategies THEN "error"
  ELSE IF config.strategy = "TimeSlicing"
    THEN IF config.slicing = Unset THEN "panic"
         ELSE IF config.slicing \in Intervals THEN "ok" ELSE "error"
    ELSE IF config.parts = Unset THEN "panic"
         ELSE IF config.parts >= 0 THEN "ok" ELSE "error"

\* GetTimeSlicingConfig and GetSpacePartitioningConfig: they refuse a config that
\* also has the section of the other strategy.
Settled(config) ==
  IF config.strategy = "TimeSlicing" THEN config.parts = Unset
                                     ELSE config.slicing = Unset

\* applyGpuConfig, for at least one device.
Apply(config) ==
  LET c == Normalize(config) IN
  IF Validate(c) # "ok" THEN Validate(c)
  ELSE IF Settled(c) THEN "ok" ELSE "error"
================================================================================

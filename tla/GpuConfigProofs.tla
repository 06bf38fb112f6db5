----------------------------- MODULE GpuConfigProofs ----------------------------
(***************************************************************************)
(* Facts about the GPU profile's parameters that hold of every config.     *)
(***************************************************************************)
EXTENDS GpuConfig, TLAPS

\* A normalized config has the section Validate dereferences.
LEMMA NormalizedHasSection ==
  \A config \in Configs :
    LET n == Normalize(config) IN
    /\ n \in Sharings
    /\ n.strategy = "TimeSlicing" => n.slicing # Unset
    /\ n.strategy = "SpacePartitioning" => n.parts # Unset
<1> SUFFICES ASSUME NEW config \in Configs
             PROVE  LET n == Normalize(config) IN
                    /\ n \in Sharings
                    /\ n.strategy = "TimeSlicing" => n.slicing # Unset
                    /\ n.strategy = "SpacePartitioning" => n.parts # Unset
  OBVIOUS
<1>1. CASE config = Unset
  BY <1>1, GpuConfigAssumption DEF Normalize, Sharings, Strategies, Intervals
<1>2. CASE config # Unset
  <2>1. config \in Sharings
    BY <1>2 DEF Configs
  <2> QED
    BY <1>2, <2>1, GpuConfigAssumption DEF Normalize, Sharings, Strategies, Intervals
<1> QED
  BY <1>1, <1>2

\* The plugin, which normalizes first, never dereferences a nil section: ApplyConfig
\* answers for every config a user can write.
THEOREM ApplyAnswers == \A config \in Configs : Apply(config) \in {"ok", "error"}
<1> SUFFICES ASSUME NEW config \in Configs
             PROVE  Apply(config) \in {"ok", "error"}
  OBVIOUS
<1> DEFINE n == Normalize(config)
<1>1. /\ n \in Sharings
      /\ n.strategy = "TimeSlicing" => n.slicing # Unset
      /\ n.strategy = "SpacePartitioning" => n.parts # Unset
  BY NormalizedHasSection
<1>2. n # Unset
  BY <1>1, GpuConfigAssumption DEF Sharings
<1>3. Validate(n) \in {"ok", "error"}
  BY <1>1, <1>2 DEF Validate, Strategies
<1> QED
  BY <1>3 DEF Apply

\* What the webhook accepts needs no defaults: Normalize leaves it alone.
THEOREM ValidIsNormal ==
  \A config \in Configs : Validate(config) = "ok" => Normalize(config) = config
<1> SUFFICES ASSUME NEW config \in Configs, Validate(config) = "ok"
             PROVE  Normalize(config) = config
  OBVIOUS
<1>1. config # Unset /\ config.strategy \in Strategies
  BY DEF Validate
<1>2. config \in Sharings
  BY <1>1 DEF Configs
<1>3. /\ config.strategy = "TimeSlicing" => config.slicing # Unset
      /\ config.strategy = "SpacePartitioning" => config.parts # Unset
  BY <1>1 DEF Validate, Strategies
<1> QED
  BY <1>1, <1>2, <1>3 DEF Normalize, Sharings

\* The webhook's check is the plugin's, but for the section of the other strategy.
THEOREM ValidAppliesIfSettled ==
  \A config \in Configs :
    Validate(config) = "ok" => (Apply(config) = "ok" <=> Settled(config))
<1> SUFFICES ASSUME NEW config \in Configs, Validate(config) = "ok"
             PROVE  Apply(config) = "ok" <=> Settled(config)
  OBVIOUS
<1>1. Normalize(config) = config
  BY ValidIsNormal
<1> QED
  BY <1>1 DEF Apply

\* What Normalize makes of a config with a sharing.
LEMMA NormalizedIs ==
  ASSUME NEW s \in Sharings
  PROVE  LET n == Normalize(s) IN
         /\ n.strategy = s.strategy
         /\ n.slicing = IF s.strategy = "TimeSlicing" /\ s.slicing = Unset
                          THEN "Default" ELSE s.slicing
         /\ n.parts = IF s.strategy = "SpacePartitioning" /\ s.parts = Unset
                        THEN 1 ELSE s.parts
<1>1. s # Unset
  BY GpuConfigAssumption DEF Sharings
<1> QED
  BY <1>1 DEF Normalize, Sharings

\* The plugin applies no sharing at all, time slicing with an interval the API
\* defines or none, and partitioning with a count that is not negative or none;
\* whatever else a user writes it refuses.
THEOREM AppliedConfigs ==
  \A config \in Configs :
    Apply(config) = "ok" <=>
      \/ config = Unset
      \/ /\ config.strategy = "TimeSlicing"
         /\ config.slicing \in Intervals \cup {Unset}
         /\ config.parts = Unset
      \/ /\ config.strategy = "SpacePartitioning"
         /\ config.parts = Unset \/ config.parts >= 0
         /\ config.slicing = Unset
<1>1. Apply(Unset) = "ok"
  <2> DEFINE n == Normalize(Unset)
  <2>1. n.strategy = "TimeSlicing" /\ n.slicing = "Default" /\ n.parts = Unset
    BY DEF Normalize
  <2>2. n # Unset
    BY NormalizedHasSection, GpuConfigAssumption DEF Configs, Sharings
  <2>3. "Default" # Unset
    BY GpuConfigAssumption DEF Intervals
  <2> QED
    BY <2>1, <2>2, <2>3 DEF Apply, Validate, Settled, Strategies, Intervals
<1>2. ASSUME NEW s \in Sharings
      PROVE  Apply(s) = "ok" <=>
               \/ /\ s.strategy = "TimeSlicing"
                  /\ s.slicing \in Intervals \cup {Unset}
                  /\ s.parts = Unset
               \/ /\ s.strategy = "SpacePartitioning"
                  /\ s.parts = Unset \/ s.parts >= 0
                  /\ s.slicing = Unset
  <2> DEFINE n == Normalize(s)
  <2>1. /\ n.strategy = s.strategy
        /\ n.slicing = IF s.strategy = "TimeSlicing" /\ s.slicing = Unset
                         THEN "Default" ELSE s.slicing
        /\ n.parts = IF s.strategy = "SpacePartitioning" /\ s.parts = Unset
                       THEN 1 ELSE s.parts
    BY NormalizedIs
  <2>2. n \in Sharings /\ n # Unset
    <3>1. n \in Sharings
      BY NormalizedHasSection DEF Configs
    <3> QED
      BY <3>1, GpuConfigAssumption DEF Sharings
  <2>3. /\ "Default" # Unset /\ "Default" \in Intervals /\ 1 # Unset
        /\ Unset \notin Intervals
    BY GpuConfigAssumption DEF Intervals
  <2>4. Apply(s) = IF Validate(n) # "ok" THEN Validate(n)
                   ELSE IF Settled(n) THEN "ok" ELSE "error"
    BY DEF Apply
  <2> HIDE DEF n
  <2>5. CASE s.strategy = "TimeSlicing"
    BY <2>1, <2>2, <2>3, <2>4, <2>5 DEF Validate, Settled, Strategies
  <2>6. CASE s.strategy = "SpacePartitioning"
    BY <2>1, <2>2, <2>3, <2>4, <2>6 DEF Validate, Settled, Strategies
  <2>7. CASE s.strategy \notin Strategies
    BY <2>1, <2>2, <2>4, <2>7 DEF Validate, Strategies
  <2> QED
    BY <2>5, <2>6, <2>7 DEF Strategies
<1> QED
  BY <1>1, <1>2, GpuConfigAssumption DEF Configs, Sharings

\* The configs a review panics on are not wrong: the plugin applies them, unless they
\* also have a section of the other strategy.
THEOREM PanicsAreApplied ==
  \A config \in Configs :
    Validate(config) = "panic" => (Apply(config) = "ok" <=> Settled(config))
<1> SUFFICES ASSUME NEW config \in Configs, Validate(config) = "panic"
             PROVE  Apply(config) = "ok" <=> Settled(config)
  OBVIOUS
<1>1. /\ config # Unset
      /\ \/ config.strategy = "TimeSlicing" /\ config.slicing = Unset
         \/ config.strategy = "SpacePartitioning" /\ config.parts = Unset
  BY DEF Validate, Strategies
<1> QED
  BY <1>1, AppliedConfigs DEF Settled
================================================================================

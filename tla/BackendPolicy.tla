--------------------------- MODULE BackendPolicy ---------------------------
(***************************************************************************)
(* Which backend runs a stage: the settings' preference, the candidates it *)
(* falls back to, the choice made once at start-up (resolve_active_backend)*)
(* and the choices made per request (BackendSelector).                     *)
(*                                                                         *)
(* A backend of a stage is an id [kind, variant].  The registry is         *)
(* registry[stage], the stage's entries in registration order; an entry is *)
(* an id with `available` and `handler`, which is "none" for a Python None.*)
(***************************************************************************)
EXTENDS Naturals, Sequences, SequencesExt

StageOrder ==
    <<"detector", "geometry_estimator", "segmenter", "foreground_refiner",
      "depth_estimator", "normal_estimator", "shadow_generator", "composer",
      "artifact_encoder">>
Stages == ToSet(StageOrder)

Id(kind, variant) == [kind |-> kind, variant |-> variant]

-----------------------------------------------------------------------------
(* What the settings ask for.                                              *)

HeavyStages ==
    {"detector", "segmenter", "depth_estimator", "normal_estimator", "shadow_generator"}
VariantStages == {"detector", "segmenter", "normal_estimator", "shadow_generator"}

EffectiveDefaultBackend(s) ==
    IF s.execution_default_backend # "" THEN s.execution_default_backend
    ELSE IF s.runtime_mode = "mock" THEN "mock" ELSE "local"

\* The kind a heavy stage is registered for: its own override, or the default.
StageBackendPreference(s, stage) ==
    IF s.backend_kind[stage] # "" THEN s.backend_kind[stage]
    ELSE EffectiveDefaultBackend(s)

DefaultStageBackend(s, stage) ==
    IF stage = "composer" THEN "local"
    ELSE IF stage = "artifact_encoder" THEN "internal"
    ELSE IF EffectiveDefaultBackend(s) = "mock" THEN "mock"
    ELSE CASE stage = "geometry_estimator" ->
                  IF s.geometry_enabled THEN s.backend_kind[stage] ELSE "internal"
           [] stage = "foreground_refiner" -> s.backend_kind[stage]
           [] stage \in HeavyStages -> StageBackendPreference(s, stage)

DefaultVariant ==
    [detector |-> "grounding-dino", segmenter |-> "birefnet",
     depth_estimator |-> "depth-anything-v2-small", geometry_estimator |-> "geocalib",
     foreground_refiner |-> "fast-foreground-estimation",
     composer |-> "python-composer", artifact_encoder |-> "default-encoder"]

PreferredVariant(s, stage) ==
    CASE stage \in VariantStages -> s.model_variant[stage]
      [] stage = "geometry_estimator" ->
             IF s.geometry_enabled THEN "geocalib" ELSE "disabled"
      [] OTHER -> DefaultVariant[stage]

-----------------------------------------------------------------------------
(* The candidates, best first.  `_dedupe` drops later repeats of a         *)
(* candidate; that changes no choice of a first usable one, and is left    *)
(* out.                                                                    *)

MockVariant(stage) ==
    CASE stage = "shadow_generator" -> "mock"
      [] stage = "foreground_refiner" -> "passthrough-v1"
      [] OTHER -> "mock-v1"
MockId(stage) == Id("mock", MockVariant(stage))

FallbackBackendOrder(stage, kind) ==
    IF kind \in {"mock", "internal"} THEN <<kind>>
    ELSE IF stage \in {"geometry_estimator", "foreground_refiner", "composer"}
    THEN <<kind, "local", "mock">>
    ELSE IF kind = "triton" THEN <<"triton", "local", "mock">>
    ELSE <<"local", "mock">>

DefaultVariantForBackend(stage, kind, variant) ==
    IF kind = "internal" /\ stage = "geometry_estimator" THEN variant
    ELSE IF kind = "mock" THEN MockVariant(stage)
    ELSE DefaultVariant[stage]

NormalCandidates(kind, variant) ==
    IF variant = "from-depth-v2"
    THEN <<Id("local", "from-depth-v2"), Id("mock", "mock-v1")>>
    ELSE <<Id(kind, "stable-normal"), Id("local", "stable-normal"),
           Id("local", "from-depth-v2"), Id("mock", "mock-v1")>>

\* Mutant: the GAN stands in for Triton's shadow only.
ShadowSkipsGan(kind, variant) ==
    <<Id(kind, variant)>>
        \o (IF kind = "triton" THEN <<Id("local", variant), Id("local", "v1-gan")>> ELSE <<>>)
        \o <<Id("mock", "mock")>>

\* Mutant: no mock at the end.
ShadowWithoutMock(kind, variant) == <<Id(kind, variant), Id("local", "v1-gan")>>

ShadowCandidates(kind, variant) ==
    <<Id(kind, variant)>>
        \o (IF kind = "triton" THEN <<Id("local", variant)>> ELSE <<>>)
        \o (IF kind = "triton" \/ variant = "v2-diff" THEN <<Id("local", "v1-gan")>> ELSE <<>>)
        \o <<Id("mock", "mock")>>

\* segmenter and detector
VariantStageCandidates(stage, kind, variant) ==
    LET local == DefaultVariant[stage]
    IN <<Id(kind, variant)>>
        \o (IF kind = "triton" THEN <<Id("triton", local)>> ELSE <<>>)
        \o <<Id("local", local), Id("mock", "mock-v1")>>

FallbackCandidateIds(stage, kind, variant) ==
    IF kind = "mock" /\ stage \in VariantStages THEN <<MockId(stage)>>
    ELSE CASE stage = "normal_estimator" -> NormalCandidates(kind, variant)
           [] stage = "shadow_generator" -> ShadowCandidates(kind, variant)
           [] stage \in {"segmenter", "detector"} -> VariantStageCandidates(stage, kind, variant)
           [] OTHER ->
                LET order == FallbackBackendOrder(stage, kind)
                IN [i \in DOMAIN order |->
                       Id(order[i], DefaultVariantForBackend(stage, order[i], variant))]

-----------------------------------------------------------------------------
(* The choice made at start-up.                                            *)

\* Mutant: every backend needs a handler, the built-in ones too.
HandlerRequired(stage, e) == e.available /\ e.handler # "none"

RegisteredIsUsable(stage, e) ==
    /\ e.available
    /\ \/ e.handler # "none"
       \/ stage \in {"artifact_encoder", "geometry_estimator"} /\ e.kind = "internal"

UsableId(registry, stage, id) ==
    \E e \in ToSet(registry[stage]) :
        /\ Id(e.kind, e.variant) = id
        /\ RegisteredIsUsable(stage, e)

NoBackend == Id("none", "none")

\* Mutants: the local normals are tried first; a reason is given for the first
\* candidate as well.
ResolveNormalsFirst(registry, stage, kind, variant) ==
    LET order == (IF stage = "normal_estimator" THEN <<Id("local", "stable-normal")>> ELSE <<>>)
                     \o FallbackCandidateIds(stage, kind, variant)
        Usable(id) == UsableId(registry, stage, id)
        first == SelectInSeq(order, Usable)
    IN [id |-> IF first = 0 THEN NoBackend ELSE order[first], fallback |-> first > 1]
ResolveAlwaysExplains(registry, stage, kind, variant) ==
    LET order == FallbackCandidateIds(stage, kind, variant)
        Usable(id) == UsableId(registry, stage, id)
        first == SelectInSeq(order, Usable)
    IN [id |-> IF first = 0 THEN NoBackend ELSE order[first], fallback |-> first >= 1]

\* [id, fallback]: the first usable of the candidates, of the two local
\* normals, of whatever is registered for the stage; a fallback_reason is
\* given for every choice but the first candidate.
ResolveActiveBackend(registry, stage, kind, variant) ==
    LET normals == IF stage = "normal_estimator"
                   THEN <<Id("local", "stable-normal"), Id("local", "from-depth-v2")>>
                   ELSE <<>>
        listed == [i \in DOMAIN registry[stage] |->
                      Id(registry[stage][i].kind, registry[stage][i].variant)]
        order == FallbackCandidateIds(stage, kind, variant) \o normals \o listed
        Usable(id) == UsableId(registry, stage, id)
        first == SelectInSeq(order, Usable)
    IN IF first = 0 THEN [id |-> NoBackend, fallback |-> FALSE]
       ELSE [id |-> order[first], fallback |-> first > 1]

-----------------------------------------------------------------------------
(* The choices made per request.  A selection is [requested, actual, mode, *)
(* fallback]; mode is [kind, fallback], the code's "local-fallback" being  *)
(* [kind |-> "local", fallback |-> TRUE].                                  *)

Executable(registry, stage, id) ==
    \E e \in ToSet(registry[stage]) :
        Id(e.kind, e.variant) = id /\ e.available /\ e.handler # "none"

SelectForDebug(registry, stage, kind, variant) ==
    LET requested == Id(kind, variant)
        order == FallbackCandidateIds(stage, kind, variant)
        Runs(id) == Executable(registry, stage, id)
        first == SelectInSeq(order, Runs)
    IN IF first = 0
       THEN [requested |-> requested, actual |-> NoBackend,
             mode |-> [kind |-> "unavailable", fallback |-> FALSE], fallback |-> FALSE]
       ELSE LET actual == order[first]
                other == actual # requested
            IN [requested |-> requested, actual |-> actual,
                mode |-> [kind |-> actual.kind, fallback |-> other], fallback |-> other]

\* component: what start-up recorded for the stage, [id, fallback, implementation].
SelectForPublic(component) ==
    [requested |-> component.id, actual |-> component.id,
     mode |-> component.implementation, fallback |-> component.fallback]
=============================================================================

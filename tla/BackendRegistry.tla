-------------------------- MODULE BackendRegistry --------------------------
(***************************************************************************)
(* What build_runtime makes of the settings and of what it finds: which    *)
(* backends of a stage are available, with which handler, and how the      *)
(* runtime describes the defaults it chose.                                *)
(***************************************************************************)
EXTENDS BackendPolicy, TritonProtocol, LocalHost

(* An environment:                                                         *)
(*   endpoint   "unset" (no URL), "down" or "up"                           *)
(*   host       what is installed, see LocalHost                           *)
(*   server     of each Triton model: a key of ServerConditions            *)
TritonModels == DOMAIN Binding

Condition(ready, wire, how) == [ready |-> ready, wire |-> wire, how |-> how]
ServerConditions ==
    [serving |-> Condition("ok", "ok", "as_bound"),
     absent |-> Condition("status_404", "status_404", "as_bound"),
     mismatched |-> Condition("ok", "ok", "renamed"),
     more_channels |-> Condition("ok", "ok", "wrong_channels"),
     garbled |-> Condition("ok", "garbage", "as_bound"),
     stalling |-> Condition("ok", "stalled", "as_bound"),
     cut |-> Condition("ok", "cut", "as_bound"),
     dropped |-> Condition("ok", "dropped", "as_bound"),
     odd |-> Condition("ok", "odd", "as_bound")]

\* What Settings.__post_init__ lets through: it looks at the kinds of the
\* backends, but not at their variants.
ValidSettings ==
    {s \in [execution_default_backend : {"", "local", "mock", "triton"},
            runtime_mode : {"auto", "local", "mock", "real"},
            geometry_enabled : BOOLEAN, target_device : {"cuda", "cpu"},
            birefnet_allow_cpu : BOOLEAN, stable_normal_allow_cpu : BOOLEAN,
            stable_normal_variant : STRING, working_square : STRING,
            backend_kind : [HeavyStages \cup {"geometry_estimator", "foreground_refiner"} ->
                               {"", "local", "mock", "triton"}],
            model_variant : [VariantStages -> STRING]] :
        \A stage \in {"geometry_estimator", "foreground_refiner"} :
            s.backend_kind[stage] \in {"local", "mock"}}

\* What a start may find.
PossibleHosts ==
    {h \in [package : [Packages -> {"absent", "broken", "present"}], cuda : BOOLEAN,
            directories : BOOLEAN, file : [Files -> FileStates], bundle : STRING,
            unloadable : SUBSET STRING] :
        \A f \in Files \ {"v2 config"} : h.file[f] \notin {"garbled", "odd"}}
PossibleEnvironments ==
    [endpoint : {"unset", "down", "up"}, host : PossibleHosts,
     server : [TritonModels -> DOMAIN ServerConditions]]

-----------------------------------------------------------------------------
(* Registration.                                                           *)

Entry(kind, variant, available, handler) ==
    [kind |-> kind, variant |-> variant, available |-> available,
     handler |-> IF available THEN handler ELSE "none"]
Mock(variant) == Entry("mock", variant, TRUE, "loaded")

\* A local model is constructed at once, or wrapped to be at its first use.
Local(s, env, model, eager) ==
    Entry("local", model,
          Probe(s, env.host, model) /\ (eager => Constructs(s, env.host, model)),
          IF eager THEN "loaded" ELSE "lazy")

\* _probe_triton_backend
ProbeTritonBackend(env, model) ==
    LET c == ServerConditions[env.server[model]]
        enabled == env.endpoint # "unset"
    IN IF ~Ping(enabled, IF env.endpoint = "up" THEN "ok" ELSE "refused")
       THEN "unavailable"
       ELSE ProbeBinding(enabled, Binding[model], c.ready, c.wire,
                         Advertised(Binding[model], c.how))
Triton(env, stage, variant) ==
    Entry("triton", variant, ProbeTritonBackend(env, <<stage, variant>>) = "ready", "client")

RegisterDetector(s, env) ==
    <<Mock("mock-v1"),
      Local(s, env, "grounding-dino", StageBackendPreference(s, "detector") = "local"),
      Triton(env, "detector", "grounding-dino"),
      Triton(env, "detector", "grounding-dino-onnx")>>

RegisterGeometry(s, env) ==
    <<Mock("mock-v1"),
      IF s.geometry_enabled THEN Local(s, env, "geocalib", TRUE)
      ELSE Entry("internal", "disabled", TRUE, "none")>>

RegisterSegmenter(s, env) ==
    <<Mock("mock-v1"),
      Local(s, env, "birefnet", StageBackendPreference(s, "segmenter") # "triton"),
      Triton(env, "segmenter", "birefnet"),
      Triton(env, "segmenter", "rmbg-2.0")>>

RegisterForegroundRefiner(s, env) ==
    <<Mock("passthrough-v1"), Local(s, env, "fast-foreground-estimation", TRUE)>>

RegisterDepth(s, env) ==
    <<Mock("mock-v1"),
      Local(s, env, "depth-anything-v2-small",
            StageBackendPreference(s, "depth_estimator") = "local"),
      Triton(env, "depth_estimator", "depth-anything-v2-small")>>

\* Stable Normal is not even tried unless the settings name it.
RegisterNormals(s, env) ==
    <<Mock("mock-v1"), Entry("local", "from-depth-v2", TRUE, "loaded"),
      IF s.model_variant["normal_estimator"] = "stable-normal"
      THEN Local(s, env, "stable-normal", TRUE)
      ELSE Entry("local", "stable-normal", FALSE, "none"),
      Triton(env, "normal_estimator", "stable-normal")>>

RegisterShadow(s, env) ==
    LET local(v) == Local(s, env, v, /\ StageBackendPreference(s, "shadow_generator") = "local"
                                  /\ s.model_variant["shadow_generator"] = v)
    IN <<Mock("mock"), local("v1-gan"), local("v2-diff"),
         Triton(env, "shadow_generator", "v2-diff")>>

RegisterComposer == <<Entry("local", "python-composer", TRUE, "loaded")>>
RegisterEncoder == <<Entry("internal", "default-encoder", TRUE, "none")>>

Registry(s, env) ==
    [detector |-> RegisterDetector(s, env), geometry_estimator |-> RegisterGeometry(s, env),
     segmenter |-> RegisterSegmenter(s, env),
     foreground_refiner |-> RegisterForegroundRefiner(s, env),
     depth_estimator |-> RegisterDepth(s, env), normal_estimator |-> RegisterNormals(s, env),
     shadow_generator |-> RegisterShadow(s, env), composer |-> RegisterComposer,
     artifact_encoder |-> RegisterEncoder]

\* What ends a start: without torch the program does not get to build_runtime;
\* it first makes the service's directories; and registration lets through
\* what a local probe raises, an untranslated exception of a Triton probe, and
\* one of the ONNX detector's constructor, which no try surrounds.
StartRaises(env) ==
    \/ ~ContainerImports(env.host)
    \/ ~env.host.directories
    \/ ProbeRaises(env.host)
    \/ \E m \in TritonModels : ProbeTritonBackend(env, m) \notin {"ready", "unavailable"}
    \/ /\ ProbeTritonBackend(env, <<"detector", "grounding-dino-onnx">>) = "ready"
       /\ ~TritonOnnxGroundingDinoDetector(env.host)

-----------------------------------------------------------------------------
(* The runtime's description of itself.                                    *)

DeriveImplementation(preferred, actual, fallback) ==
    [kind |-> actual.kind,
     fallback |-> IF ~fallback /\ actual = preferred THEN FALSE
                  ELSE IF actual.kind = "mock" THEN preferred.kind # "mock" \/ fallback
                  ELSE fallback \/ actual.variant # preferred.variant]

Component(s, registry, stage) ==
    LET preferred == Id(DefaultStageBackend(s, stage), PreferredVariant(s, stage))
        active == ResolveActiveBackend(registry, stage, preferred.kind, preferred.variant)
    IN [preferred |-> preferred, id |-> active.id, fallback |-> active.fallback,
        implementation |-> DeriveImplementation(preferred, active.id, active.fallback)]

\* The model_version in a backend's descriptor, fixed for all but two.
ModelVersion(s, h, id) ==
    CASE id = Id("local", "stable-normal") -> s.stable_normal_variant
      [] id = Id("local", "v2-diff") -> h.bundle
      [] OTHER -> "fixed"

\* build_runtime_descriptor; the mode "triton-fallback" is
\* [kind |-> "triton", fallback |-> TRUE].
Described(s, registry, components) ==
    LET degraded == \E stage \in Stages : components[stage].fallback
        mockOnly == \A stage \in Stages \ {"composer"} : components[stage].id.kind = "mock"
    IN [registry |-> registry, components |-> components, degraded |-> degraded,
        mode |-> IF mockOnly THEN [kind |-> "mock", fallback |-> FALSE]
                 ELSE [kind |-> EffectiveDefaultBackend(s), fallback |-> degraded]]
=============================================================================

-------------------------- MODULE BackendSelection --------------------------
(***************************************************************************)
(* Start-up of the service: build_runtime probes what is installed and what*)
(* Triton serves, registers every stage's backends, chooses the default of *)
(* each stage and describes the choice.  What the service then makes of it,*)
(* and what it keeps from one start to the next, is in RenderPipeline.     *)
(***************************************************************************)
EXTENDS BackendRegistry

CONSTANTS
    Worlds  \* the [settings, environment] pairs of a start

ASSUME WorldsAssumption ==
    Worlds \subseteq [settings : ValidSettings, environment : PossibleEnvironments]

VARIABLES
    settings,     \* of this deployment
    environment,  \* at this start
    phase,        \* "starting", "serving", or "failed": build_runtime raised
    runtime       \* [registry, components, mode, degraded]

selectionVars == <<settings, environment, phase, runtime>>

-----------------------------------------------------------------------------
NoRuntime == <<>>

SelectionInit ==
    /\ \E w \in Worlds : settings = w.settings /\ environment = w.environment
    /\ phase = "starting"
    /\ runtime = NoRuntime

\* build_runtime, one sequential call, raises when a step before or in the
\* registration does, or when a stage is left without a backend.
BuildRuntime ==
    /\ phase = "starting"
    /\ LET registry == Registry(settings, environment)
           components == [stage \in Stages |-> Component(settings, registry, stage)]
           raises == \/ StartRaises(environment)
                     \/ \E stage \in Stages : components[stage].id = NoBackend
       IN IF raises
          THEN phase' = "failed" /\ UNCHANGED runtime
          ELSE phase' = "serving" /\ runtime' = Described(settings, registry, components)
    /\ UNCHANGED <<settings, environment>>

SelectionNext == BuildRuntime

SelectionSpec == SelectionInit /\ [][SelectionNext]_selectionVars

-----------------------------------------------------------------------------
(* Properties.                                                             *)

Serving == phase = "serving"
Default(stage) == runtime.components[stage]
Usable(stage, id) == UsableId(runtime.registry, stage, id)

\* Of all that a start may find missing, broken or badly described (what the
\* host and Triton can do in PossibleEnvironments), only this ends it: torch
\* that cannot be imported, directories that cannot be made, a model file that
\* cannot be looked for, a bundle's config or a model's metadata that is JSON
\* of another kind, metadata whose connection breaks or stalls, and what the
\* ONNX detector's tokenizer needs.
OnlyRawFaultsStopStartup ==
    phase = "failed" =>
        LET host == environment.host
        IN \/ host.package["torch"] # "present"
           \/ ~host.directories
           \/ \E f \in Files : host.file[f] \in {"barred", "odd"}
           \/ /\ environment.endpoint = "up"
              /\ \/ \E m \in TritonModels :
                        environment.server[m] \in {"odd", "dropped", "cut", "stalling"}
                 \/ ~TritonOnnxGroundingDinoDetector(host)

\* A probe asks for all that the constructor needs: a local model that waits
\* for its first use can then be made, if its packages and weights load.
LazyBackendCanBeMade ==
    Serving => \A stage \in Stages : \A e \in ToSet(runtime.registry[stage]) :
        /\ e.handler = "lazy"
        /\ \A p \in Packages : environment.host.package[p] # "broken"
        /\ Loads(environment.host, e.variant)
        => Constructs(settings, environment.host, e.variant)

\* What is reported as missing is missing: a backend that a fallback_reason
\* calls unavailable is, and mock mode, whatever the overrides of the stages,
\* reports nothing as degraded.
FallbackReasonIsTrue ==
    Serving =>
        /\ \A stage \in Stages :
              Default(stage).fallback => ~Usable(stage, Default(stage).preferred)
        /\ EffectiveDefaultBackend(settings) = "mock" =>
              ~runtime.degraded /\ runtime.mode = [kind |-> "mock", fallback |-> FALSE]

\* A mock stands in only where no local backend could: the one exception is
\* the diffusion shadow, which does not stand in for the GAN.
MockIsLastResort ==
    Serving => \A stage \in Stages :
        Default(stage).id.kind = "mock" /\ Default(stage).preferred.kind # "mock" =>
            \A e \in ToSet(runtime.registry[stage]) :
                e.kind = "local" /\ RegisteredIsUsable(stage, e) =>
                    stage = "shadow_generator" /\ e.variant = "v2-diff"
                        /\ Default(stage).preferred.variant # "v2-diff"

\* A debug request that names what the settings name is given what start-up
\* chose, although the two search in code of their own.
DebugAgreesWithDefault ==
    Serving => \A stage \in Stages :
        LET c == Default(stage)
        IN c.preferred.kind # "internal" =>
             SelectForDebug(runtime.registry, stage, c.preferred.kind, c.preferred.variant).actual
                 = c.id

-----------------------------------------------------------------------------
(* What the repository says of the program, where the code does otherwise. *)

\* Asking for Triton and not getting it is stated (docs/runbook-local.md:484).
TritonRequestIsExplicit ==
    Serving => \A stage \in Stages :
        Default(stage).preferred.kind = "triton" /\ Default(stage).id.kind # "triton"
            => Default(stage).fallback

\* A model taken for ready has the channels its binding expects
\* (docs/architecture.md:245).
ReadyModelFitsBinding ==
    Serving => \A m \in TritonModels :
        \A e \in ToSet(runtime.registry[m[1]]) :
            Id(e.kind, e.variant) = Id("triton", m[2]) /\ e.available =>
                \A t \in Binding[m].outputs :
                    t.policy = "channel-first" =>
                        LET shape == Advertised(Binding[m],
                                       ServerConditions[environment.server[m]].how)
                                           .outputs[t.name].shape
                        IN shape[Len(shape) - 2] \in {-1, t.channels}
=============================================================================

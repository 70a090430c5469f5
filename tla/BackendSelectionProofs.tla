----------------------- MODULE BackendSelectionProofs -----------------------
(***************************************************************************)
(* Theorems about BackendSelection, for any set of starts.  The lemmas     *)
(* about the choice itself are those of BackendRegistryProofs.             *)
(***************************************************************************)
EXTENDS BackendSelection, BackendRegistryProofs

\* The settings are those of a world and valid, the environment is possible.
SelectionTypeOK ==
    /\ settings \in {w.settings : w \in Worlds}
    /\ settings \in ValidSettings
    /\ environment \in PossibleEnvironments
    /\ phase \in {"starting", "serving", "failed"}

\* While the service runs, its runtime is what build_runtime makes of the
\* settings and of what this start found: without it nothing is known of the
\* record that the properties read.
RuntimeIsBuilt ==
    Serving => runtime = Described(settings, Registry(settings, environment),
                                   Defaulted(settings, environment))

\* A start that failed did so before or in the registration: the other reason
\* in the code, a stage without a backend, never occurs (SomethingRuns).
FailuresAreRaised == phase = "failed" => StartRaises(environment)

\* The inductive invariant.
SelectionInv ==
    /\ SelectionTypeOK
    /\ RuntimeIsBuilt
    /\ FailuresAreRaised

\* Every step keeps the invariant.
LEMMA SelectionInductive ==
    SelectionInv /\ [SelectionNext]_selectionVars => SelectionInv'
<1> SUFFICES ASSUME SelectionInv, [SelectionNext]_selectionVars
             PROVE  SelectionInv'
  OBVIOUS
<1> DEFINE registry == Registry(settings, environment)
           components == Defaulted(settings, environment)
<1>1. CASE BuildRuntime
  <2>1. \A stage \in Stages : components[stage].id # NoBackend
    BY SomethingRuns DEF SelectionInv, SelectionTypeOK, Defaulted
  <2>2. \/ /\ phase' = "failed" /\ StartRaises(environment)
        \/ phase' = "serving" /\ runtime' = Described(settings, registry, components)
    BY <1>1, <2>1 DEF BuildRuntime, Defaulted
  <2>3. phase = "starting" /\ UNCHANGED <<settings, environment>>
    BY <1>1 DEF BuildRuntime
  <2>4. RuntimeIsBuilt' /\ FailuresAreRaised'
    BY <2>2, <2>3 DEF RuntimeIsBuilt, FailuresAreRaised, Serving, Defaulted
  <2>5. SelectionTypeOK'
    BY <2>2, <2>3 DEF SelectionInv, SelectionTypeOK
  <2> QED
    BY <2>4, <2>5 DEF SelectionInv
<1>2. CASE UNCHANGED selectionVars
  BY <1>2 DEF selectionVars, SelectionInv, SelectionTypeOK, RuntimeIsBuilt, FailuresAreRaised,
     Serving, Defaulted
<1> QED BY <1>1, <1>2 DEF SelectionNext

\* The invariant holds in every reachable state, for any set of starts.
THEOREM SelectionInvariant == SelectionSpec => []SelectionInv
<1>1. SelectionInit => SelectionInv
  <2> SUFFICES ASSUME SelectionInit
               PROVE  SelectionInv
    OBVIOUS
  <2>1. PICK w \in Worlds : settings = w.settings /\ environment = w.environment
    BY DEF SelectionInit
  <2>2. /\ settings \in {world.settings : world \in Worlds}
        /\ settings \in ValidSettings /\ environment \in PossibleEnvironments
    BY <2>1, WorldsAssumption
  <2> QED
    BY <2>2 DEF SelectionInit, SelectionInv, SelectionTypeOK, RuntimeIsBuilt,
       FailuresAreRaised, Serving
<1> QED
  BY <1>1, SelectionInductive, PTL DEF SelectionSpec

\* What the invariant says of the running service's runtime record.
LEMMA ServingRuntime ==
    ASSUME SelectionInv, Serving
    PROVE  /\ settings \in {w.settings : w \in Worlds}
           /\ settings \in ValidSettings
           /\ environment \in PossibleEnvironments
           /\ runtime.registry = Registry(settings, environment)
           /\ \A stage \in Stages :
                 Default(stage) = Component(settings, Registry(settings, environment), stage)
           /\ runtime.degraded <=> \E stage \in Stages : Default(stage).fallback
           /\ runtime.mode
                  \in {[kind |-> "mock", fallback |-> FALSE],
                      [kind |-> EffectiveDefaultBackend(settings), fallback |-> runtime.degraded]}
<1> DEFINE registry == Registry(settings, environment)
           components == Defaulted(settings, environment)
<1>1. /\ settings \in {w.settings : w \in Worlds}
      /\ settings \in ValidSettings /\ environment \in PossibleEnvironments
  BY DEF SelectionInv, SelectionTypeOK
<1>2. runtime = Described(settings, registry, components)
  BY DEF SelectionInv, RuntimeIsBuilt
<1> HIDE DEF components
<1>3. /\ runtime.registry = registry
      /\ runtime.components = components
      /\ runtime.degraded = \E stage \in Stages : components[stage].fallback
      /\ runtime.mode \in {[kind |-> "mock", fallback |-> FALSE],
                          [kind |-> EffectiveDefaultBackend(settings), fallback |-> runtime.degraded]}
  BY <1>2, Zenon DEF Described
<1>4. \A stage \in Stages : components[stage] = Component(settings, registry, stage)
  BY DEF components, Defaulted
<1> QED
  BY <1>1, <1>3, <1>4 DEF Default

\* A backend that a fallback_reason calls unavailable is unavailable, and
\* mock mode reports nothing as degraded (backend_policy.py,
\* runtime_descriptor.py).
THEOREM FallbackReasonsAreTrue == SelectionSpec => []FallbackReasonIsTrue
<1>1. ASSUME SelectionInv
      PROVE  FallbackReasonIsTrue
  <2> SUFFICES ASSUME Serving
               PROVE  /\ \A stage \in Stages :
                            Default(stage).fallback => ~Usable(stage, Default(stage).preferred)
                      /\ EffectiveDefaultBackend(settings) = "mock" =>
                            ~runtime.degraded /\ runtime.mode = [kind |-> "mock", fallback |-> FALSE]
    BY DEF FallbackReasonIsTrue
  <2> DEFINE registry == Registry(settings, environment)
  <2>1. ASSUME NEW stage \in Stages, Default(stage).fallback
        PROVE  ~Usable(stage, Default(stage).preferred)
    <3>1. PICK n \in 1..4 :
              /\ \A m \in 1..(n - 1) : ~UsableId(registry, stage, Order(settings, stage)[m])
              /\ Default(stage).fallback <=> n > 1
              /\ Default(stage).preferred = Preferred(settings, stage)
      BY <1>1, ServingRuntime, ChosenDefault
    <3>2. 1 \in 1..(n - 1)
      BY <2>1, <3>1
    <3>3. ~UsableId(registry, stage, Order(settings, stage)[1])
      BY <3>1, <3>2
    <3>4. ~UsableId(registry, stage, Preferred(settings, stage))
      BY <1>1, <3>3, ServingRuntime, PreferredFirst
    <3> QED BY <1>1, <3>1, <3>4, ServingRuntime DEF Usable
  <2>2. ASSUME EffectiveDefaultBackend(settings) = "mock"
        PROVE  ~runtime.degraded /\ runtime.mode = [kind |-> "mock", fallback |-> FALSE]
    <3>1. \A stage \in Stages : ~Default(stage).fallback
      BY <1>1, <2>2, ServingRuntime, MockNeverFallsBack
    <3>2. runtime.degraded = FALSE
      BY <1>1, <3>1, ServingRuntime
    <3> QED BY <1>1, <2>2, <3>2, ServingRuntime
  <2> QED BY <2>1, <2>2
<1> QED
  BY <1>1, SelectionInvariant, PTL

\* A debug request for what the settings name is given what start-up chose:
\* the two searches in backend_selector.py and backend_policy.py agree in
\* every world.
THEOREM DebugAndStartupAgree == SelectionSpec => []DebugAgreesWithDefault
<1>1. ASSUME SelectionInv
      PROVE  DebugAgreesWithDefault
  <2> SUFFICES ASSUME Serving, NEW stage \in Stages, Default(stage).preferred.kind # "internal"
               PROVE  SelectForDebug(runtime.registry, stage, Default(stage).preferred.kind,
                                     Default(stage).preferred.variant).actual = Default(stage).id
    BY DEF DebugAgreesWithDefault
  <2> DEFINE registry == Registry(settings, environment)
             order == Order(settings, stage)
             kind == DefaultStageBackend(settings, stage)
             variant == PreferredVariant(settings, stage)
  <2>1. PICK n \in 1..4 :
            /\ n <= Len(order)
            /\ UsableId(registry, stage, order[n])
            /\ \A m \in 1..(n - 1) : ~UsableId(registry, stage, order[m])
            /\ Default(stage).id = order[n]
            /\ Default(stage).preferred = Preferred(settings, stage)
    BY <1>1, ServingRuntime, ChosenDefault
  <2>2. Default(stage).preferred.kind = kind /\ Default(stage).preferred.variant = variant
    BY <2>1 DEF Preferred, Id
  <2>3. order = FallbackCandidateIds(stage, kind, variant)
    BY DEF Order
  <2>4. \E S : order \in Seq(S)
    BY <1>1, ServingRuntime, OrderHasUsable
  <2> HIDE DEF order, kind, variant, registry
  <2>5. Executable(registry, stage, order[n])
    <3>1. PICK k, v : order[n] = Id(k, v) /\ k # "internal"
      BY <1>1, <2>1, <2>2, ServingRuntime, CandidatesNotInternal DEF order, kind
    <3> QED BY <2>1, <3>1, ExecutableIfNotInternal
  <2>6. \A m \in 1..(n - 1) : ~Executable(registry, stage, order[m])
    BY <2>1 DEF Executable, UsableId, RegisteredIsUsable
  <2>7. SelectForDebug(registry, stage, kind, variant).actual = FallbackCandidateIds(stage, kind, variant)[n]
    BY <2>1, <2>3, <2>4, <2>5, <2>6, DebugTakesTheFirst
  <2> QED
    BY <1>1, <2>1, <2>2, <2>3, <2>7, ServingRuntime DEF registry
<1> QED
  BY <1>1, SelectionInvariant, PTL

\* A local model that was registered to be made at its first use can then be
\* made, if no installed package is broken and its weights load: the probes
\* under infrastructure/stages ask for all that the constructors need.
THEOREM LazyBackendsCanBeMade == SelectionSpec => []LazyBackendCanBeMade
<1>1. ASSUME SelectionInv
      PROVE  LazyBackendCanBeMade
  <2> SUFFICES ASSUME Serving, NEW stage \in Stages, NEW e \in ToSet(runtime.registry[stage]),
                      e.handler = "lazy",
                      \A p \in Packages : environment.host.package[p] # "broken",
                      Loads(environment.host, e.variant)
               PROVE  Constructs(settings, environment.host, e.variant)
    BY DEF LazyBackendCanBeMade
  <2> DEFINE host == environment.host
  <2>1. e.variant \in LazyModels /\ Probe(settings, host, e.variant)
    BY <1>1, ServingRuntime, RegisteredEntries
  <2>2. \A p \in Packages : host.package[p] # "absent" => host.package[p] = "present"
    BY <1>1, ServingRuntime DEF PossibleEnvironments, PossibleHosts
  <2> HIDE DEF host
  <2>3. \A packages \in SUBSET Packages : ModuleAvailable(host, packages) => ImportModule(host, packages)
    BY <2>2 DEF ModuleAvailable, ImportModule
  <2>4. Loads(host, e.variant)
    BY DEF host
  <2>5. CASE e.variant = "grounding-dino"
    <3>1. ProbeGroundingDino(host)
      BY <2>1, <2>5 DEF Probe
    <3>2. RealDetector(host)
      BY <2>3, <2>4, <2>5, <3>1 DEF ProbeGroundingDino, RealDetector, Packages
    <3> QED BY <2>5, <3>2 DEF Constructs, host
  <2>6. CASE e.variant = "birefnet"
    <3>1. ProbeBirefnet(settings, host)
      BY <2>1, <2>6 DEF Probe
    <3>2. RealSegmenter(host)
      BY <2>3, <2>4, <2>6, <3>1 DEF ProbeBirefnet, RealSegmenter, Packages, BirefnetPackages
    <3> QED BY <2>6, <3>2 DEF Constructs, host
  <2>7. CASE e.variant = "depth-anything-v2-small"
    <3>1. ProbeDepthAnything(host)
      BY <2>1, <2>7 DEF Probe
    <3>2. RealDepthEstimator(host)
      BY <2>3, <2>4, <2>7, <3>1 DEF ProbeDepthAnything, RealDepthEstimator, Packages
    <3> QED BY <2>7, <3>2 DEF Constructs, host
  <2>8. CASE e.variant = "v1-gan"
    <3>1. ProbeShadowPix2pix(host)
      BY <2>1, <2>8 DEF Probe
    <3>2. Pix2PixShadowGenerator(host)
      BY <2>3, <2>4, <2>8, <3>1 DEF ProbeShadowPix2pix, Pix2PixShadowGenerator, Packages
    <3> QED BY <2>8, <3>2 DEF Constructs, host
  <2>9. CASE e.variant = "v2-diff"
    <3>1. ProbeShadowV2Diff(host)
      BY <2>1, <2>9 DEF Probe
    <3>2. V2DiffShadowGenerator(host)
      BY <2>2, <3>1 DEF ProbeShadowV2Diff, V2DiffShadowGenerator, Packages, BundleFiles,
         ModuleAvailable, ImportModule
    <3> QED BY <2>9, <3>2 DEF Constructs, host
  <2> QED
    BY <2>1, <2>5, <2>6, <2>7, <2>8, <2>9 DEF LazyModels, host
<1> QED
  BY <1>1, SelectionInvariant, PTL

\* A mock stands in only where no local backend could. The hypothesis is
\* needed: Settings takes any name as the shadow's variant, and with one that
\* is neither of the two a request for a local shadow has the mock as its
\* only other candidate, even where the GAN could run.
THEOREM MocksAreLastResort ==
    ASSUME \A w \in Worlds : w.settings.model_variant["shadow_generator"] \in {"v1-gan", "v2-diff"}
    PROVE  SelectionSpec => []MockIsLastResort
<1>1. ASSUME SelectionInv
      PROVE  MockIsLastResort
  <2> SUFFICES ASSUME Serving, NEW stage \in Stages,
                      Default(stage).id.kind = "mock", Default(stage).preferred.kind # "mock",
                      NEW e \in ToSet(runtime.registry[stage]),
                      e.kind = "local", RegisteredIsUsable(stage, e)
               PROVE  /\ stage = "shadow_generator" /\ e.variant = "v2-diff"
                      /\ Default(stage).preferred.variant # "v2-diff"
    BY DEF MockIsLastResort
  <2> DEFINE registry == Registry(settings, environment)
  <2>1. PICK n \in 1..4 :
            /\ n <= Len(Order(settings, stage))
            /\ \A m \in 1..(n - 1) : ~UsableId(registry, stage, Order(settings, stage)[m])
            /\ Default(stage).id = Order(settings, stage)[n]
            /\ Default(stage).preferred = Preferred(settings, stage)
    BY <1>1, ServingRuntime, ChosenDefault
  <2>2. /\ Default(stage).preferred.kind = DefaultStageBackend(settings, stage)
        /\ Default(stage).preferred.variant = PreferredVariant(settings, stage)
    BY <2>1 DEF Preferred, Id
  <2>3. e \in ToSet(registry[stage])
    BY <1>1, ServingRuntime
  <2>4. e.variant \in LocalVariants(stage) /\ UsableId(registry, stage, Id("local", e.variant))
    BY <2>3, RegisteredEntries DEF UsableId
  <2>5. settings \in ValidSettings
           /\ settings.model_variant["shadow_generator"] \in {"v1-gan", "v2-diff"}
    BY <1>1, ServingRuntime
  <2>6. DefaultStageBackend(settings, stage) # "mock" /\ Order(settings, stage)[n].kind = "mock"
    BY <2>1, <2>2
  <2> QED
    BY <2>1, <2>2, <2>4, <2>5, <2>6, LocalsBeforeMock
<1> QED
  BY <1>1, SelectionInvariant, PTL

\* Of all that a host and Triton can do to it in PossibleEnvironments, only
\* the causes that OnlyRawFaultsStopStartup lists end a start: whatever else
\* is missing, broken, garbled or badly described, the service comes up
\* (build_runtime, bootstrap/container.py).
THEOREM RawFaultsOnly == SelectionSpec => []OnlyRawFaultsStopStartup
<1>1. ASSUME SelectionInv
      PROVE  OnlyRawFaultsStopStartup
  <2> DEFINE host == environment.host
             raw == {"odd", "dropped", "cut", "stalling"}
  <2> SUFFICES ASSUME phase = "failed"
               PROVE  \/ host.package["torch"] # "present"
                      \/ ~host.directories
                      \/ \E f \in Files : host.file[f] \in {"barred", "odd"}
                      \/ /\ environment.endpoint = "up"
                         /\ \/ \E m \in TritonModels : environment.server[m] \in raw
                            \/ ~TritonOnnxGroundingDinoDetector(host)
    BY DEF OnlyRawFaultsStopStartup
  <2>1. StartRaises(environment) /\ environment \in PossibleEnvironments
    BY <1>1 DEF SelectionInv, FailuresAreRaised, SelectionTypeOK
  <2>2. <<"detector", "grounding-dino-onnx">> \in TritonModels
    BY DEF TritonModels, Binding
  <2>3. ProbeRaises(host) => \E f \in Files : host.file[f] \in {"barred", "odd"}
    <3>1. /\ \A i \in 1..4 : BundleOrder[i] \in Files
          /\ "v1 weights" \in Files /\ "v2 config" \in Files
      BY DEF BundleOrder, BundleFiles, Files
    <3> HIDE DEF host
    <3> QED BY <3>1 DEF ProbeRaises
  <2>4. \A m \in TritonModels :
           /\ ProbeTritonBackend(environment, m) = "ready" => environment.endpoint = "up"
           /\ ProbeTritonBackend(environment, m) \notin {"ready", "unavailable"} =>
                 environment.endpoint = "up" /\ environment.server[m] \in raw
    BY <2>1, ProbeOutcomes
  <2> QED
    BY <2>1, <2>2, <2>3, <2>4 DEF StartRaises, ContainerImports
<1> QED
  BY <1>1, SelectionInvariant, PTL
=============================================================================

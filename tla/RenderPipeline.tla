--------------------------- MODULE RenderPipeline ---------------------------
(***************************************************************************)
(* One thread of the service renders request after request, by the public  *)
(* pipeline (RenderPipelineUseCase) or by the debug pipeline               *)
(* (DebugPipelineUseCase): which stages run, on which backends and inputs, *)
(* what their faults become, and what is kept in the preprocess cache, also*)
(* when the service is started again, crashed or redeployed.               *)
(*                                                                         *)
(* Pictures are modelled by their lineage: a value in the context is the   *)
(* set of all <<stage, n>> that had a part in it, n being the number of the*)
(* request, or 0 for one of another thread that shared a Triton batch.  {} *)
(* is a value that is not there (None).  The interleavings of the threads  *)
(* and what becomes of the cache's files are in BatchCoordinator and       *)
(* PreprocessCache.                                                        *)
(***************************************************************************)
EXTENDS BackendRegistry, ServedModels

CONSTANTS
    Deployments,  \* [settings, environment, transport, installed] to choose from
    Requests,     \* what clients may send, see Arrive
    MaxRequests,  \* bound: how many of them
    MaxBatch,     \* bound: how many renders share a Triton call
    Width, Height \* bound: the sides of a picture, in pixels

ASSUME BoundsAssumption ==
    MaxRequests \in Nat /\ {MaxBatch, Width, Height} \subseteq Nat \ {0}
ASSUME DeploymentsAssumption ==
    Deployments \subseteq [settings : ValidSettings, environment : PossibleEnvironments,
                           transport : {"json", "native"}, installed : BOOLEAN]
ASSUME RequestsAssumption ==
    \A r \in Requests : /\ r.kind \in {"render", "debug"}
                        /\ r.model \in {"", "v1-gan", "v2-diff"}
                        /\ r.source \in {"ok", "version", "bytes", "mime"}

VARIABLES
    runtime,    \* what build_runtime made of this start, see Built
    log,        \* the requests so far
    under,      \* the runtime each of them arrived at
    at,         \* what the thread is about to do: "idle", "decode", "lookup",
                \* a stage, "crop", "save" or "encode"
    context,    \* PipelineContext: the lineage of each value
    warnings,
    listed,     \* the stages of a debug outcome, [stage, status]
    cache,      \* the snapshots, [key, values]
    result,     \* of the last request: a status, or "none" before its end
    fault       \* what ended it early: [stage, name, wire], or NoFault

pipelineVars ==
    <<runtime, log, under, at, context, warnings, listed, cache, result, fault>>

NoFault == [stage |-> "none", name |-> "none", wire |-> "none"]

Settings == runtime.settings
Backends == runtime.registry
Components == runtime.components
Current == log[Len(log)]
Own == Len(log)

-----------------------------------------------------------------------------
(* The context.                                                            *)

Values == {"source", "detection", "geometry", "crop", "segmentation", "cutout",
           "refinement", "depth", "normals", "shadow", "composition"}
EmptyContext == [v \in Values |-> {}]

\* What the stage executor builds a stage's input from.
Inputs(stage) ==
    CASE stage \in {"detector", "geometry_estimator"} -> {"source"}
      [] stage = "segmenter" -> {"crop"}
      [] stage = "foreground_refiner" -> {"segmentation", "cutout"}
      [] stage = "depth_estimator" -> {"cutout", "segmentation"}
      [] stage = "normal_estimator" -> {"cutout", "depth"}
      [] stage = "shadow_generator" -> {"cutout", "segmentation", "depth", "normals"}
      [] stage = "composer" -> {"cutout", "shadow"}

\* Where a stage's value goes; a refined cutout replaces the segmenter's.
Outputs(stage) ==
    CASE stage = "detector" -> {"detection"}
      [] stage = "geometry_estimator" -> {"geometry"}
      [] stage = "segmenter" -> {"segmentation", "cutout"}
      [] stage = "foreground_refiner" -> {"refinement", "cutout"}
      [] stage = "depth_estimator" -> {"depth"}
      [] stage = "normal_estimator" -> {"normals"}
      [] stage = "shadow_generator" -> {"shadow"}
      [] stage = "composer" -> {"composition"}

\* own is the number of this request; a box that no crop can be made of is
\* remembered by the exception it will raise.
Lineage(stage, o, own) ==
    {<<stage, IF o.name = "mine" THEN own ELSE 0>>}
        \cup (IF o.box = "good" THEN {} ELSE {<<o.box, own>>})
        \cup UNION {context[v] : v \in Inputs(stage)}

\* Mutant: the refined cutout is kept beside the segmenter's.
AssignUnmerged(ctx, stage, lineage) ==
    [v \in Values |-> IF v \in Outputs(stage) \ (IF stage = "foreground_refiner"
                                                  THEN {"cutout"} ELSE {})
                      THEN lineage ELSE ctx[v]]
Assign(ctx, stage, lineage) ==
    [v \in Values |-> IF v \in Outputs(stage) THEN lineage ELSE ctx[v]]

\* prepare_working_crop
Cropped(ctx) == [ctx EXCEPT !["crop"] = ctx["source"] \cup ctx["detection"]]

Snapshotted == {"detection", "geometry", "segmentation", "cutout", "refinement", "depth",
                "normals"}

\* Mutant: the model's version is left out.
SignatureOfIds(r) == [stage \in Stages |-> r.components[stage].id]
\* PipelineRuntime.signature: name, kind, variant and version of each default.
Signature(r) ==
    [stage \in Stages |-> [id |-> r.components[stage].id, version |-> r.versions[stage]]]

\* Mutant: padding_px is left out.
KeyOfImage(request) == <<request.image, Signature(runtime), Settings.working_square>>
\* make_key; working_square is both working_size and working_content_scale.
MakeKey(request) ==
    <<request.image, Signature(runtime), request.padding, Settings.working_square>>

-----------------------------------------------------------------------------
(* What can come of calling a backend: [name, box, wire], name being the   *)
(* owner of the value, "mine" or "other", or the class of the exception,   *)
(* box "good" or what cropping the detected box raises, wire what went     *)
(* wrong in the exchange with Triton.                                      *)

Outcome(name, box, wire) == [name |-> name, box |-> box, wire |-> wire]
Succeeded(o) == o.name \in {"mine", "other"}

\* What comes of the boxes of each detector, whatever the network answers,
\* also beyond the picture's edges.
Network == LET ends == -3..(4 * Width + 3) IN {Segment(lo, hi) : lo \in ends, hi \in ends}
Crops(segments) ==
    {IF CropRaises(s) = "none" THEN "good" ELSE CropRaises(s) : s \in segments}
MockCrops == Crops(UNION {MockDetections(padding, Width) : padding \in 0..Width})
RealCrops == Crops(RealDetections(Network, Width))
OnnxCrops == Crops(OnnxDetections(Network, Width, Height))
ServedCrops ==
    LET answers == {DetectorExecute(<<{q}>>, Width) : q \in Network} \ {<<>>}
    IN Crops({TensorToBbox(s) : s \in UNION {answer[1] : answer \in answers}})

Boxes(stage, id) ==
    IF stage # "detector" THEN {"good"}
    ELSE CASE id.kind = "mock" -> MockCrops
           [] id.kind = "local" -> RealCrops
           [] id = Id("triton", "grounding-dino-onnx") -> OnnxCrops
           [] id = Id("triton", "grounding-dino") -> ServedCrops

\* What the adapter of a model hands to this thread when the call is
\* answered: the detectors call the client themselves, the others share the
\* call with renders of other threads.
Batch(n, me) == [i \in 1..n |-> IF i = me THEN "mine" ELSE "other"]

\* The rows Triton answers a call with; the repository's segmenter may be
\* given other calls' pictures, of the same size or another, on both sides.
OtherCalls == {<<>>} \cup {<<[rows |-> <<"other">>, shape |-> shape]>> : shape \in {"same", "else"}}
Rows(m, batch) ==
    IF m # <<"segmenter", "birefnet">> THEN {batch}
    ELSE {SegmenterExecute(before \o <<[rows |-> batch, shape |-> "same"]>> \o after)
              [Len(before) + 1] : before \in OtherCalls, after \in OtherCalls}

Handed ==
    [m \in TritonModels |->
        LET t == CHOOSE t \in Binding[m].outputs : TRUE
            alone == m[1] = "detector"
            sharers == {b \in (1..MaxBatch) \X (1..MaxBatch) :
                           b[2] <= b[1] /\ (alone => b[1] = 1)}
            layouts == IF alone THEN {"batched", "wrong_type", "missing"} ELSE Layouts
            handed(batch, rows, layout) == HandOut("response", Answered(layout, t, rows), t, batch)
        IN UNION {{handed(Batch(b[1], b[2]), rows, layout)[b[2]] :
                      layout \in layouts, rows \in Rows(m, Batch(b[1], b[2]))} : b \in sharers}]

TritonOutcomes(m) ==
    LET call(exchange) ==
            Infer(runtime.transport, runtime.installed, exchange[1], exchange[2])
        failures == {exchange \in Wire \X NativeTexts : call(exchange) # "response"}
        raised == IF m[2] = "grounding-dino-onnx" THEN {"ValueError"} ELSE {}
    IN {Outcome(name, box, "ok") : name \in Handed[m], box \in Boxes(m[1], Id("triton", m[2]))}
       \cup {Outcome(name, "good", "ok") : name \in raised}
       \cup {Outcome(call(failure), "good", failure[1]) : failure \in failures}

\* A local model may raise at any call, and does if it cannot be created at
\* its first use; a detector that finds nothing raises, in the ONNX model's
\* adapter too, and on the server for Triton's other one.  An input that is
\* None fails in the adapter.
Outcomes(stage, id) ==
    IF \E v \in Inputs(stage) : context[v] = {}
    THEN {Outcome("AttributeError", "good", "ok")}
    ELSE CASE id.kind = "triton" -> TritonOutcomes(<<stage, id.variant>>)
           [] id.kind = "local" ->
                {Outcome("RuntimeError", "good", "ok")}
                    \cup (IF id.variant \in LocalModels \ runtime.runs THEN {}
                          ELSE {Outcome("mine", box, "ok") : box \in Boxes(stage, id)})
           [] id.kind = "mock" -> {Outcome("mine", box, "ok") : box \in Boxes(stage, id)}

\* StageRunner._normalize_error, as the status the client is answered.
Normalize(name) == IF name = "TritonTimeout" THEN "timeout" ELSE "processing_failed"

-----------------------------------------------------------------------------
(* Which backend is asked for.                                             *)

SelectRender(stage) ==
    IF stage = "shadow_generator" /\ Current.model # ""
    THEN SelectForDebug(Backends, stage, "local", Current.model)
    ELSE SelectForPublic(Components[stage])

\* DebugPipelineUseCase._requested_backend: what the request sets of the
\* stage's mode, kind and variant; "" is a field that is not set.
RequestedBackend(stage, legacy, kind, variant) ==
    LET asked == IF kind # "" THEN kind ELSE IF legacy = "mock" THEN "mock" ELSE "local"
    IN Id(asked,
          IF asked = "mock" THEN MockVariant(stage)
          ELSE IF variant # "" THEN variant
          ELSE IF stage = "shadow_generator"
          THEN IF legacy \in {"mock", "v1-gan", "v2-diff"} THEN legacy ELSE "v1-gan"
          ELSE IF stage = "normal_estimator" THEN Settings.model_variant[stage]
          ELSE DefaultVariant[stage])

\* What the schema lets through.
StageModes(stage) ==
    IF stage = "shadow_generator" THEN {"", "mock", "v1-gan", "v2-diff"} ELSE {"", "mock", "real"}
StageBackendKinds(stage) ==
    {"", "mock", "local"} \cup IF stage \in HeavyStages THEN {"triton"} ELSE {}
StageVariants(stage) ==
    IF stage = "shadow_generator" THEN {"", "mock", "v1-gan", "v2-diff"}
    ELSE {"", "other"} \cup {e.variant : e \in ToSet(Backends[stage])}
DebugSelections(stage) ==
    {LET id == RequestedBackend(stage, legacy, kind, variant)
     IN SelectForDebug(Backends, stage, id.kind, id.variant) :
        legacy \in StageModes(stage), kind \in StageBackendKinds(stage),
        variant \in StageVariants(stage)}

-----------------------------------------------------------------------------
(* The pipelines.                                                          *)

\* The public pipeline detects first, the debug pipeline estimates geometry
\* first; the working crop is part of the debug pipeline's detector stage.
Geometry == IF Settings.geometry_enabled THEN <<"geometry_estimator">> ELSE <<>>
RenderOrder ==
    <<"detector">> \o Geometry
        \o <<"crop", "segmenter", "foreground_refiner", "depth_estimator",
             "normal_estimator", "save", "shadow_generator", "composer", "encode">>
DebugOrder ==
    Geometry
        \o <<"detector", "segmenter", "foreground_refiner", "depth_estimator",
             "normal_estimator", "shadow_generator", "composer">>

After(order, step) == order[SelectInSeq(order, LAMBDA x : x = step) + 1]

\* What build_runtime makes of a deployment, and which local models can run.
Built(d) ==
    LET registry == Registry(d.settings, d.environment)
        components == [stage \in Stages |-> Component(d.settings, registry, stage)]
        host == d.environment.host
    IN [settings |-> d.settings, registry |-> registry, components |-> components,
        versions |-> [stage \in Stages |->
                         ModelVersion(d.settings, host, components[stage].id)],
        runs |-> {m \in LocalModels : Runs(d.settings, host, m)},
        transport |-> d.transport, installed |-> d.installed]
Runtimes == {Built(d) : d \in {x \in Deployments : ~StartRaises(x.environment)}}

PipelineInit ==
    /\ runtime \in Runtimes
    /\ log = <<>>
    /\ under = <<>>
    /\ at = "idle"
    /\ context = EmptyContext
    /\ warnings = {}
    /\ listed = <<>>
    /\ cache = {}
    /\ result = "none"
    /\ fault = NoFault

\* _append_runtime_warnings
RuntimeWarnings ==
    {<<"mock_backend", stage>> : stage \in {s \in Stages : Components[s].id.kind = "mock"}}
        \cup {<<"fallback_active", stage>> : stage \in {s \in Stages : Components[s].fallback}}
        \cup {<<"neural_backend_unavailable", stage>> :
                 stage \in {s \in Stages : Components[s].id = Id("local", "from-depth-v2")}}

(* A request: [kind, image, padding, model, source, stop].  kind is "render"*)
(* or "debug"; model the requested shadow model, or ""; source says what is *)
(* wrong with it, "version", "bytes" or "mime", or "ok"; stop the debug     *)
(* pipeline's stop_after, or "none".                                        *)
Arrive ==
    /\ at = "idle"
    /\ Len(log) < MaxRequests
    /\ \E request \in Requests : log' = Append(log, request)
    /\ under' = Append(under, runtime)
    /\ at' = "decode"
    /\ context' = EmptyContext
    /\ warnings' = IF log'[Len(log')].kind = "render" THEN RuntimeWarnings ELSE {}
    /\ listed' = <<>>
    /\ result' = "none"
    /\ fault' = NoFault
    /\ UNCHANGED <<runtime, cache>>

\* The process ends, at any moment, and is started again, maybe with other
\* settings or on another host; the cache directory is all that is left.  After
\* the last request it would change nothing.
Restart ==
    /\ Len(log) < MaxRequests
    /\ runtime' \in Runtimes
    /\ at' = "idle"
    /\ context' = EmptyContext
    /\ warnings' = {}
    /\ listed' = <<>>
    /\ result' = "none"
    /\ fault' = NoFault
    /\ UNCHANGED <<log, under, cache>>

Ends(status) == at' = "idle" /\ result' = status
EndsWith(status, stage, o) ==
    /\ Ends(status)
    /\ fault' = [stage |-> stage, name |-> o.name, wire |-> o.wire]

\* What files that cannot be read or written, and pictures that cannot be
\* encoded or drawn on, raise where nothing catches it.
AssetErrors == {"OSError", "ValueError"}
RaisesRaw == \E name \in AssetErrors : EndsWith("raw", at, Outcome(name, "good", "ok"))

DecodeFails ==
    /\ at = "decode"
    /\ Current.source # "ok"
    /\ Ends(IF Current.source = "mime" THEN "unsupported_input" ELSE "validation_error")
    /\ UNCHANGED <<runtime, log, under, context, warnings, listed, cache, fault>>

\* The debug pipeline can stop here, or at a geometry stage that is not run; its
\* list starts with a preview of the picture, which has to be encoded.
Decode ==
    /\ at = "decode"
    /\ Current.source = "ok"
    /\ context' = [context EXCEPT !["source"] = {<<"source", Own>>}]
    /\ LET decoded == [stage |-> "decode", status |-> "completed"]
           skipped == [stage |-> "geometry_estimator", status |-> "skipped"]
           skip == Current.stop = "geometry_estimator" /\ ~Settings.geometry_enabled
       IN IF Current.kind = "render"
          THEN at' = "lookup" /\ UNCHANGED <<listed, result, fault>>
          ELSE \/ RaisesRaw /\ UNCHANGED listed
               \/ /\ listed' = IF skip THEN <<decoded, skipped>> ELSE <<decoded>>
                  /\ IF skip \/ Current.stop = "decode" THEN Ends("debug")
                     ELSE at' = Head(DebugOrder) /\ UNCHANGED result
                  /\ UNCHANGED fault
    /\ UNCHANGED <<runtime, log, under, warnings, cache>>

\* A hit puts everything up to the normals into the context.  A snapshot that
\* is half-saved, by another thread or before a crash, or damaged, raises.
Lookup ==
    /\ at = "lookup"
    /\ LET hits == {x \in cache : x.key = MakeKey(Current)}
       IN \/ RaisesRaw /\ UNCHANGED <<context, warnings>>
          \/ /\ hits = {}
             /\ at' = "detector"
             /\ UNCHANGED <<context, warnings, result, fault>>
          \/ /\ hits # {}
             /\ LET values == (CHOOSE x \in hits : TRUE).values
                IN context' = [v \in Values |-> IF v \in Snapshotted THEN values[v]
                                                ELSE context[v]]
             /\ warnings' = warnings \cup {<<"preprocess_cache_hit", "all">>}
             /\ at' = "shadow_generator"
             /\ UNCHANGED <<result, fault>>
    /\ UNCHANGED <<runtime, log, under, listed, cache>>

Running(kind) == at \in Stages /\ Current.kind = kind

\* Mutant: a fallback chosen for the request is not reported.
WarnedNever(stage, selection) == warnings
\* The runner repeats the warning the runtime may have given already.
Warned(stage, selection) ==
    IF selection.fallback THEN warnings \cup {<<"fallback_active", stage>>} ELSE warnings

\* _execute_public_stage: without a backend the value is None, and the
\* pipeline goes on.
RenderStage ==
    /\ Running("render")
    /\ LET selection == SelectRender(at)
           Proceed(value) == context' = Assign(context, at, value) /\ at' = After(RenderOrder, at)
       IN IF selection.actual = NoBackend
          THEN Proceed({}) /\ UNCHANGED <<warnings, result, fault>>
          ELSE \E o \in Outcomes(at, selection.actual) :
                  IF Succeeded(o)
                  THEN /\ Proceed(Lineage(at, o, Own))
                       /\ warnings' = Warned(at, selection)
                       /\ UNCHANGED <<result, fault>>
                  ELSE /\ EndsWith(Normalize(o.name), at, o)
                       /\ UNCHANGED <<context, warnings>>
    /\ UNCHANGED <<runtime, log, under, listed, cache>>

\* prepare_working_crop is called outside the runner.
BadBoxes(ctx) == {p[1] : p \in ctx["detection"]} \cap {"ZeroDivisionError", "ValueError"}
HasArea(ctx) == BadBoxes(ctx) = {}
RaisesOnBox(ctx) ==
    EndsWith("raw", "crop", Outcome(CHOOSE name \in BadBoxes(ctx) : TRUE, "good", "ok"))

Crop ==
    /\ at = "crop"
    /\ LET ctx == IF Settings.geometry_enabled THEN context
                  ELSE [context EXCEPT !["geometry"] = {<<"disabled", Own>>}]
       IN IF HasArea(ctx)
          THEN context' = Cropped(ctx) /\ at' = After(RenderOrder, at) /\ UNCHANGED <<result, fault>>
          ELSE RaisesOnBox(ctx) /\ UNCHANGED context
    /\ UNCHANGED <<runtime, log, under, warnings, listed, cache>>

\* A file that cannot be written ends the render.
Save ==
    /\ at = "save"
    /\ \/ RaisesRaw /\ UNCHANGED cache
       \/ /\ cache' = cache \cup {[key |-> MakeKey(Current),
                                   values |-> [v \in Snapshotted |-> context[v]]]}
          /\ at' = After(RenderOrder, at)
          /\ UNCHANGED <<result, fault>>
    /\ UNCHANGED <<runtime, log, under, context, warnings, listed>>

\* The time taken is looked at only when everything is done.
Encode ==
    /\ at = "encode"
    /\ IF \E v \in {"composition", "segmentation", "cutout", "depth", "normals", "shadow"} :
             context[v] = {}
       THEN EndsWith("raw", at, Outcome("AttributeError", "good", "ok"))
       ELSE \/ RaisesRaw
            \/ EndsWith("timeout", at, Outcome("late", "good", "ok"))
            \/ Ends("completed") /\ UNCHANGED fault
    /\ UNCHANGED <<runtime, log, under, context, warnings, listed, cache>>

\* Mutant: a failed stage does not end the debug run.
EndsAtStopOnly(stage, status) == stage \in {Current.stop, "composer"}
EndsDebug(stage, status) == status = "failed" \/ stage \in {Current.stop, "composer"}

DebugLists(status) ==
    /\ listed' = Append(listed, [stage |-> at, status |-> status])
    /\ IF EndsDebug(at, status) THEN Ends("debug")
       ELSE at' = After(DebugOrder, at) /\ UNCHANGED result

\* _run_stage: an exception is recorded, but for those of the crop and of the
\* previews, which are made after the runner's try: two of them are drawn.
Drawn == {"geometry_estimator", "detector"}
DebugStage ==
    /\ Running("debug")
    /\ \E selection \in DebugSelections(at) :
          IF selection.actual = NoBackend
          THEN DebugLists("failed") /\ UNCHANGED <<context, warnings, fault>>
          ELSE \E o \in Outcomes(at, selection.actual) :
                  LET ctx == Assign(context, at, Lineage(at, o, Own))
                  IN /\ warnings' = Warned(at, selection)
                     /\ IF ~Succeeded(o)
                        THEN /\ DebugLists("failed")
                             /\ fault' = [stage |-> at, name |-> o.name, wire |-> o.wire]
                             /\ UNCHANGED context
                        ELSE IF HasArea(ctx)
                        THEN /\ context' = IF at = "detector" THEN Cropped(ctx) ELSE ctx
                             /\ \/ DebugLists("completed") /\ UNCHANGED fault
                                \/ at \in Drawn /\ RaisesRaw /\ UNCHANGED listed
                        ELSE RaisesOnBox(ctx) /\ UNCHANGED <<context, listed>>
    /\ UNCHANGED <<runtime, log, under, cache>>

PipelineNext ==
    \/ Arrive \/ Restart \/ DecodeFails \/ Decode \/ Lookup
    \/ RenderStage \/ Crop \/ Save \/ Encode
    \/ DebugStage

PipelineSpec == PipelineInit /\ [][PipelineNext]_pipelineVars

-----------------------------------------------------------------------------
(* Properties.                                                             *)

Answered200 == at = "idle" /\ result = "completed"

\* No stage of either pipeline is called, nothing is saved and nothing is
\* encoded with an input missing, although an unavailable stage lets the
\* public pipeline go on with None and a cache hit skips most stages.
InputsPresent ==
    /\ at \in Stages => \A v \in Inputs(at) : context[v] # {}
    /\ at = "save" => \A v \in Snapshotted : context[v] # {}
    /\ at = "encode" => context["composition"] # {}

\* Nothing of another thread's render that shared a Triton call gets into
\* this one's pictures, whatever the server makes of the batch.
OwnSample == \A v \in Values : \A p \in context[v] : p[2] # 0

\* A picture comes from renders of the same image with the same padding, and
\* this render itself has drawn its shadow and composed it.
AnswerIsOfThisImage ==
    Answered200 =>
        /\ \A v \in Values : \A p \in context[v] :
              p[2] # 0 => log[p[2]].image = Current.image /\ log[p[2]].padding = Current.padding
        /\ <<"shadow_generator", Own>> \in context["shadow"]
        /\ <<"composer", Own>> \in context["composition"]

\* Every part of a picture was made by the backend, of the version, that its
\* stage has by default now, in a working square of the same size, also when
\* the service was started again with others in between.
AnswerIsOfThisRuntime ==
    Answered200 =>
        \A v \in Values : \A p \in context[v] :
            p[2] # 0 =>
                LET then == under[p[2]]
                IN /\ then.settings.working_square = Settings.working_square
                   /\ p[1] \in Stages => /\ then.components[p[1]].id = Components[p[1]].id
                                         /\ then.versions[p[1]] = runtime.versions[p[1]]

\* A render served from the cache is made by the same stages as one that is
\* not: the cutout it composes is the refined one.
HitLooksLikeMiss ==
    LET upTo(stage) == {StageOrder[i] : i \in 1..SelectInSeq(StageOrder, LAMBDA x : x = stage)}
                           \ {"geometry_estimator"}
        madeBy == [detection |-> upTo("detector"), segmentation |-> upTo("segmenter"),
                   cutout |-> upTo("foreground_refiner"),
                   refinement |-> upTo("foreground_refiner"),
                   depth |-> upTo("depth_estimator"), normals |-> upTo("normal_estimator"),
                   shadow |-> upTo("shadow_generator"), composition |-> upTo("composer")]
    IN Answered200 =>
           \A v \in DOMAIN madeBy : {p[1] : p \in context[v]} \ {"source"} = madeBy[v]

\* What escapes the service's own errors is one of two things: an error of a
\* file or a picture where nothing catches it, but never that of a stage, nor of
\* an input that is not there; or the exception for a box without an area, which
\* only the client of Triton's plain detector lets through.
RawFaultsAreKnown ==
    result = "raw" =>
        IF fault.stage = "crop"
        THEN /\ fault.name = "ZeroDivisionError"
             /\ IF Current.kind = "render"
                THEN Components["detector"].id = Id("triton", "grounding-dino")
                ELSE Executable(Backends, "detector", Id("triton", "grounding-dino"))
        ELSE /\ fault.name \in AssetErrors
             /\ fault.stage \in IF Current.kind = "render" THEN {"lookup", "save", "encode"}
                                ELSE {"decode"} \cup Drawn

\* A late render is answered "timeout" and leaves its snapshot to the retry; any
\* other timeout comes of an exchange with Triton that failed.  By the JSON
\* transport it does when, and only when, Triton connected and did not answer
\* in time; by the native one, the word in the exception's message decides.
TimeoutsAreTimeouts ==
    (at = "idle" /\ result # "none" /\ Current.kind = "render") =>
        /\ fault.name = "late" =>
              result = "timeout" /\ \E x \in cache : x.key = MakeKey(Current)
        /\ result = "timeout" /\ fault.name # "late" => fault.wire \in Wire \ {"ok"}
        /\ ~(runtime.transport = "native" /\ runtime.installed) =>
              (result = "timeout" <=> fault.name = "late" \/ fault.wire \in {"silent", "stalled"})

\* A completed render says of every stage that ran on another backend than the
\* settings, or the request's shadow model, ask for, that it did.  It is silent
\* of a mock under another name than the mock asked for, and of a normals model
\* whose name is not known; and of normals made from the depth although a model
\* was asked for it says only that there is no neural backend.
FallbacksAreWarned ==
    Answered200 =>
        \A stage \in Stages :
            LET asked == IF stage = "shadow_generator" /\ Current.model # ""
                         THEN Id("local", Current.model) ELSE Components[stage].preferred
                used == SelectRender(stage).actual
            IN \/ used = asked
               \/ <<"fallback_active", stage>> \in warnings
               \/ used.kind = "mock" /\ asked.kind = "mock"
               \/ used = Id("local", "from-depth-v2")
                     /\ <<"neural_backend_unavailable", stage>> \in warnings
               \/ stage = "normal_estimator"
                     /\ Settings.model_variant[stage] \notin {"from-depth-v2", "stable-normal"}

\* A debug answer lists the stages up to the first that failed or to the one
\* asked for, each of which has its value in the context.
DebugListsWhatRan ==
    (at = "idle" /\ result = "debug") =>
        LET ran == {i \in DOMAIN listed : listed[i].status = "completed"}
            last == listed[Len(listed)]
        IN /\ \A i \in 1..(Len(listed) - 1) :
                 i \in ran /\ listed[i].stage # Current.stop
           /\ last.status = "failed" \/ last.stage \in {Current.stop, "composer"}
           /\ \A i \in ran \ {1} : \A v \in Outputs(listed[i].stage) :
                 <<listed[i].stage, Own>> \in context[v]
=============================================================================

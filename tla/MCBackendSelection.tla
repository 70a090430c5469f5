------------------------- MODULE MCBackendSelection -------------------------
(* Model-checking instance of BackendSelection: for one stage at a time,   *)
(* every setting of that stage and everything a start can find for it,     *)
(* with the other stages' things all there or all missing.                 *)
EXTENDS BackendSelection

Kinds == {"", "mock", "local", "triton"}

\* The models of a stage, local and Triton.
LocalsOf(stage) ==
    CASE stage = "detector" -> {"grounding-dino"}
      [] stage = "geometry_estimator" -> {"geocalib"}
      [] stage = "segmenter" -> {"birefnet"}
      [] stage = "foreground_refiner" -> {"fast-foreground-estimation"}
      [] stage = "depth_estimator" -> {"depth-anything-v2-small"}
      [] stage = "normal_estimator" -> {"stable-normal"}
      [] stage = "shadow_generator" -> {"v1-gan", "v2-diff"}
ServedOf(stage) == {m \in TritonModels : m[1] = stage}

VariantsOf(stage) ==
    CASE stage = "detector" -> {"grounding-dino", "grounding-dino-onnx"}
      [] stage = "segmenter" -> {"birefnet", "rmbg-2.0"}
      [] stage = "normal_estimator" -> {"from-depth-v2", "stable-normal"}
      [] stage = "shadow_generator" -> {"v1-gan", "v2-diff"}
      [] OTHER -> {"fixed"}

OverridesOf(stage) ==
    IF stage \in HeavyStages THEN Kinds ELSE {"local", "mock"}

\* Settings in which only `stage` is not left at its default, on a device.
Devices == {<<"cuda", FALSE>>, <<"cuda", TRUE>>, <<"cpu", FALSE>>, <<"cpu", TRUE>>}
SettingsOf(stage, default, mode, geometry, device) ==
    {[execution_default_backend |-> default, runtime_mode |-> mode,
      geometry_enabled |-> geometry, target_device |-> device[1],
      birefnet_allow_cpu |-> device[2], stable_normal_allow_cpu |-> device[2],
      stable_normal_variant |-> "StableNormal_turbo", working_square |-> "1024",
      backend_kind |-> [x \in HeavyStages \cup {"geometry_estimator", "foreground_refiner"} |->
                           IF x = stage THEN o ELSE IF x \in HeavyStages THEN "" ELSE "local"],
      model_variant |-> [x \in VariantStages |->
                            IF x = stage THEN v
                            ELSE CASE x = "normal_estimator" -> "from-depth-v2"
                                   [] x = "shadow_generator" -> "v1-gan"
                                   [] OTHER -> DefaultVariant[x]]] :
     o \in OverridesOf(stage), v \in VariantsOf(stage)}

\* Full and bare hosts, and those with one thing missing or broken, which may
\* be the weights of a stage's model or what the tokenizer loads.
FullHost ==
    [package |-> [p \in Packages |-> "present"], cuda |-> TRUE, directories |-> TRUE,
     file |-> [f \in Files |-> "good"], bundle |-> "inpaint-lora", unloadable |-> {}]
BareHost ==
    [FullHost EXCEPT !.package = [p \in Packages |-> IF p = "torch" THEN "present" ELSE "absent"],
                     !.file = [f \in Files |-> "absent"]]
UsualHosts == {FullHost, BareHost}
OddHosts(stage) ==
    {[FullHost EXCEPT !.package[p] = x] : p \in Packages, x \in {"absent", "broken"}}
        \cup {[FullHost EXCEPT !.directories = FALSE]}
        \cup {[FullHost EXCEPT !.file[f] = x] : f \in Files, x \in {"absent", "barred"}}
        \cup {[FullHost EXCEPT !.file["v2 config"] = x] : x \in {"garbled", "odd"}}
        \cup {[FullHost EXCEPT !.unloadable = {m}] : m \in LocalsOf(stage) \cup {"tokenizer"}}

\* What Triton may make of a model: of the second variant of a stage less,
\* as the first has met the rest.
ConditionsOf(model, endpoint) ==
    IF endpoint # "up" THEN {"serving"}
    ELSE IF model[2] \in {"grounding-dino-onnx", "rmbg-2.0"} THEN {"serving", "absent"}
    ELSE DOMAIN ServerConditions

Environments(stage, endpoint, hosts, conditions) ==
    {[endpoint |-> endpoint, host |-> h,
      server |-> [m \in TritonModels |-> IF m \in ServedOf(stage) THEN c[m] ELSE "serving"]] :
     h \in hosts,
     c \in {c \in [ServedOf(stage) -> conditions] :
               \A m \in ServedOf(stage) : c[m] \in ConditionsOf(m, endpoint)}}

Defaulting == {<<"", "auto">>, <<"", "mock">>, <<"triton", "auto">>, <<"mock", "auto">>}

\* Whatever Triton serves on the usual hosts, and whatever a host lacks with
\* or without Triton.
MCWorlds ==
    UNION {{[settings |-> s, environment |-> e] :
               s \in SettingsOf(stage, d[1], d[2], stage = "geometry_estimator", <<"cuda", FALSE>>),
               e \in Environments(stage, endpoint, UsualHosts, DOMAIN ServerConditions)
                        \cup Environments(stage, endpoint, OddHosts(stage), {"serving"})} :
           stage \in Stages \ {"composer", "artifact_encoder"}, d \in Defaulting,
           endpoint \in {"unset", "down", "up"}}
    \cup
    UNION {{[settings |-> s, environment |-> e] :
               s \in SettingsOf(stage, default, "auto", FALSE, device),
               e \in Environments(stage, "down", {[FullHost EXCEPT !.cuda = c] : c \in BOOLEAN},
                                  {"serving"})} :
           stage \in {"segmenter", "normal_estimator"}, default \in {"", "triton"},
           device \in Devices}
=============================================================================

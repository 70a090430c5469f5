-------------------------- MODULE MCRenderPipeline --------------------------
(* Model-checking instance of RenderPipeline.                              *)
EXTENDS RenderPipeline

MCSettings(default, variants, geometry) ==
    [execution_default_backend |-> default, runtime_mode |-> "auto",
     geometry_enabled |-> geometry, target_device |-> "cuda",
     birefnet_allow_cpu |-> FALSE, stable_normal_allow_cpu |-> FALSE,
     stable_normal_variant |-> "StableNormal_turbo", working_square |-> "1024",
     backend_kind |-> [x \in HeavyStages \cup {"geometry_estimator", "foreground_refiner"} |->
                          IF x \in HeavyStages THEN "" ELSE "local"],
     model_variant |-> variants]

Usual == [detector |-> "grounding-dino", segmenter |-> "birefnet",
          normal_estimator |-> "from-depth-v2", shadow_generator |-> "v1-gan"]
Other == [detector |-> "grounding-dino-onnx", segmenter |-> "rmbg-2.0",
          normal_estimator |-> "stable-normal", shadow_generator |-> "v2-diff"]

\* What is installed beside torch, and whether Triton is up.
Host(packages, files, unloadable) ==
    [package |-> [p \in Packages |-> IF p \in packages \cup {"torch"} THEN "present" ELSE "absent"],
     cuda |-> TRUE, directories |-> TRUE,
     file |-> [f \in Files |-> IF f \in files THEN "good" ELSE "absent"],
     bundle |-> "inpaint-lora", unloadable |-> unloadable]
MCEnvironment(host, endpoint) ==
    [endpoint |-> endpoint, host |-> host,
     server |-> [m \in TritonModels |-> "serving"]]

Deployment(settings, environment, transport, installed) ==
    [settings |-> settings, environment |-> environment,
     transport |-> transport, installed |-> installed]

MCDeployments ==
    {Deployment(MCSettings("triton", Usual, TRUE),
                MCEnvironment(Host({"geocalib", "transformers"}, {"v1 weights"}, {}), "up"),
                "json", FALSE),
     Deployment(MCSettings("triton", Other, FALSE),
                MCEnvironment(Host({"transformers"}, {}, {}), "up"), "native", TRUE),
     Deployment(MCSettings("triton", Other, FALSE),
                MCEnvironment(Host({"diffusers"}, BundleFiles, {}), "down"), "native", FALSE),
     Deployment(MCSettings("local", Usual, TRUE),
                MCEnvironment(Host(Packages, Files, {"v2-diff"}), "down"), "json", FALSE),
     Deployment(MCSettings("mock", Usual, TRUE),
                MCEnvironment(Host(Packages, Files, {}), "unset"), "json", FALSE)}
    \cup {Deployment([MCSettings("local", Other, FALSE) EXCEPT !.stable_normal_variant = variant],
                     MCEnvironment(Host(Packages, BundleFiles, {}), "up"), "native", FALSE) :
             variant \in {"StableNormal", "StableNormal_turbo"}}

Request(kind, image, padding, model, source, stop) ==
    [kind |-> kind, image |-> image, padding |-> padding, model |-> model,
     source |-> source, stop |-> stop]

MCRequests ==
    {Request("render", "cat", 8, model, "ok", "none") : model \in {"", "v1-gan", "v2-diff"}}
    \cup {Request("render", c[1], c[2], "", "ok", "none") : c \in {<<"cat", 9>>, <<"dog", 8>>}}
    \cup {Request("render", "cat", 8, "", source, "none") : source \in {"version", "bytes", "mime"}}
    \cup {Request("debug", "cat", 8, "", "ok", stop) :
             stop \in {"none", "decode", "geometry_estimator"}}
=============================================================================

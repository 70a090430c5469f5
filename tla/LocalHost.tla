----------------------------- MODULE LocalHost -----------------------------
(***************************************************************************)
(* What the local models need of the host: what their probes look for at   *)
(* start-up, and what their constructors use, at start-up or at the first  *)
(* call of a lazy stage.                                                   *)
(*                                                                         *)
(* A host is [package, cuda, directories, file, bundle, unloadable]:       *)
(* whether each Python package is "absent", "broken" (found, but its       *)
(* import raises) or "present"; whether torch sees a GPU; whether the      *)
(* service's own directories are there or can be made; what is in the      *)
(* place of each model file; the name in the bundle's config; the models,  *)
(* and the detector's tokenizer, that cannot be loaded or fetched.         *)
(***************************************************************************)
EXTENDS Integers

LocalModels ==
    {"grounding-dino", "geocalib", "birefnet", "fast-foreground-estimation",
     "depth-anything-v2-small", "stable-normal", "v1-gan", "v2-diff"}
Packages == {"torch", "torchvision", "transformers", "diffusers", "geocalib", "cv2"}

\* In the order the probe looks for them.
BundleOrder == <<"v2 bundle", "v2 config", "v2 checkpoint", "v2 background">>
BundleFiles == {"v2 bundle", "v2 config", "v2 checkpoint", "v2 background"}
Files == BundleFiles \cup {"v1 weights"}

\* "barred": Path.exists itself raises, as in a directory that may not be
\* searched.  Of a config only, "garbled" is not JSON, "odd" no JSON object.
FileStates == {"absent", "barred", "garbled", "odd", "good"}
Exists(h, f) == h.file[f] \notin {"absent", "barred"}

\* bootstrap/container.py imports the ONNX detector's module, which imports
\* torch: without it there is no service, in mock mode either.
ContainerImports(h) == h.package["torch"] = "present"

\* module_available finds a package without importing it.
ModuleAvailable(h, packages) == \A p \in packages : h.package[p] # "absent"
ImportModule(h, packages) == \A p \in packages : h.package[p] = "present"
Loads(h, model) == model \notin h.unloadable

-----------------------------------------------------------------------------
(* The probes.  All are made whatever the settings ask for.                *)

\* "cuda" stands for any name that starts so: probes and constructors look at
\* no more of it, and a device torch does not have is a model that will not load.
Cuda(s) == s.target_device = "cuda"

ProbeGroundingDino(h) == ModuleAvailable(h, {"torch", "transformers"})

BirefnetPackages == {"torch", "transformers", "torchvision"}
ProbeBirefnet(s, h) ==
    ModuleAvailable(h, BirefnetPackages) /\ (h.cuda \/ s.birefnet_allow_cpu)

ProbeDepthAnything(h) == ModuleAvailable(h, {"torch", "transformers"})

StableNormalPackages == {"torch", "torchvision", "transformers", "diffusers"}
ProbeStableNormal(s, h) ==
    /\ ModuleAvailable(h, StableNormalPackages)
    /\ h.cuda \/ (~Cuda(s) /\ s.stable_normal_allow_cpu)

ProbeGeocalib(h) == ModuleAvailable(h, {"geocalib"})

ProbeShadowPix2pix(h) == ModuleAvailable(h, {"torch"}) /\ Exists(h, "v1 weights")

\* Mutant: the bundle is there, so it is taken for whole.
ProbeBundleOnly(h) == ModuleAvailable(h, {"torch", "diffusers"}) /\ Exists(h, "v2 bundle")

ProbeShadowV2Diff(h) ==
    ModuleAvailable(h, {"torch", "diffusers"}) /\ \A f \in BundleFiles : h.file[f] = "good"

ProbeFastForegroundEstimation(h) == ModuleAvailable(h, {"cv2"})

Probe(s, h, model) ==
    CASE model = "grounding-dino" -> ProbeGroundingDino(h)
      [] model = "birefnet" -> ProbeBirefnet(s, h)
      [] model = "depth-anything-v2-small" -> ProbeDepthAnything(h)
      [] model = "stable-normal" -> ProbeStableNormal(s, h)
      [] model = "geocalib" -> ProbeGeocalib(h)
      [] model = "v1-gan" -> ProbeShadowPix2pix(h)
      [] model = "v2-diff" -> ProbeShadowV2Diff(h)
      [] model = "fast-foreground-estimation" -> ProbeFastForegroundEstimation(h)

\* What a probe lets through: an error of Path.exists, at the first file that
\* is not there, and that of a config without get.
ProbeRaises(h) ==
    \/ ModuleAvailable(h, {"torch"}) /\ h.file["v1 weights"] = "barred"
    \/ /\ ModuleAvailable(h, {"torch", "diffusers"})
       /\ \/ \E i \in 1..4 : /\ h.file[BundleOrder[i]] = "barred"
                            /\ \A j \in 1..(i - 1) : Exists(h, BundleOrder[j])
          \/ (\A f \in BundleFiles : Exists(h, f)) /\ h.file["v2 config"] = "odd"

-----------------------------------------------------------------------------
(* The constructors: whether they return.  What they keep per process, so  *)
(* that a second stage need not load again, is left out.                   *)

RealDetector(h) == ImportModule(h, {"torch", "transformers"}) /\ Loads(h, "grounding-dino")

RealSegmenter(h) == ImportModule(h, BirefnetPackages) /\ Loads(h, "birefnet")

RealDepthEstimator(h) ==
    ImportModule(h, {"torch", "transformers"}) /\ Loads(h, "depth-anything-v2-small")

\* It runs on a GPU when that is the target, else on the CPU if it may.
StableNormalEstimator(s, h) ==
    /\ ImportModule(h, {"torch"})
    /\ (Cuda(s) /\ h.cuda) \/ s.stable_normal_allow_cpu
    /\ Loads(h, "stable-normal")

RealGeometryEstimator(h) == ImportModule(h, {"geocalib"}) /\ Loads(h, "geocalib")

Pix2PixShadowGenerator(h) ==
    ImportModule(h, {"torch"}) /\ Exists(h, "v1 weights") /\ Loads(h, "v1-gan")

\* Only the bundle's config is read; diffusers and the base model wait for
\* the first shadow.
V2DiffShadowGenerator(h) ==
    ImportModule(h, {"torch"}) /\ h.file["v2 config"] \in {"odd", "good"}

FastForegroundColorEstimator(h) == ImportModule(h, {"cv2"})

\* Of the ONNX detector only the tokenizer is local.
TritonOnnxGroundingDinoDetector(h) ==
    ImportModule(h, {"torch", "transformers"}) /\ Loads(h, "tokenizer")

Constructs(s, h, model) ==
    CASE model = "grounding-dino" -> RealDetector(h)
      [] model = "birefnet" -> RealSegmenter(h)
      [] model = "depth-anything-v2-small" -> RealDepthEstimator(h)
      [] model = "stable-normal" -> StableNormalEstimator(s, h)
      [] model = "geocalib" -> RealGeometryEstimator(h)
      [] model = "v1-gan" -> Pix2PixShadowGenerator(h)
      [] model = "v2-diff" -> V2DiffShadowGenerator(h)
      [] model = "fast-foreground-estimation" -> FastForegroundColorEstimator(h)

\* _load_pipeline: the pipeline of the base model, its scheduler, the
\* checkpoint and the fast adapter.
LoadPipeline(h) ==
    ImportModule(h, {"diffusers"}) /\ Exists(h, "v2 checkpoint") /\ Loads(h, "v2-diff")

\* Whether a call of the model can succeed.
Runs(s, h, model) ==
    Constructs(s, h, model) /\ (model = "v2-diff" => LoadPipeline(h))
=============================================================================

----------------------- MODULE BackendRegistryProofs -----------------------
(***************************************************************************)
(* Lemmas about the choice of backends, for any valid settings, any host   *)
(* and any Triton that a start may find: the candidates each stage has,    *)
(* what is always registered, and that start-up and debug requests take    *)
(* the first usable candidate.                                             *)
(***************************************************************************)
EXTENDS BackendRegistry, TLAPS

-----------------------------------------------------------------------------
(* Joins of tuples, and the candidates of each stage.                      *)

\* Sequences of one length with the same elements are equal. The solver does
\* not find this for tuples by itself.
LEMMA SameSequence ==
    ASSUME NEW S, NEW s \in Seq(S), NEW t \in Seq(S), Len(s) = Len(t),
           \A i \in 1..Len(s) : s[i] = t[i]
    PROVE  s = t
OBVIOUS

\* Two tuples joined are the tuple of all elements: this and the next four
\* are the joins that FallbackCandidateIds makes.
LEMMA OneAndOne ==
    ASSUME NEW a, NEW b
    PROVE  <<a>> \o <<b>> = <<a, b>>
<1> DEFINE S == {a, b}
           t == <<a>> \o <<b>>
           u == <<a, b>>
<1>1. t \in Seq(S) /\ u \in Seq(S)
  OBVIOUS
<1>2. Len(t) = 2 /\ Len(u) = 2 /\ \A i \in 1..2 : t[i] = u[i]
  OBVIOUS
<1> HIDE DEF S, t, u
<1>3. t = u
  BY <1>1, <1>2, SameSequence
<1> QED BY <1>3 DEF t, u

\* One element joined with two.
LEMMA OneAndTwo ==
    ASSUME NEW a, NEW b, NEW c
    PROVE  <<a>> \o <<b, c>> = <<a, b, c>>
<1> DEFINE S == {a, b, c}
           t == <<a>> \o <<b, c>>
           u == <<a, b, c>>
<1>1. t \in Seq(S) /\ u \in Seq(S)
  OBVIOUS
<1>2. Len(t) = 3 /\ Len(u) = 3 /\ \A i \in 1..3 : t[i] = u[i]
  OBVIOUS
<1> HIDE DEF S, t, u
<1>3. t = u
  BY <1>1, <1>2, SameSequence
<1> QED BY <1>3 DEF t, u

\* Two elements joined with one.
LEMMA TwoAndOne ==
    ASSUME NEW a, NEW b, NEW c
    PROVE  <<a, b>> \o <<c>> = <<a, b, c>>
<1> DEFINE S == {a, b, c}
           t == <<a, b>> \o <<c>>
           u == <<a, b, c>>
<1>1. t \in Seq(S) /\ u \in Seq(S)
  OBVIOUS
<1>2. Len(t) = 3 /\ Len(u) = 3 /\ \A i \in 1..3 : t[i] = u[i]
  OBVIOUS
<1> HIDE DEF S, t, u
<1>3. t = u
  BY <1>1, <1>2, SameSequence
<1> QED BY <1>3 DEF t, u

\* Two elements joined with two.
LEMMA TwoAndTwo ==
    ASSUME NEW a, NEW b, NEW c, NEW d
    PROVE  <<a, b>> \o <<c, d>> = <<a, b, c, d>>
<1> DEFINE S == {a, b, c, d}
           t == <<a, b>> \o <<c, d>>
           u == <<a, b, c, d>>
<1>1. t \in Seq(S) /\ u \in Seq(S)
  OBVIOUS
<1>2. Len(t) = 4 /\ Len(u) = 4 /\ \A i \in 1..4 : t[i] = u[i]
  OBVIOUS
<1> HIDE DEF S, t, u
<1>3. t = u
  BY <1>1, <1>2, SameSequence
<1> QED BY <1>3 DEF t, u

\* Three elements joined with one.
LEMMA ThreeAndOne ==
    ASSUME NEW a, NEW b, NEW c, NEW d
    PROVE  <<a, b, c>> \o <<d>> = <<a, b, c, d>>
<1> DEFINE S == {a, b, c, d}
           t == <<a, b, c>> \o <<d>>
           u == <<a, b, c, d>>
<1>1. t \in Seq(S) /\ u \in Seq(S)
  OBVIOUS
<1>2. Len(t) = 4 /\ Len(u) = 4 /\ \A i \in 1..4 : t[i] = u[i]
  OBVIOUS
<1> HIDE DEF S, t, u
<1>3. t = u
  BY <1>1, <1>2, SameSequence
<1> QED BY <1>3 DEF t, u

\* The candidates of the segmenter and of the detector: the asked variant,
\* the default one, and the mock at the end.
LEMMA CandidatesOfVariantStages ==
    ASSUME NEW stage \in {"segmenter", "detector"}, NEW kind \in {"local", "triton"}, NEW variant
    PROVE  FallbackCandidateIds(stage, kind, variant)
               = IF kind = "triton"
                 THEN <<Id("triton", variant), Id("triton", DefaultVariant[stage]),
                        Id("local", DefaultVariant[stage]), Id("mock", "mock-v1")>>
                 ELSE <<Id("local", variant), Id("local", DefaultVariant[stage]),
                        Id("mock", "mock-v1")>>
<1> DEFINE local == DefaultVariant[stage]
           rest == <<Id("local", local), Id("mock", "mock-v1")>>
<1> HIDE DEF local
<1>1. FallbackCandidateIds(stage, kind, variant)
          = <<Id(kind, variant)>> \o (IF kind = "triton" THEN <<Id("triton", local)>> ELSE <<>>) \o rest
  BY DEF FallbackCandidateIds, VariantStages, VariantStageCandidates, local
<1>2. CASE kind = "triton"
  <2>1. <<Id(kind, variant)>> \o <<Id("triton", local)>> = <<Id(kind, variant), Id("triton", local)>>
    BY OneAndOne
  <2>2. <<Id(kind, variant), Id("triton", local)>> \o rest
            = <<Id(kind, variant), Id("triton", local), Id("local", local), Id("mock", "mock-v1")>>
    BY TwoAndTwo
  <2> QED BY <1>1, <1>2, <2>1, <2>2 DEF local
<1>3. CASE kind = "local"
  <2>1. <<Id(kind, variant)>> \o <<>> = <<Id(kind, variant)>>
    OBVIOUS
  <2> QED BY <1>1, <1>3, <2>1, OneAndTwo DEF local
<1> QED BY <1>2, <1>3

\* The candidates of the shadow generator: the GAN comes after whatever was
\* asked, and before the mock.
LEMMA CandidatesOfShadow ==
    ASSUME NEW kind \in {"local", "triton"}, NEW variant
    PROVE  FallbackCandidateIds("shadow_generator", kind, variant)
               = IF kind = "triton"
                 THEN <<Id("triton", variant), Id("local", variant), Id("local", "v1-gan"),
                        Id("mock", "mock")>>
                 ELSE IF variant = "v2-diff"
                 THEN <<Id("local", variant), Id("local", "v1-gan"), Id("mock", "mock")>>
                 ELSE <<Id("local", variant), Id("mock", "mock")>>
<1> DEFINE mock == <<Id("mock", "mock")>>
           gan == <<Id("local", "v1-gan")>>
<1>1. FallbackCandidateIds("shadow_generator", kind, variant)
          = <<Id(kind, variant)>>
                \o (IF kind = "triton" THEN <<Id("local", variant)>> ELSE <<>>)
                \o (IF kind = "triton" \/ variant = "v2-diff" THEN gan ELSE <<>>)
                \o mock
  BY DEF FallbackCandidateIds, VariantStages, ShadowCandidates
<1>2. <<Id(kind, variant)>> \o <<>> = <<Id(kind, variant)>>
  OBVIOUS
<1>3. CASE kind = "triton"
  BY <1>1, <1>3, OneAndOne, TwoAndOne, ThreeAndOne
<1>4. CASE kind = "local" /\ variant = "v2-diff"
  BY <1>1, <1>2, <1>4, OneAndOne, TwoAndOne
<1>5. CASE kind = "local" /\ variant # "v2-diff"
  BY <1>1, <1>2, <1>5, OneAndOne
<1> QED BY <1>3, <1>4, <1>5

\* The candidates of the normal estimator: normals from depth come last but
\* for the mock.
LEMMA CandidatesOfNormals ==
    ASSUME NEW kind \in {"local", "triton"}, NEW variant
    PROVE  FallbackCandidateIds("normal_estimator", kind, variant)
               = IF variant = "from-depth-v2"
                 THEN <<Id("local", "from-depth-v2"), Id("mock", "mock-v1")>>
                 ELSE <<Id(kind, "stable-normal"), Id("local", "stable-normal"),
                        Id("local", "from-depth-v2"), Id("mock", "mock-v1")>>
BY DEF FallbackCandidateIds, VariantStages, NormalCandidates

\* Who asks for a mock has one candidate, the mock of the stage.
LEMMA CandidatesOfMock ==
    ASSUME NEW stage \in Stages \ {"artifact_encoder"}, NEW variant
    PROVE  FallbackCandidateIds(stage, "mock", variant) = <<MockId(stage)>>
<1>1. CASE stage \in VariantStages
  BY <1>1 DEF FallbackCandidateIds
<1>2. CASE stage \notin VariantStages
  BY <1>2 DEF FallbackCandidateIds, FallbackBackendOrder, VariantStages, MockId,
     DefaultVariantForBackend, Id
<1> QED BY <1>1, <1>2

\* The candidates of the stages without variants of their own.
LEMMA CandidatesOfOthers ==
    ASSUME NEW variant
    PROVE  /\ \A stage \in {"geometry_estimator", "foreground_refiner", "composer"} :
                 FallbackCandidateIds(stage, "local", variant)
                     = <<Id("local", DefaultVariant[stage]), Id("local", DefaultVariant[stage]),
                         MockId(stage)>>
           /\ \A kind \in {"local", "triton"} :
                 FallbackCandidateIds("depth_estimator", kind, variant)
                     = IF kind = "triton"
                       THEN <<Id("triton", "depth-anything-v2-small"),
                              Id("local", "depth-anything-v2-small"), Id("mock", "mock-v1")>>
                       ELSE <<Id("local", "depth-anything-v2-small"), Id("mock", "mock-v1")>>
           /\ FallbackCandidateIds("geometry_estimator", "internal", variant)
                  = <<Id("internal", variant)>>
           /\ FallbackCandidateIds("artifact_encoder", "internal", variant)
                  = <<Id("internal", "default-encoder")>>
<1>1. ASSUME NEW stage \in {"geometry_estimator", "foreground_refiner", "composer"}
      PROVE  FallbackCandidateIds(stage, "local", variant)
                 = <<Id("local", DefaultVariant[stage]), Id("local", DefaultVariant[stage]),
                     MockId(stage)>>
  BY DEF FallbackCandidateIds, FallbackBackendOrder, VariantStages, MockId,
     DefaultVariantForBackend
<1>2. FallbackCandidateIds("depth_estimator", "triton", variant)
          = <<Id("triton", "depth-anything-v2-small"),
              Id("local", "depth-anything-v2-small"), Id("mock", "mock-v1")>>
  BY DEF FallbackCandidateIds, FallbackBackendOrder, VariantStages, MockVariant,
     DefaultVariantForBackend, DefaultVariant
<1>3. FallbackCandidateIds("depth_estimator", "local", variant)
          = <<Id("local", "depth-anything-v2-small"), Id("mock", "mock-v1")>>
  BY DEF FallbackCandidateIds, FallbackBackendOrder, VariantStages, MockVariant,
     DefaultVariantForBackend, DefaultVariant
<1>4. /\ FallbackCandidateIds("geometry_estimator", "internal", variant)
            = <<Id("internal", variant)>>
      /\ FallbackCandidateIds("artifact_encoder", "internal", variant)
            = <<Id("internal", "default-encoder")>>
  BY DEF FallbackCandidateIds, FallbackBackendOrder, VariantStages,
     DefaultVariantForBackend, DefaultVariant
<1> QED BY <1>1, <1>2, <1>3, <1>4

-----------------------------------------------------------------------------
(* The first of the candidates.                                            *)

\* Among candidates, of which there are at most four, there is a first.
LEMMA LeastIndex ==
    ASSUME NEW I \in SUBSET (1..4), I # {}
    PROVE  \E n \in I : \A m \in I : n <= m
<1>1. CASE 1 \in I
  BY <1>1
<1>2. CASE 1 \notin I /\ 2 \in I
  BY <1>2
<1>3. CASE 1 \notin I /\ 2 \notin I /\ 3 \in I
  BY <1>3
<1>4. CASE 1 \notin I /\ 2 \notin I /\ 3 \notin I
  <2>1. PICK n \in I : TRUE
    OBVIOUS
  <2>2. \A m \in I : m = 4
    BY <1>4
  <2> QED BY <2>1, <2>2
<1> QED BY <1>1, <1>2, <1>3, <1>4

\* The least number of a set is the one that none is below.
LEMMA MinIs ==
    ASSUME NEW I \in SUBSET Nat, NEW n \in I, \A m \in I : n <= m
    PROVE  Min(I) = n
<1>1. \A k \in I : (\A m \in I : k <= m) => k = n
  OBVIOUS
<1> QED BY <1>1, Zenon DEF Min

\* Start-up's search over candidates, normals and everything registered ends
\* at the first usable candidate, if one is usable, and says that it fell
\* back exactly if that is not the preferred one.
LEMMA StartupTakesTheFirst ==
    ASSUME NEW registry, NEW stage, NEW kind, NEW variant,
           NEW E, registry[stage] \in Seq(E),
           NEW S, FallbackCandidateIds(stage, kind, variant) \in Seq(S),
           NEW n \in 1..4, n <= Len(FallbackCandidateIds(stage, kind, variant)),
           UsableId(registry, stage, FallbackCandidateIds(stage, kind, variant)[n]),
           \A m \in 1..(n - 1) :
               ~UsableId(registry, stage, FallbackCandidateIds(stage, kind, variant)[m])
    PROVE  LET active == ResolveActiveBackend(registry, stage, kind, variant)
           IN /\ active.id = FallbackCandidateIds(stage, kind, variant)[n]
              /\ active.fallback <=> n > 1
<1> DEFINE candidates == FallbackCandidateIds(stage, kind, variant)
           normals == IF stage = "normal_estimator"
                      THEN <<Id("local", "stable-normal"), Id("local", "from-depth-v2")>>
                      ELSE <<>>
           listed == [i \in DOMAIN registry[stage] |->
                         Id(registry[stage][i].kind, registry[stage][i].variant)]
           order == candidates \o normals \o listed
           I == {i \in 1..Len(order) : UsableId(registry, stage, order[i])}
<1>1. \E N : normals \in Seq(N)
  <2> DEFINE a == Id("local", "stable-normal")
             b == Id("local", "from-depth-v2")
  <2>1. <<a, b>> \in Seq({a, b}) /\ <<>> \in Seq({})
    OBVIOUS
  <2> QED BY <2>1
<1>2. listed \in Seq({Id(e.kind, e.variant) : e \in E})
  OBVIOUS
<1> HIDE DEF normals, listed, candidates
<1>3. /\ Len(order) \in Nat /\ Len(order) >= Len(candidates)
      /\ \A i \in 1..Len(candidates) : order[i] = candidates[i]
  <2>1. PICK N : normals \in Seq(N)
    BY <1>1
  <2> DEFINE T == S \cup N \cup {Id(e.kind, e.variant) : e \in E}
  <2>2. candidates \in Seq(T) /\ normals \in Seq(T) /\ listed \in Seq(T)
    BY <1>2, <2>1 DEF candidates
  <2> HIDE DEF T
  <2> QED BY <2>2
<1> HIDE DEF order
<1>4. n \in I /\ \A m \in I : n <= m
  BY <1>3 DEF candidates
<1>5. Min(I) = n
  BY <1>4, MinIs
<1>6. SelectInSeq(order, LAMBDA id : UsableId(registry, stage, id)) = n
  BY <1>4, <1>5 DEF SelectInSeq
<1>7. ResolveActiveBackend(registry, stage, kind, variant)
          = LET first == SelectInSeq(order, LAMBDA id : UsableId(registry, stage, id))
            IN IF first = 0 THEN [id |-> NoBackend, fallback |-> FALSE]
               ELSE [id |-> order[first], fallback |-> first > 1]
  BY DEF ResolveActiveBackend, order, normals, listed, candidates
<1>8. PICK active : active = ResolveActiveBackend(registry, stage, kind, variant)
  OBVIOUS
<1>9. active = [id |-> order[n], fallback |-> n > 1]
  BY <1>6, <1>7, <1>8
<1>10. active.id = order[n] /\ (active.fallback <=> n > 1)
  BY <1>9
<1> QED
  BY <1>3, <1>8, <1>10 DEF candidates

\* The search of a debug request, over the candidates alone and among what
\* can be executed, ends at the first of them likewise.
LEMMA DebugTakesTheFirst ==
    ASSUME NEW registry, NEW stage, NEW kind, NEW variant,
           NEW S, FallbackCandidateIds(stage, kind, variant) \in Seq(S),
           NEW n \in 1..4, n <= Len(FallbackCandidateIds(stage, kind, variant)),
           Executable(registry, stage, FallbackCandidateIds(stage, kind, variant)[n]),
           \A m \in 1..(n - 1) :
               ~Executable(registry, stage, FallbackCandidateIds(stage, kind, variant)[m])
    PROVE  SelectForDebug(registry, stage, kind, variant).actual
               = FallbackCandidateIds(stage, kind, variant)[n]
<1> DEFINE order == FallbackCandidateIds(stage, kind, variant)
           I == {i \in 1..Len(order) : Executable(registry, stage, order[i])}
<1> HIDE DEF order
<1>1. n \in I /\ \A m \in I : n <= m
  BY DEF order
<1>2. Min(I) = n
  BY <1>1, MinIs
<1>3. SelectInSeq(order, LAMBDA id : Executable(registry, stage, id)) = n
  BY <1>1, <1>2 DEF SelectInSeq
<1>4. LET first == SelectInSeq(order, LAMBDA id : Executable(registry, stage, id))
      IN first # 0 => SelectForDebug(registry, stage, kind, variant).actual = order[first]
  BY DEF SelectForDebug, order
<1> QED
  BY <1>3, <1>4 DEF order

-----------------------------------------------------------------------------
(* What is registered.                                                     *)

\* The members of a short tuple are its elements.
LEMMA TupleMembers ==
    ASSUME NEW e
    PROVE  /\ \A a : e \in ToSet(<<a>>) <=> e = a
           /\ \A a, b : e \in ToSet(<<a, b>>) <=> e = a \/ e = b
           /\ \A a, b, c : e \in ToSet(<<a, b, c>>) <=> e = a \/ e = b \/ e = c
           /\ \A a, b, c, d :
                 e \in ToSet(<<a, b, c, d>>) <=> e = a \/ e = b \/ e = c \/ e = d
BY DEF ToSet

\* The stages by name.
LEMMA StagesAre ==
    Stages = {"detector", "geometry_estimator", "segmenter", "foreground_refiner",
              "depth_estimator", "normal_estimator", "shadow_generator", "composer",
              "artifact_encoder"}
BY DEF Stages, StageOrder, ToSet

\* What is registered for a stage is a sequence.
LEMMA RegistryListed ==
    ASSUME NEW s, NEW env, NEW stage \in Stages
    PROVE  \E E : Registry(s, env)[stage] \in Seq(E)
<1>1. \A a, b, c, d :
          /\ <<a>> \in Seq({a}) /\ <<a, b>> \in Seq({a, b})
          /\ <<a, b, c>> \in Seq({a, b, c}) /\ <<a, b, c, d>> \in Seq({a, b, c, d})
  OBVIOUS
<1>2. /\ \E E : RegisterDetector(s, env) \in Seq(E)
      /\ \E E : RegisterGeometry(s, env) \in Seq(E)
      /\ \E E : RegisterSegmenter(s, env) \in Seq(E)
      /\ \E E : RegisterForegroundRefiner(s, env) \in Seq(E)
      /\ \E E : RegisterDepth(s, env) \in Seq(E)
      /\ \E E : RegisterNormals(s, env) \in Seq(E)
      /\ \E E : RegisterShadow(s, env) \in Seq(E)
      /\ \E E : RegisterComposer \in Seq(E)
      /\ \E E : RegisterEncoder \in Seq(E)
  BY <1>1, Zenon DEF RegisterDetector, RegisterGeometry, RegisterSegmenter, RegisterForegroundRefiner,
     RegisterDepth, RegisterNormals, RegisterShadow, RegisterComposer, RegisterEncoder
<1> QED
  BY <1>2, StagesAre DEF Registry

\* What valid settings may prefer, stage by stage: never "", and "internal"
\* only for the encoder and for geometry that is switched off.
LEMMA PreferredKinds ==
    ASSUME NEW s \in ValidSettings
    PROVE  /\ EffectiveDefaultBackend(s) \in {"mock", "local", "triton"}
           /\ \A stage \in HeavyStages :
                 DefaultStageBackend(s, stage) \in {"mock", "local", "triton"}
           /\ DefaultStageBackend(s, "geometry_estimator")
                  \in IF s.geometry_enabled THEN {"mock", "local"} ELSE {"mock", "internal"}
           /\ DefaultStageBackend(s, "foreground_refiner") \in {"mock", "local"}
           /\ DefaultStageBackend(s, "composer") = "local"
           /\ DefaultStageBackend(s, "artifact_encoder") = "internal"
<1>1. /\ s.execution_default_backend \in {"", "local", "mock", "triton"}
      /\ \A stage \in HeavyStages : s.backend_kind[stage] \in {"", "local", "mock", "triton"}
      /\ s.backend_kind["geometry_estimator"] \in {"local", "mock"}
      /\ s.backend_kind["foreground_refiner"] \in {"local", "mock"}
  BY DEF ValidSettings
<1>2. EffectiveDefaultBackend(s) \in {"mock", "local", "triton"}
  BY <1>1 DEF EffectiveDefaultBackend
<1>3. ASSUME NEW stage \in HeavyStages
      PROVE  DefaultStageBackend(s, stage) \in {"mock", "local", "triton"}
  BY <1>1, <1>2 DEF DefaultStageBackend, StageBackendPreference, HeavyStages
<1>4. DefaultStageBackend(s, "geometry_estimator")
          \in IF s.geometry_enabled THEN {"mock", "local"} ELSE {"mock", "internal"}
  BY <1>1 DEF DefaultStageBackend, HeavyStages
<1>5. DefaultStageBackend(s, "foreground_refiner") \in {"mock", "local"}
  BY <1>1 DEF DefaultStageBackend, HeavyStages
<1> QED
  BY <1>2, <1>3, <1>4, <1>5 DEF DefaultStageBackend

\* Whatever the host lacks, each stage has a backend that needs nothing from
\* it: its mock, or what is built in.
LEMMA AlwaysThere ==
    ASSUME NEW s, NEW env
    PROVE  /\ \A stage \in Stages \ {"composer", "artifact_encoder"} :
                 /\ UsableId(Registry(s, env), stage, MockId(stage))
                 /\ Executable(Registry(s, env), stage, MockId(stage))
           /\ UsableId(Registry(s, env), "composer", Id("local", "python-composer"))
           /\ Executable(Registry(s, env), "composer", Id("local", "python-composer"))
           /\ UsableId(Registry(s, env), "artifact_encoder", Id("internal", "default-encoder"))
           /\ UsableId(Registry(s, env), "normal_estimator", Id("local", "from-depth-v2"))
           /\ Executable(Registry(s, env), "normal_estimator", Id("local", "from-depth-v2"))
           /\ ~s.geometry_enabled =>
                 UsableId(Registry(s, env), "geometry_estimator", Id("internal", "disabled"))
<1> DEFINE Is(e, kind, variant) == /\ Id(e.kind, e.variant) = Id(kind, variant)
                                   /\ e.available /\ e.handler # "none"
<1>1. \A registry, stage, kind, variant :
          (\E e \in ToSet(registry[stage]) : Is(e, kind, variant))
              => /\ UsableId(registry, stage, Id(kind, variant))
                 /\ Executable(registry, stage, Id(kind, variant))
  BY DEF UsableId, Executable, RegisteredIsUsable
<1>2. \A variant : Is(Mock(variant), "mock", variant)
  BY DEF Mock, Entry
<1>3. /\ Mock("mock-v1") \in ToSet(RegisterDetector(s, env))
      /\ Mock("mock-v1") \in ToSet(RegisterGeometry(s, env))
      /\ Mock("mock-v1") \in ToSet(RegisterSegmenter(s, env))
      /\ Mock("passthrough-v1") \in ToSet(RegisterForegroundRefiner(s, env))
      /\ Mock("mock-v1") \in ToSet(RegisterDepth(s, env))
      /\ Mock("mock-v1") \in ToSet(RegisterNormals(s, env))
      /\ Mock("mock") \in ToSet(RegisterShadow(s, env))
  BY DEF ToSet, RegisterDetector, RegisterGeometry, RegisterSegmenter, RegisterForegroundRefiner,
     RegisterDepth, RegisterNormals, RegisterShadow
<1>4. ASSUME NEW stage \in Stages \ {"composer", "artifact_encoder"}
      PROVE  /\ UsableId(Registry(s, env), stage, MockId(stage))
             /\ Executable(Registry(s, env), stage, MockId(stage))
  <2>1. Mock(MockVariant(stage)) \in ToSet(Registry(s, env)[stage])
    BY <1>3, StagesAre DEF Registry, MockVariant
  <2> QED
    BY <1>1, <1>2, <2>1 DEF MockId
<1> DEFINE composer == Entry("local", "python-composer", TRUE, "loaded")
           encoder == Entry("internal", "default-encoder", TRUE, "none")
           depthNormals == Entry("local", "from-depth-v2", TRUE, "loaded")
           disabled == Entry("internal", "disabled", TRUE, "none")
<1>5. /\ composer \in ToSet(RegisterComposer) /\ encoder \in ToSet(RegisterEncoder)
      /\ depthNormals \in ToSet(RegisterNormals(s, env))
      /\ ~s.geometry_enabled => disabled \in ToSet(RegisterGeometry(s, env))
  <2>1. composer \in ToSet(RegisterComposer) /\ encoder \in ToSet(RegisterEncoder)
    BY TupleMembers, Zenon DEF RegisterComposer, RegisterEncoder
  <2>2. depthNormals \in ToSet(RegisterNormals(s, env))
    BY TupleMembers, Zenon DEF RegisterNormals
  <2>3. ASSUME ~s.geometry_enabled
        PROVE  disabled \in ToSet(RegisterGeometry(s, env))
    <3>1. RegisterGeometry(s, env) = <<Mock("mock-v1"), disabled>>
      BY <2>3 DEF RegisterGeometry
    <3> HIDE DEF disabled
    <3> QED BY <3>1, TupleMembers
  <2> QED BY <2>1, <2>2, <2>3
<1>6. Is(composer, "local", "python-composer") /\ Is(depthNormals, "local", "from-depth-v2")
  BY DEF Entry
<1>7. /\ composer \in ToSet(Registry(s, env)["composer"])
      /\ encoder \in ToSet(Registry(s, env)["artifact_encoder"])
      /\ depthNormals \in ToSet(Registry(s, env)["normal_estimator"])
      /\ ~s.geometry_enabled => disabled \in ToSet(Registry(s, env)["geometry_estimator"])
  BY <1>5 DEF Registry
<1>8. /\ UsableId(Registry(s, env), "artifact_encoder", Id("internal", "default-encoder"))
      /\ ~s.geometry_enabled =>
             UsableId(Registry(s, env), "geometry_estimator", Id("internal", "disabled"))
  BY <1>7 DEF UsableId, RegisteredIsUsable, Entry
<1> QED
  BY <1>1, <1>4, <1>6, <1>7, <1>8

-----------------------------------------------------------------------------
(* The default of a stage.                                                 *)

\* What the settings prefer for a stage, and the candidates for it.
Preferred(s, stage) == Id(DefaultStageBackend(s, stage), PreferredVariant(s, stage))
Order(s, stage) ==
    FallbackCandidateIds(stage, DefaultStageBackend(s, stage), PreferredVariant(s, stage))

\* A short tuple is a sequence of something.
LEMMA TupleSequences ==
    /\ \A a : \E S : <<a>> \in Seq(S)
    /\ \A a, b : \E S : <<a, b>> \in Seq(S)
    /\ \A a, b, c : \E S : <<a, b, c>> \in Seq(S)
    /\ \A a, b, c, d : \E S : <<a, b, c, d>> \in Seq(S)
<1>1. \A a, b, c, d : /\ <<a>> \in Seq({a}) /\ <<a, b>> \in Seq({a, b})
                      /\ <<a, b, c>> \in Seq({a, b, c}) /\ <<a, b, c, d>> \in Seq({a, b, c, d})
  OBVIOUS
<1> QED BY <1>1

\* Under valid settings, in any environment, one of the at most four
\* candidates of a stage is usable: the search never has to go on to what
\* else is registered.
LEMMA OrderHasUsable ==
    ASSUME NEW s \in ValidSettings, NEW env, NEW stage \in Stages
    PROVE  /\ \E S : Order(s, stage) \in Seq(S)
           /\ Len(Order(s, stage)) \in 1..4
           /\ \E i \in 1..Len(Order(s, stage)) :
                 UsableId(Registry(s, env), stage, Order(s, stage)[i])
<1> DEFINE kind == DefaultStageBackend(s, stage)
           variant == PreferredVariant(s, stage)
           usable(id) == UsableId(Registry(s, env), stage, id)
           finds(q) == /\ \E S : q \in Seq(S)
                       /\ Len(q) \in 1..4
                       /\ \E i \in 1..Len(q) : usable(q[i])
<1>1. /\ \A a : usable(a) => finds(<<a>>)
      /\ \A a, b : usable(b) => finds(<<a, b>>)
      /\ \A a, b, c : usable(a) \/ usable(c) => finds(<<a, b, c>>)
      /\ \A a, b, c, d : usable(d) => finds(<<a, b, c, d>>)
  <2> HIDE DEF usable
  <2>1. ASSUME NEW a, usable(a)
        PROVE  finds(<<a>>)
    BY <2>1, TupleSequences
  <2>2. ASSUME NEW a, NEW b, usable(b)
        PROVE  finds(<<a, b>>)
    BY <2>2, TupleSequences
  <2>3. ASSUME NEW a, NEW b, NEW c, usable(a) \/ usable(c)
        PROVE  finds(<<a, b, c>>)
    <3>1. Len(<<a, b, c>>) = 3 /\ <<a, b, c>>[1] = a /\ <<a, b, c>>[3] = c
      OBVIOUS
    <3>2. \E S : <<a, b, c>> \in Seq(S)
      BY TupleSequences
    <3> QED BY <2>3, <3>1, <3>2
  <2>4. ASSUME NEW a, NEW b, NEW c, NEW d, usable(d)
        PROVE  finds(<<a, b, c, d>>)
    <3>1. Len(<<a, b, c, d>>) = 4 /\ <<a, b, c, d>>[4] = d
      OBVIOUS
    <3>2. \E S : <<a, b, c, d>> \in Seq(S)
      BY TupleSequences
    <3> QED BY <2>4, <3>1, <3>2
  <2> HIDE DEF finds
  <2> QED BY <2>1, <2>2, <2>3, <2>4
<1>2. stage \notin {"composer", "artifact_encoder"} => usable(MockId(stage))
  BY AlwaysThere
<1> SUFFICES finds(Order(s, stage))
  BY DEF finds, usable
<1> HIDE DEF finds, usable
<1>3. Order(s, stage) = FallbackCandidateIds(stage, kind, variant)
  BY DEF Order
<1> HIDE DEF variant
<1>4. CASE kind = "mock"
  <2>1. stage # "artifact_encoder" /\ stage # "composer"
    BY <1>4, PreferredKinds
  <2>2. Order(s, stage) = <<MockId(stage)>>
    BY <1>3, <1>4, <2>1, CandidatesOfMock
  <2> QED BY <1>1, <1>2, <2>1, <2>2
<1> HIDE DEF kind
<1>5. CASE kind # "mock" /\ stage \in {"segmenter", "detector"}
  <2>1. kind \in {"local", "triton"} /\ MockId(stage) = Id("mock", "mock-v1")
    BY <1>5, PreferredKinds DEF kind, HeavyStages, MockId, MockVariant
  <2>2. \/ \E a, b, c : Order(s, stage) = <<a, b, c, MockId(stage)>>
        \/ \E a, b : Order(s, stage) = <<a, b, MockId(stage)>>
    BY <1>3, <1>5, <2>1, CandidatesOfVariantStages
  <2> QED BY <1>1, <1>2, <1>5, <2>2
<1>6. CASE kind # "mock" /\ stage = "shadow_generator"
  <2>1. kind \in {"local", "triton"} /\ MockId(stage) = Id("mock", "mock")
    BY <1>6, PreferredKinds DEF kind, HeavyStages, MockId, MockVariant
  <2>2. \/ \E a, b, c : Order(s, stage) = <<a, b, c, MockId(stage)>>
        \/ \E a, b : Order(s, stage) = <<a, b, MockId(stage)>>
        \/ \E a : Order(s, stage) = <<a, MockId(stage)>>
    BY <1>3, <1>6, <2>1, CandidatesOfShadow
  <2> QED BY <1>1, <1>2, <1>6, <2>2
<1>7. CASE kind # "mock" /\ stage = "normal_estimator"
  <2>1. kind \in {"local", "triton"} /\ MockId(stage) = Id("mock", "mock-v1")
    BY <1>7, PreferredKinds DEF kind, HeavyStages, MockId, MockVariant
  <2>2. \/ \E a, b, c : Order(s, stage) = <<a, b, c, MockId(stage)>>
        \/ \E a : Order(s, stage) = <<a, MockId(stage)>>
    BY <1>3, <1>7, <2>1, CandidatesOfNormals
  <2> QED BY <1>1, <1>2, <1>7, <2>2
<1>8. CASE kind # "mock" /\ stage = "depth_estimator"
  <2>1. kind \in {"local", "triton"} /\ MockId(stage) = Id("mock", "mock-v1")
    BY <1>8, PreferredKinds DEF kind, HeavyStages, MockId, MockVariant
  <2>2. \/ \E a, b : Order(s, stage) = <<a, b, MockId(stage)>>
        \/ \E a : Order(s, stage) = <<a, MockId(stage)>>
    BY <1>3, <1>8, <2>1, CandidatesOfOthers
  <2> QED BY <1>1, <1>2, <1>8, <2>2
<1>9. CASE kind = "local" /\ stage \in {"foreground_refiner", "geometry_estimator"}
  <2>1. Order(s, stage) = <<Id("local", DefaultVariant[stage]), Id("local", DefaultVariant[stage]),
                            MockId(stage)>>
    BY <1>3, <1>9, CandidatesOfOthers
  <2> QED BY <1>1, <1>2, <1>9, <2>1
<1>10. CASE kind = "internal" /\ stage = "geometry_estimator"
  <2>1. ~s.geometry_enabled
    BY <1>10, PreferredKinds DEF kind
  <2>2. variant = "disabled"
    BY <1>10, <2>1 DEF variant, PreferredVariant, VariantStages
  <2>3. Order(s, stage) = <<Id("internal", "disabled")>>
    BY <1>3, <1>10, <2>2, CandidatesOfOthers
  <2>4. usable(Id("internal", "disabled"))
    BY <1>10, <2>1, AlwaysThere DEF usable
  <2> QED BY <1>1, <2>3, <2>4
<1>11. CASE stage = "composer"
  <2>1. kind = "local" /\ DefaultVariant[stage] = "python-composer"
    BY <1>11, PreferredKinds DEF kind, DefaultVariant
  <2>2. Order(s, stage) = <<Id("local", "python-composer"), Id("local", "python-composer"),
                            MockId(stage)>>
    BY <1>3, <1>11, <2>1, CandidatesOfOthers
  <2>3. usable(Id("local", "python-composer"))
    BY <1>11, AlwaysThere DEF usable
  <2> QED BY <1>1, <2>2, <2>3
<1>12. CASE stage = "artifact_encoder"
  <2>1. Order(s, stage) = <<Id("internal", "default-encoder")>>
    BY <1>3, <1>12, PreferredKinds, CandidatesOfOthers DEF kind
  <2>2. usable(Id("internal", "default-encoder"))
    BY <1>12, AlwaysThere DEF usable
  <2> QED BY <1>1, <2>1, <2>2
<1>13. /\ stage = "foreground_refiner" => kind \in {"mock", "local"}
       /\ stage = "geometry_estimator" => kind \in {"mock", "local", "internal"}
  BY PreferredKinds DEF kind
<1> QED
  BY <1>4, <1>5, <1>6, <1>7, <1>8, <1>9, <1>10, <1>11, <1>12, <1>13, StagesAre

\* The default of a stage is the first usable candidate, and it counts as a
\* fallback exactly if it is not the first candidate.
LEMMA ChosenDefault ==
    ASSUME NEW s \in ValidSettings, NEW env, NEW stage \in Stages
    PROVE  \E n \in 1..4 :
               /\ n <= Len(Order(s, stage))
               /\ UsableId(Registry(s, env), stage, Order(s, stage)[n])
               /\ \A m \in 1..(n - 1) : ~UsableId(Registry(s, env), stage, Order(s, stage)[m])
               /\ Component(s, Registry(s, env), stage).id = Order(s, stage)[n]
               /\ Component(s, Registry(s, env), stage).fallback <=> n > 1
               /\ Component(s, Registry(s, env), stage).preferred = Preferred(s, stage)
<1> DEFINE registry == Registry(s, env)
           order == Order(s, stage)
           I == {i \in 1..Len(order) : UsableId(registry, stage, order[i])}
<1>1. PICK S : order \in Seq(S)
  BY OrderHasUsable
<1>2. Len(order) \in 1..4 /\ I # {}
  BY OrderHasUsable
<1>3. PICK E : registry[stage] \in Seq(E)
  BY RegistryListed
<1> HIDE DEF order, registry
<1>4. I \in SUBSET (1..4)
  BY <1>2
<1>5. PICK n \in 1..4 : n \in I /\ \A m \in I : n <= m
  BY <1>2, <1>4, LeastIndex
<1>6. /\ n \in 1..Len(order) /\ UsableId(registry, stage, order[n])
      /\ \A m \in 1..(n - 1) : ~UsableId(registry, stage, order[m])
  <2>1. n \in 1..Len(order) /\ UsableId(registry, stage, order[n])
    BY <1>5
  <2>2. ASSUME NEW m \in 1..(n - 1), UsableId(registry, stage, order[m])
        PROVE  FALSE
    <3>1. m \in I /\ m < n
      BY <1>2, <2>1, <2>2
    <3> QED BY <1>2, <1>5, <2>1, <3>1
  <2> QED BY <2>1, <2>2
<1> DEFINE kind == DefaultStageBackend(s, stage)
           variant == PreferredVariant(s, stage)
<1>7. order = FallbackCandidateIds(stage, kind, variant)
  BY DEF order, Order
<1> HIDE DEF kind, variant, I
<1>8. PICK active : active = ResolveActiveBackend(registry, stage, kind, variant)
  OBVIOUS
<1>9. active.id = order[n] /\ (active.fallback <=> n > 1)
  <2>1. FallbackCandidateIds(stage, kind, variant) \in Seq(S)
    BY <1>1, <1>7
  <2>2. /\ n <= Len(FallbackCandidateIds(stage, kind, variant))
        /\ UsableId(registry, stage, FallbackCandidateIds(stage, kind, variant)[n])
        /\ \A m \in 1..(n - 1) :
              ~UsableId(registry, stage, FallbackCandidateIds(stage, kind, variant)[m])
    <3>1. n <= Len(order)
      BY <1>2, <1>6
    <3> QED BY <1>6, <1>7, <3>1, Zenon
  <2>3. /\ ResolveActiveBackend(registry, stage, kind, variant).id
               = FallbackCandidateIds(stage, kind, variant)[n]
        /\ ResolveActiveBackend(registry, stage, kind, variant).fallback <=> n > 1
    BY <1>3, <2>1, <2>2, StartupTakesTheFirst
  <2> QED BY <1>7, <1>8, <2>3
<1>10. /\ Component(s, registry, stage).id = order[n]
       /\ Component(s, registry, stage).fallback <=> n > 1
       /\ Component(s, registry, stage).preferred = Preferred(s, stage)
  <2>1. Preferred(s, stage) = Id(kind, variant) /\ Id(kind, variant).kind = kind
           /\ Id(kind, variant).variant = variant
    BY DEF Preferred, kind, variant, Id
  <2>2. Component(s, registry, stage)
            = [preferred |-> Id(kind, variant), id |-> active.id, fallback |-> active.fallback,
               implementation |-> DeriveImplementation(Id(kind, variant), active.id, active.fallback)]
    BY <1>8, <2>1 DEF Component, kind, variant, Preferred
  <2> QED BY <1>9, <2>1, <2>2
<1>11. n <= Len(order)
  BY <1>2, <1>6
<1> QED
  BY <1>6, <1>10, <1>11 DEF order, registry

\* Only two variants are ever registered for normals.
LEMMA NormalsRegistered ==
    ASSUME NEW s, NEW env, NEW id, UsableId(Registry(s, env), "normal_estimator", id)
    PROVE  id \in {Id("mock", "mock-v1"), Id("local", "from-depth-v2"), Id("local", "stable-normal"),
                   Id("triton", "stable-normal")}
<1>1. PICK e \in ToSet(RegisterNormals(s, env)) : Id(e.kind, e.variant) = id
  BY DEF UsableId, Registry
<1> DEFINE a == Mock("mock-v1")
           b == Entry("local", "from-depth-v2", TRUE, "loaded")
           c == IF s.model_variant["normal_estimator"] = "stable-normal"
                THEN Local(s, env, "stable-normal", TRUE)
                ELSE Entry("local", "stable-normal", FALSE, "none")
           d == Triton(env, "normal_estimator", "stable-normal")
<1>2. RegisterNormals(s, env) = <<a, b, c, d>>
  BY DEF RegisterNormals
<1>3. /\ Id(a.kind, a.variant) = Id("mock", "mock-v1")
      /\ Id(b.kind, b.variant) = Id("local", "from-depth-v2")
      /\ Id(c.kind, c.variant) = Id("local", "stable-normal")
      /\ Id(d.kind, d.variant) = Id("triton", "stable-normal")
  BY DEF Mock, Local, Triton, Entry
<1> HIDE DEF a, b, c, d
<1>4. e = a \/ e = b \/ e = c \/ e = d
  BY <1>1, <1>2, TupleMembers
<1> QED
  BY <1>1, <1>3, <1>4

\* The first candidate is the preferred backend, but for a mock and for normals,
\* where an unknown variant is replaced and normals from depth are local.
LEMMA FirstCandidate ==
    ASSUME NEW s \in ValidSettings, NEW stage \in Stages
    PROVE  Order(s, stage)[1] =
               IF DefaultStageBackend(s, stage) = "mock" THEN MockId(stage)
               ELSE IF stage # "normal_estimator" THEN Preferred(s, stage)
               ELSE IF PreferredVariant(s, stage) = "from-depth-v2" THEN Id("local", "from-depth-v2")
               ELSE Id(DefaultStageBackend(s, stage), "stable-normal")
<1> DEFINE kind == DefaultStageBackend(s, stage)
           variant == PreferredVariant(s, stage)
<1>1. Preferred(s, stage) = Id(kind, variant)
  BY DEF Preferred
<1>2. Order(s, stage) = FallbackCandidateIds(stage, kind, variant)
  BY DEF Order
<1>3. /\ stage \in {"segmenter", "detector", "shadow_generator", "normal_estimator", "depth_estimator"}
             => kind \in {"mock", "local", "triton"}
      /\ stage = "foreground_refiner" => kind \in {"mock", "local"}
      /\ stage = "geometry_estimator" =>
             kind \in {"mock"} \cup IF s.geometry_enabled THEN {"local"} ELSE {"internal"}
      /\ stage = "composer" => kind = "local"
      /\ stage = "artifact_encoder" => kind = "internal"
  BY PreferredKinds DEF HeavyStages
<1>4. stage \notin VariantStages =>
          variant = IF stage = "geometry_estimator"
                    THEN IF s.geometry_enabled THEN "geocalib" ELSE "disabled"
                    ELSE DefaultVariant[stage]
  BY StagesAre DEF PreferredVariant, VariantStages
<1> HIDE DEF kind, variant
<1>5. CASE kind = "mock"
  <2>1. stage # "artifact_encoder" /\ stage # "composer"
    BY <1>3, <1>5
  <2>2. Order(s, stage)[1] = MockId(stage)
    BY <1>2, <1>5, <2>1, CandidatesOfMock
  <2> QED BY <1>5, <2>2 DEF kind
<1>6. CASE kind # "mock" /\ stage = "normal_estimator"
  <2>1. kind \in {"local", "triton"}
    BY <1>3, <1>6
  <2>2. Order(s, stage)[1] = IF variant = "from-depth-v2" THEN Id("local", "from-depth-v2")
                             ELSE Id(kind, "stable-normal")
    BY <1>2, <1>6, <2>1, CandidatesOfNormals
  <2> QED BY <1>6, <2>2 DEF kind, variant
<1>7. CASE kind # "mock" /\ stage # "normal_estimator"
  <2>1. Order(s, stage)[1] = Id(kind, variant)
    <3>1. CASE stage \in {"segmenter", "detector"}
      BY <1>2, <1>3, <1>7, <3>1, CandidatesOfVariantStages
    <3>2. CASE stage = "shadow_generator"
      BY <1>2, <1>3, <1>7, <3>2, CandidatesOfShadow
    <3>3. CASE stage = "depth_estimator"
      BY <1>2, <1>3, <1>4, <1>7, <3>3, CandidatesOfOthers DEF VariantStages, DefaultVariant
    <3>4. CASE stage \in {"foreground_refiner", "composer"}
      BY <1>2, <1>3, <1>4, <1>7, <3>4, CandidatesOfOthers DEF VariantStages
    <3>5. CASE stage = "geometry_estimator"
      BY <1>2, <1>3, <1>4, <1>7, <3>5, CandidatesOfOthers DEF VariantStages, DefaultVariant
    <3>6. CASE stage = "artifact_encoder"
      BY <1>2, <1>3, <1>4, <1>7, <3>6, CandidatesOfOthers DEF VariantStages, DefaultVariant
    <3> QED BY <1>7, <3>1, <3>2, <3>3, <3>4, <3>5, <3>6, StagesAre
  <2> QED BY <1>1, <1>7, <2>1 DEF kind
<1> QED BY <1>5, <1>6, <1>7

\* If the preferred backend is usable, then so is the first candidate, even
\* for normals, where the two can differ: an unknown variant is replaced
\* among the candidates, but is not usable either.
LEMMA PreferredFirst ==
    ASSUME NEW s \in ValidSettings, NEW env, NEW stage \in Stages,
           UsableId(Registry(s, env), stage, Preferred(s, stage))
    PROVE  UsableId(Registry(s, env), stage, Order(s, stage)[1])
<1> DEFINE kind == DefaultStageBackend(s, stage)
           variant == PreferredVariant(s, stage)
<1>1. Preferred(s, stage) = Id(kind, variant)
  BY DEF Preferred
<1> HIDE DEF kind, variant
<1>2. CASE kind = "mock"
  <2>1. stage # "artifact_encoder" /\ stage # "composer"
    BY <1>2, PreferredKinds DEF kind
  <2>2. Order(s, stage)[1] = MockId(stage)
    BY <1>2, FirstCandidate DEF kind
  <2> QED BY <2>1, <2>2, AlwaysThere
<1>3. CASE kind # "mock" /\ stage = "normal_estimator" /\ variant = "from-depth-v2"
  <2>1. Order(s, stage)[1] = Id("local", "from-depth-v2")
    BY <1>3, FirstCandidate DEF kind, variant
  <2> QED BY <1>3, <2>1, AlwaysThere
<1>4. CASE kind # "mock" /\ stage = "normal_estimator" /\ variant # "from-depth-v2"
  <2>1. Order(s, stage)[1] = Id(kind, "stable-normal")
    BY <1>4, FirstCandidate DEF kind, variant
  <2>2. variant = "stable-normal"
    BY <1>1, <1>4, NormalsRegistered DEF Id
  <2> QED BY <1>1, <2>1, <2>2
<1>5. CASE kind # "mock" /\ stage # "normal_estimator"
  <2>1. Order(s, stage)[1] = Preferred(s, stage)
    BY <1>5, FirstCandidate DEF kind
  <2> QED BY <2>1
<1> QED BY <1>2, <1>3, <1>4, <1>5

-----------------------------------------------------------------------------
(* What runs, and what does not.                                           *)

\* The defaults of all stages.
Defaulted(s, env) == [stage \in Stages |-> Component(s, Registry(s, env), stage)]

\* The local variants that are registered for a stage.
LocalVariants(stage) ==
    CASE stage = "normal_estimator" -> {"from-depth-v2", "stable-normal"}
      [] stage = "shadow_generator" -> {"v1-gan", "v2-diff"}
      [] OTHER -> {DefaultVariant[stage]}

\* The local models that are registered to be made at their first use.
LazyModels == {"grounding-dino", "birefnet", "depth-anything-v2-small", "v1-gan", "v2-diff"}

\* The models Triton may serve.
LEMMA TritonModelsAre ==
    TritonModels = {<<"detector", "grounding-dino">>, <<"detector", "grounding-dino-onnx">>,
                    <<"segmenter", "birefnet">>, <<"segmenter", "rmbg-2.0">>,
                    <<"depth_estimator", "depth-anything-v2-small">>,
                    <<"normal_estimator", "stable-normal">>, <<"shadow_generator", "v2-diff">>}
BY DEF TritonModels, Binding

\* What is registered for a stage, whatever the settings: local backends and
\* Triton models of known variants, internal ones that cannot be called, and
\* a lazy one only if its probe succeeded.
LEMMA RegisteredEntries ==
    ASSUME NEW s, NEW env, NEW stage \in Stages, NEW e \in ToSet(Registry(s, env)[stage])
    PROVE  /\ e.kind \in {"mock", "local", "triton", "internal"}
           /\ e.kind = "local" => e.variant \in LocalVariants(stage)
           /\ e.kind = "triton" => <<stage, e.variant>> \in TritonModels
           /\ e.kind = "internal" => e.handler = "none"
           /\ e.handler = "lazy" => e.variant \in LazyModels /\ Probe(s, env.host, e.variant)
<1> DEFINE good(x) ==
        /\ x.kind \in {"mock", "local", "triton", "internal"}
        /\ x.kind = "local" => x.variant \in LocalVariants(stage)
        /\ x.kind = "triton" => <<stage, x.variant>> \in TritonModels
        /\ x.kind = "internal" => x.handler = "none"
        /\ x.handler = "lazy" => x.variant \in LazyModels /\ Probe(s, env.host, x.variant)
<1> SUFFICES good(e)
  OBVIOUS
<1>1. e \in ToSet(Registry(s, env)[stage])
  OBVIOUS
<1> HIDE DEF good
<1>2. CASE stage = "detector"
  <2> DEFINE a == Mock("mock-v1")
             b == Local(s, env, "grounding-dino", StageBackendPreference(s, "detector") = "local")
             c == Triton(env, "detector", "grounding-dino")
             d == Triton(env, "detector", "grounding-dino-onnx")
  <2>1. RegisterDetector(s, env) = <<a, b, c, d>>
    BY DEF RegisterDetector
  <2>2. good(a) /\ good(b) /\ good(c) /\ good(d)
    BY <1>2, TritonModelsAre DEF good, LocalVariants, LazyModels, DefaultVariant, Mock, Local, Triton, Entry
  <2> HIDE DEF a, b, c, d
  <2>3. e = a \/ e = b \/ e = c \/ e = d
    BY <1>1, <1>2, <2>1, TupleMembers DEF Registry
  <2> QED BY <2>2, <2>3
<1>3. CASE stage = "geometry_estimator"
  <2> DEFINE a == Mock("mock-v1")
             b == IF s.geometry_enabled THEN Local(s, env, "geocalib", TRUE)
                  ELSE Entry("internal", "disabled", TRUE, "none")
  <2>1. RegisterGeometry(s, env) = <<a, b>>
    BY DEF RegisterGeometry
  <2>2. good(a) /\ good(b)
    BY <1>3, TritonModelsAre DEF good, LocalVariants, LazyModels, DefaultVariant, Mock, Local, Triton, Entry
  <2> HIDE DEF a, b
  <2>3. e = a \/ e = b
    BY <1>1, <1>3, <2>1, TupleMembers DEF Registry
  <2> QED BY <2>2, <2>3
<1>4. CASE stage = "segmenter"
  <2> DEFINE a == Mock("mock-v1")
             b == Local(s, env, "birefnet", StageBackendPreference(s, "segmenter") # "triton")
             c == Triton(env, "segmenter", "birefnet")
             d == Triton(env, "segmenter", "rmbg-2.0")
  <2>1. RegisterSegmenter(s, env) = <<a, b, c, d>>
    BY DEF RegisterSegmenter
  <2>2. good(a) /\ good(b) /\ good(c) /\ good(d)
    BY <1>4, TritonModelsAre DEF good, LocalVariants, LazyModels, DefaultVariant, Mock, Local, Triton, Entry
  <2> HIDE DEF a, b, c, d
  <2>3. e = a \/ e = b \/ e = c \/ e = d
    BY <1>1, <1>4, <2>1, TupleMembers DEF Registry
  <2> QED BY <2>2, <2>3
<1>5. CASE stage = "foreground_refiner"
  <2> DEFINE a == Mock("passthrough-v1")
             b == Local(s, env, "fast-foreground-estimation", TRUE)
  <2>1. RegisterForegroundRefiner(s, env) = <<a, b>>
    BY DEF RegisterForegroundRefiner
  <2>2. good(a) /\ good(b)
    BY <1>5, TritonModelsAre DEF good, LocalVariants, LazyModels, DefaultVariant, Mock, Local, Triton, Entry
  <2> HIDE DEF a, b
  <2>3. e = a \/ e = b
    BY <1>1, <1>5, <2>1, TupleMembers DEF Registry
  <2> QED BY <2>2, <2>3
<1>6. CASE stage = "depth_estimator"
  <2> DEFINE a == Mock("mock-v1")
             b == Local(s, env, "depth-anything-v2-small", StageBackendPreference(s, "depth_estimator") = "local")
             c == Triton(env, "depth_estimator", "depth-anything-v2-small")
  <2>1. RegisterDepth(s, env) = <<a, b, c>>
    BY DEF RegisterDepth
  <2>2. good(a) /\ good(b) /\ good(c)
    BY <1>6, TritonModelsAre DEF good, LocalVariants, LazyModels, DefaultVariant, Mock, Local, Triton, Entry
  <2> HIDE DEF a, b, c
  <2>3. e = a \/ e = b \/ e = c
    BY <1>1, <1>6, <2>1, TupleMembers DEF Registry
  <2> QED BY <2>2, <2>3
<1>7. CASE stage = "normal_estimator"
  <2> DEFINE a == Mock("mock-v1")
             b == Entry("local", "from-depth-v2", TRUE, "loaded")
             c == IF s.model_variant["normal_estimator"] = "stable-normal"
                  THEN Local(s, env, "stable-normal", TRUE)
                  ELSE Entry("local", "stable-normal", FALSE, "none")
             d == Triton(env, "normal_estimator", "stable-normal")
  <2>1. RegisterNormals(s, env) = <<a, b, c, d>>
    BY DEF RegisterNormals
  <2>2. good(a) /\ good(b) /\ good(c) /\ good(d)
    BY <1>7, TritonModelsAre DEF good, LocalVariants, LazyModels, DefaultVariant, Mock, Local, Triton, Entry
  <2> HIDE DEF a, b, c, d
  <2>3. e = a \/ e = b \/ e = c \/ e = d
    BY <1>1, <1>7, <2>1, TupleMembers DEF Registry
  <2> QED BY <2>2, <2>3
<1>8. CASE stage = "shadow_generator"
  <2> DEFINE a == Mock("mock")
             b == Local(s, env, "v1-gan", /\ StageBackendPreference(s, "shadow_generator") = "local"
                                   /\ s.model_variant["shadow_generator"] = "v1-gan")
             c == Local(s, env, "v2-diff", /\ StageBackendPreference(s, "shadow_generator") = "local"
                                   /\ s.model_variant["shadow_generator"] = "v2-diff")
             d == Triton(env, "shadow_generator", "v2-diff")
  <2>1. RegisterShadow(s, env) = <<a, b, c, d>>
    BY DEF RegisterShadow
  <2>2. good(a) /\ good(b) /\ good(c) /\ good(d)
    BY <1>8, TritonModelsAre DEF good, LocalVariants, LazyModels, DefaultVariant, Mock, Local, Triton, Entry
  <2> HIDE DEF a, b, c, d
  <2>3. e = a \/ e = b \/ e = c \/ e = d
    BY <1>1, <1>8, <2>1, TupleMembers DEF Registry
  <2> QED BY <2>2, <2>3
<1>9. CASE stage = "composer"
  <2> DEFINE a == Entry("local", "python-composer", TRUE, "loaded")
  <2>1. RegisterComposer = <<a>>
    BY DEF RegisterComposer
  <2>2. good(a)
    BY <1>9, TritonModelsAre DEF good, LocalVariants, LazyModels, DefaultVariant, Mock, Local, Triton, Entry
  <2> HIDE DEF a
  <2>3. e = a
    BY <1>1, <1>9, <2>1, TupleMembers DEF Registry
  <2> QED BY <2>2, <2>3
<1>10. CASE stage = "artifact_encoder"
  <2> DEFINE a == Entry("internal", "default-encoder", TRUE, "none")
  <2>1. RegisterEncoder = <<a>>
    BY DEF RegisterEncoder
  <2>2. good(a)
    BY <1>10, TritonModelsAre DEF good, LocalVariants, LazyModels, DefaultVariant, Mock, Local, Triton, Entry
  <2> HIDE DEF a
  <2>3. e = a
    BY <1>1, <1>10, <2>1, TupleMembers DEF Registry
  <2> QED BY <2>2, <2>3
<1> QED
  BY <1>2, <1>3, <1>4, <1>5, <1>6, <1>7, <1>8, <1>9, <1>10, StagesAre

\* No stage is left without a backend.
LEMMA SomethingRuns ==
    ASSUME NEW s \in ValidSettings, NEW env, NEW stage \in Stages
    PROVE  Component(s, Registry(s, env), stage).id # NoBackend
<1>1. PICK n \in 1..4 :
          /\ UsableId(Registry(s, env), stage, Order(s, stage)[n])
          /\ Component(s, Registry(s, env), stage).id = Order(s, stage)[n]
  BY ChosenDefault
<1>2. ~UsableId(Registry(s, env), stage, NoBackend)
  BY RegisteredEntries DEF UsableId, NoBackend, Id
<1> QED
  BY <1>1, <1>2

\* In mock mode no stage falls back.
LEMMA MockNeverFallsBack ==
    ASSUME NEW s \in ValidSettings, NEW env, NEW stage \in Stages,
           EffectiveDefaultBackend(s) = "mock"
    PROVE  ~Component(s, Registry(s, env), stage).fallback
<1>1. PICK n \in 1..4 :
          /\ n <= Len(Order(s, stage))
          /\ \A m \in 1..(n - 1) : ~UsableId(Registry(s, env), stage, Order(s, stage)[m])
          /\ Component(s, Registry(s, env), stage).fallback <=> n > 1
  BY ChosenDefault
<1>2. CASE stage \notin {"composer", "artifact_encoder"}
  <2>1. DefaultStageBackend(s, stage) = "mock"
    BY <1>2 DEF DefaultStageBackend
  <2>2. Len(Order(s, stage)) = 1
    BY <1>2, <2>1, CandidatesOfMock DEF Order
  <2> QED BY <1>1, <2>2
<1>3. CASE stage = "artifact_encoder"
  <2>1. Len(Order(s, stage)) = 1
    BY <1>3, PreferredKinds, CandidatesOfOthers DEF Order
  <2> QED BY <1>1, <2>1
<1>4. CASE stage = "composer"
  <2>1. Order(s, stage)[1] = Id("local", "python-composer")
    BY <1>4, PreferredKinds, CandidatesOfOthers DEF Order, DefaultVariant
  <2>2. n = 1
    BY <1>1, <1>4, <2>1, AlwaysThere
  <2> QED BY <1>1, <2>2
<1> QED BY <1>2, <1>3, <1>4

\* A usable backend can be executed unless it is internal.
LEMMA ExecutableIfNotInternal ==
    ASSUME NEW registry, NEW stage, NEW kind, NEW variant,
           UsableId(registry, stage, Id(kind, variant)), kind # "internal"
    PROVE  Executable(registry, stage, Id(kind, variant))
BY DEF UsableId, Executable, RegisteredIsUsable, Id

\* No candidate is internal unless what was preferred is.
LEMMA CandidatesNotInternal ==
    ASSUME NEW s \in ValidSettings, NEW stage \in Stages,
           DefaultStageBackend(s, stage) # "internal",
           NEW n \in 1..4, n <= Len(Order(s, stage))
    PROVE  \E kind, variant : Order(s, stage)[n] = Id(kind, variant) /\ kind # "internal"
<1> DEFINE kind == DefaultStageBackend(s, stage)
           variant == PreferredVariant(s, stage)
           fine(id) == \E k, v : id = Id(k, v) /\ k # "internal"
<1>1. Order(s, stage) = FallbackCandidateIds(stage, kind, variant)
  BY DEF Order
<1>2. kind # "internal" /\ (stage = "composer" => kind = "local") /\ stage # "artifact_encoder"
  BY PreferredKinds
<1>3. /\ stage \in {"segmenter", "detector", "shadow_generator", "normal_estimator", "depth_estimator"}
             => kind \in {"mock", "local", "triton"}
      /\ stage \in {"foreground_refiner", "geometry_estimator"} => kind \in {"mock", "local"}
  BY <1>2, PreferredKinds DEF HeavyStages
<1>4. fine(MockId(stage)) /\ \A v : fine(Id("local", v)) /\ fine(Id("mock", v)) /\ fine(Id("triton", v))
  <2>1. \A k, v : k # "internal" => fine(Id(k, v))
    OBVIOUS
  <2> HIDE DEF fine
  <2> QED BY <2>1 DEF MockId
<1> HIDE DEF kind, variant, fine
<1> SUFFICES fine(Order(s, stage)[n])
  BY DEF fine
<1>5. CASE kind = "mock"
  <2>1. Order(s, stage) = <<MockId(stage)>>
    BY <1>1, <1>2, <1>5, CandidatesOfMock
  <2> QED BY <1>4, <2>1
<1>6. CASE kind # "mock" /\ stage \in {"segmenter", "detector"}
  <2> DEFINE local == DefaultVariant[stage]
  <2>1. \/ Order(s, stage) = <<Id("triton", variant), Id("triton", local), Id("local", local),
                               Id("mock", "mock-v1")>>
        \/ Order(s, stage) = <<Id("local", variant), Id("local", local), Id("mock", "mock-v1")>>
    BY <1>1, <1>3, <1>6, CandidatesOfVariantStages
  <2> HIDE DEF local
  <2> QED BY <1>4, <2>1
<1>7. CASE kind # "mock" /\ stage = "shadow_generator"
  BY <1>1, <1>3, <1>4, <1>7, CandidatesOfShadow
<1>8. CASE kind # "mock" /\ stage = "normal_estimator"
  BY <1>1, <1>3, <1>4, <1>8, CandidatesOfNormals
<1>9. CASE kind # "mock" /\ stage = "depth_estimator"
  BY <1>1, <1>3, <1>4, <1>9, CandidatesOfOthers
<1>10. CASE kind # "mock" /\ stage \in {"foreground_refiner", "geometry_estimator", "composer"}
  <2>1. Order(s, stage) = <<Id("local", DefaultVariant[stage]), Id("local", DefaultVariant[stage]),
                            MockId(stage)>>
    BY <1>1, <1>2, <1>3, <1>10, CandidatesOfOthers
  <2> QED BY <1>4, <2>1
<1> QED BY <1>2, <1>5, <1>6, <1>7, <1>8, <1>9, <1>10, StagesAre

\* Where the first usable candidate is a mock, every usable local backend was
\* among the candidates before it, the diffusion shadow excepted.
LEMMA LocalsBeforeMock ==
    ASSUME NEW s \in ValidSettings, NEW env, NEW stage \in Stages,
           s.model_variant["shadow_generator"] \in {"v1-gan", "v2-diff"},
           DefaultStageBackend(s, stage) # "mock",
           NEW n \in 1..4, n <= Len(Order(s, stage)), Order(s, stage)[n].kind = "mock",
           \A m \in 1..(n - 1) : ~UsableId(Registry(s, env), stage, Order(s, stage)[m]),
           NEW v \in LocalVariants(stage), UsableId(Registry(s, env), stage, Id("local", v))
    PROVE  stage = "shadow_generator" /\ v = "v2-diff" /\ PreferredVariant(s, stage) # "v2-diff"
<1> DEFINE kind == DefaultStageBackend(s, stage)
           variant == PreferredVariant(s, stage)
           usable(id) == UsableId(Registry(s, env), stage, id)
           order == Order(s, stage)
           none == \A m \in 1..(n - 1) : ~usable(order[m])
<1>1. order = FallbackCandidateIds(stage, kind, variant)
  BY DEF Order
<1>2. /\ stage \in {"segmenter", "detector", "shadow_generator", "normal_estimator", "depth_estimator"}
             => kind \in {"local", "triton"}
      /\ stage \in {"foreground_refiner", "composer"} => kind = "local"
      /\ stage = "geometry_estimator" => kind \in {"local", "internal"}
      /\ stage = "artifact_encoder" => kind = "internal"
  BY PreferredKinds DEF HeavyStages
<1>3. n <= Len(order) /\ order[n].kind = "mock" /\ none /\ usable(Id("local", v))
  OBVIOUS
<1>4. stage = "normal_estimator" => usable(Id("local", "from-depth-v2"))
  BY AlwaysThere
<1>5. \A k, x : Id(k, x).kind = k
  BY DEF Id
<1>6. stage = "shadow_generator" => variant = s.model_variant["shadow_generator"]
  BY DEF PreferredVariant, VariantStages
<1>7. stage \notin {"normal_estimator", "shadow_generator"} => v = DefaultVariant[stage]
  BY DEF LocalVariants
<1> HIDE DEF kind, variant, usable, order
<1>8. CASE stage \in {"segmenter", "detector"}
  <2> DEFINE local == DefaultVariant[stage]
  <2>1. \/ order = <<Id("triton", variant), Id("triton", local), Id("local", local),
                     Id("mock", "mock-v1")>>
        \/ order = <<Id("local", variant), Id("local", local), Id("mock", "mock-v1")>>
    BY <1>1, <1>2, <1>8, CandidatesOfVariantStages
  <2>2. v = local
    BY <1>7, <1>8
  <2> HIDE DEF local
  <2>3. n = Len(order) /\ Len(order) \in {3, 4} /\ order[Len(order) - 1] = Id("local", v)
    BY <1>3, <1>5, <2>1, <2>2
  <2> QED BY <1>3, <2>3
<1>9. CASE stage = "depth_estimator"
  <2>1. \/ order = <<Id("triton", v), Id("local", v), Id("mock", "mock-v1")>>
        \/ order = <<Id("local", v), Id("mock", "mock-v1")>>
    BY <1>1, <1>2, <1>7, <1>9, CandidatesOfOthers DEF DefaultVariant
  <2>2. n = Len(order) /\ Len(order) \in {2, 3} /\ order[Len(order) - 1] = Id("local", v)
    BY <1>3, <1>5, <2>1
  <2> QED BY <1>3, <2>2
<1>10. CASE stage = "normal_estimator"
  <2> DEFINE depth == Id("local", "from-depth-v2")
  <2>1. \/ order = <<depth, Id("mock", "mock-v1")>>
        \/ order = <<Id(kind, "stable-normal"), Id("local", "stable-normal"), depth,
                     Id("mock", "mock-v1")>>
    BY <1>1, <1>2, <1>10, CandidatesOfNormals
  <2>2. depth.kind = "local" /\ usable(depth)
    BY <1>4, <1>5, <1>10
  <2> HIDE DEF depth
  <2>3. n = Len(order) /\ Len(order) \in {2, 4} /\ order[Len(order) - 1] = depth
    BY <1>2, <1>3, <1>5, <1>10, <2>1, <2>2
  <2> QED BY <1>3, <2>2, <2>3
<1>11. CASE stage = "shadow_generator"
  <2>1. v \in {"v1-gan", "v2-diff"} /\ variant \in {"v1-gan", "v2-diff"}
    BY <1>6, <1>11 DEF LocalVariants
  <2>2. CASE kind = "triton"
    <3>1. order = <<Id("triton", variant), Id("local", variant), Id("local", "v1-gan"),
                    Id("mock", "mock")>>
      BY <1>1, <1>11, <2>2, CandidatesOfShadow
    <3>2. n = 4 /\ order[2] = Id("local", variant) /\ order[3] = Id("local", "v1-gan")
      BY <1>3, <1>5, <3>1
    <3>3. v # variant /\ v # "v1-gan"
      BY <1>3, <3>2
    <3> QED BY <1>11, <2>1, <3>3 DEF variant
  <2>3. CASE kind = "local" /\ variant = "v2-diff"
    <3>1. order = <<Id("local", variant), Id("local", "v1-gan"), Id("mock", "mock")>>
      BY <1>1, <1>11, <2>3, CandidatesOfShadow
    <3>2. n = 3 /\ order[1] = Id("local", variant) /\ order[2] = Id("local", "v1-gan")
      BY <1>3, <1>5, <3>1
    <3> QED BY <1>3, <2>1, <2>3, <3>2
  <2>4. CASE kind = "local" /\ variant = "v1-gan"
    <3>1. order = <<Id("local", variant), Id("mock", "mock")>>
      BY <1>1, <1>11, <2>4, CandidatesOfShadow
    <3>2. n = 2 /\ order[1] = Id("local", variant)
      BY <1>3, <1>5, <3>1
    <3>3. v # variant
      BY <1>3, <3>2
    <3> QED BY <1>11, <2>1, <2>4, <3>3 DEF variant
  <2> QED BY <1>2, <1>11, <2>1, <2>2, <2>3, <2>4
<1>12. CASE kind = "local" /\ stage \in {"foreground_refiner", "geometry_estimator", "composer"}
  <2>1. order = <<Id("local", v), Id("local", v), MockId(stage)>>
    BY <1>1, <1>7, <1>12, CandidatesOfOthers
  <2>2. n = 3 /\ order[1] = Id("local", v)
    BY <1>3, <1>5, <2>1
  <2> QED BY <1>3, <2>2
<1>13. CASE kind = "internal" /\ stage \in {"geometry_estimator", "artifact_encoder"}
  <2>1. \E x : order = <<Id("internal", x)>>
    BY <1>1, <1>13, CandidatesOfOthers
  <2> QED BY <1>3, <1>5, <2>1
<1> QED
  BY <1>2, <1>8, <1>9, <1>10, <1>11, <1>12, <1>13, StagesAre

\* A probe of Triton ends with one of two answers, unless a model's metadata
\* breaks off, stalls or is JSON of another kind.
LEMMA ProbeOutcomes ==
    ASSUME NEW env \in PossibleEnvironments, NEW m \in TritonModels
    PROVE  /\ ProbeTritonBackend(env, m) = "ready" => env.endpoint = "up"
           /\ ProbeTritonBackend(env, m) \notin {"ready", "unavailable"} =>
                 /\ env.endpoint = "up"
                 /\ env.server[m] \in {"odd", "dropped", "cut", "stalling"}
<1> DEFINE raw == {"odd", "dropped", "cut", "stalling"}
<1>1. env.server[m] \in DOMAIN ServerConditions /\ env.endpoint \in {"unset", "down", "up"}
  BY DEF PossibleEnvironments
<1>2. env.server[m] \in {"serving", "absent", "mismatched", "more_channels", "garbled"} \cup raw
  BY <1>1 DEF ServerConditions
<1>3. env.server[m] \notin raw =>
          ServerConditions[env.server[m]].wire \in {"ok", "status_404", "garbage"}
  BY <1>2 DEF ServerConditions, Condition
<1>4. \A wire \in {"ok", "status_404", "garbage"} :
          RequestJson(wire, TRUE) \in TritonErrors \cup {"response"}
  BY DEF RequestJson, TritonErrors, Translated
<1>5. RequestJson("refused", FALSE) # "response"
  BY DEF RequestJson, Translated
<1>6. env.endpoint # "up" => ProbeTritonBackend(env, m) = "unavailable"
  BY <1>5 DEF ProbeTritonBackend, Ping
<1>7. env.server[m] \notin raw => ProbeTritonBackend(env, m) \in {"ready", "unavailable"}
  BY <1>3, <1>4 DEF ProbeTritonBackend, ProbeBinding
<1> QED BY <1>6, <1>7
=============================================================================

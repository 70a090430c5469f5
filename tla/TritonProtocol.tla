--------------------------- MODULE TritonProtocol ---------------------------
(***************************************************************************)
(* What the Triton client makes of a server: which Python exception each   *)
(* thing that can happen on the wire becomes, what probing a model at      *)
(* start-up accepts, and what an inference call hands to each of the       *)
(* renders that were batched into it.                                      *)
(*                                                                         *)
(* An exception is the name of its class.  Those in TritonErrors are       *)
(* TritonBackendError or below it; any other name is an exception the      *)
(* client does not translate.                                              *)
(***************************************************************************)
EXTENDS Integers, Sequences, SequencesExt

TritonErrors ==
    {"TritonBackendError", "TritonModelUnavailable", "TritonEndpointUnavailable",
     "TritonSchemaMismatch", "TritonTimeout", "TritonInvalidResponse"}

(* What happens to one HTTP exchange (external: urllib and the network):   *)
(*   refused   no connection, whether refused, unresolved or timed out     *)
(*   silent    connected, but no status line within the timeout            *)
(*   dropped   the connection is reset before the status line              *)
(*   stalled   the status line arrives, the body does not                  *)
(*   cut       the connection is closed within the body                    *)
(*   garbage   a 200 whose body is not JSON                                *)
(*   odd       a 200 whose body is JSON, but no object, or one with lists  *)
(*             of what are no objects                                      *)
Wire == {"ok", "refused", "silent", "dropped", "status_404", "status_500", "stalled", "cut",
         "garbage", "odd"}

\* The translations both the GET and the POST path make.
Translated ==
    [refused |-> "TritonEndpointUnavailable", silent |-> "TritonTimeout",
     status_404 |-> "TritonModelUnavailable", status_500 |-> "TritonBackendError",
     garbage |-> "TritonInvalidResponse"]

\* What the GET path lets through: the status line and the body are read
\* where no except names these, and an odd body fails at its first use.
Untranslated ==
    [dropped |-> "ConnectionResetError", stalled |-> "TimeoutError",
     cut |-> "IncompleteRead", odd |-> "AttributeError"]

\* _request_json: the body is read only for JSON.
RequestJson(wire, expectJson) ==
    IF wire = "ok" \/ (wire \in {"stalled", "cut", "garbage", "odd"} /\ ~expectJson)
    THEN "response"
    ELSE IF wire \in DOMAIN Translated THEN Translated[wire] ELSE Untranslated[wire]

\* ping and model_ready: any exception is a no.
Ping(enabled, wire) == enabled /\ RequestJson(wire, FALSE) = "response"
ModelReady(enabled, wire) == Ping(enabled, wire)

-----------------------------------------------------------------------------
(* Tensor bindings: what the adapters expect of each model.                *)

Tensor(name, type, ranks, policy, channels) ==
    [name |-> name, type |-> type, ranks |-> ranks, policy |-> policy, channels |-> channels]
ImageIn(name, channels) == Tensor(name, "FP32", {4}, "channel-first", channels)
ImageOut(name, channels) == Tensor(name, "FP32", {3, 4}, "channel-first", channels)
Plain(name, type, rank) == Tensor(name, type, {rank}, "none", 0)

Binding ==
    [x \in {<<"detector", "grounding-dino">>, <<"detector", "grounding-dino-onnx">>,
            <<"segmenter", "birefnet">>, <<"segmenter", "rmbg-2.0">>,
            <<"depth_estimator", "depth-anything-v2-small">>,
            <<"normal_estimator", "stable-normal">>, <<"shadow_generator", "v2-diff">>} |->
     CASE x[2] = "grounding-dino" ->
            [inputs |-> {ImageIn("image", 3), Tensor("padding_px", "INT32", {1, 2}, "scalar", 0)},
             outputs |-> {Tensor("bbox", "FP32", {1, 2}, "bbox4", 0),
                          Tensor("confidence", "FP32", {1, 2}, "scalar", 0)}]
       [] x[2] = "grounding-dino-onnx" ->
            [inputs |-> {ImageIn("pixel_values", 3), Plain("pixel_mask", "INT64", 3),
                         Plain("input_ids", "INT64", 2), Plain("token_type_ids", "INT64", 2),
                         Plain("attention_mask", "INT64", 2)},
             outputs |-> {Plain("logits", "FP32", 3), Plain("pred_boxes", "FP32", 3)}]
       [] x[2] = "birefnet" ->
            [inputs |-> {ImageIn("image", 3)}, outputs |-> {ImageOut("mask", 1)}]
       [] x[2] = "rmbg-2.0" ->
            [inputs |-> {ImageIn("pixel_values", 3)}, outputs |-> {ImageOut("alphas", 1)}]
       [] x[2] = "depth-anything-v2-small" ->
            [inputs |-> {ImageIn("image", 3), ImageIn("mask", 1)},
             outputs |-> {ImageOut("depth", 1)}]
       [] x[2] = "stable-normal" ->
            [inputs |-> {ImageIn("image", 3), ImageIn("depth", 1)},
             outputs |-> {ImageOut("normal", 3)}]
       [] x[2] = "v2-diff" ->
            [inputs |-> {ImageIn("img", 4), ImageIn("mask", 1)},
             outputs |-> {ImageOut("shadow_image", 4)}]]

-----------------------------------------------------------------------------
(* Probing a model at start-up.  Metadata is [inputs, outputs], each a     *)
(* function from tensor name to [type, shape].                             *)

\* A dimension that can be any size is -1; _channel_first_dim takes the
\* second dimension when the first cannot be the channels.
ChannelFirstDim(shape, channels) ==
    IF shape[1] \in {-1, channels} THEN shape[1]
    ELSE IF Len(shape) >= 4 /\ shape[2] \in {-1, channels} THEN shape[2]
    ELSE shape[1]

\* A shape without the batch dimension is as good as one with it.
MetadataEntryMatches(entry, t) ==
    /\ entry.type = t.type
    /\ Len(entry.shape) \in t.ranks \cup {r - 1 : r \in t.ranks}
    /\ t.policy = "channel-first" /\ entry.shape # <<>>
         => ChannelFirstDim(entry.shape, t.channels) \in {-1, t.channels}

ModelMetadataMatches(binding, metadata) ==
    \A side \in {"inputs", "outputs"} : \A t \in binding[side] :
        /\ t.name \in DOMAIN metadata[side]
        /\ MetadataEntryMatches(metadata[side][t.name], t)

(* What a server can say of a model (external).  A model with a batch      *)
(* dimension shows it as a first -1.                                       *)
Advertisements == {"as_bound", "unbatched", "renamed", "wrong_type", "wrong_rank",
                   "wrong_channels", "unbatched_wrong_channels"}
Advertised(binding, how) ==
    LET channels(t) == IF how \in {"wrong_channels", "unbatched_wrong_channels"}
                       THEN t.channels + 1 ELSE t.channels
        full(t) == IF t.policy = "channel-first" THEN <<-1, channels(t), -1, -1>>
                   ELSE [i \in 1..Max(t.ranks) |-> -1]
        shape(t) == CASE how \in {"unbatched", "unbatched_wrong_channels"} -> Tail(full(t))
                      [] how = "wrong_rank" -> full(t) \o <<-1, -1>>
                      [] OTHER -> full(t)
        entry(t) == [type |-> IF how = "wrong_type" THEN "FP64" ELSE t.type,
                     shape |-> shape(t)]
        side(ts) == [x \in {IF how = "renamed" THEN <<t.name>> ELSE t.name : t \in ts} |->
                        entry(CHOOSE t \in ts : x \in {t.name, <<t.name>>})]
    IN [inputs |-> side(binding.inputs), outputs |-> side(binding.outputs)]

\* "ready", "unavailable", or the class of an exception that probe_binding,
\* which catches TritonBackendError only, lets through.
ProbeBinding(enabled, binding, ready, wire, metadata) ==
    IF ~ModelReady(enabled, ready) THEN "unavailable"
    ELSE LET answer == RequestJson(wire, TRUE)
         IN IF answer \in TritonErrors THEN "unavailable"
            ELSE IF answer # "response" THEN answer
            ELSE IF ModelMetadataMatches(binding, metadata) THEN "ready"
            ELSE "unavailable"

-----------------------------------------------------------------------------
(* One inference call.                                                     *)

\* Mutant: the body is read after the try, as for metadata.
InferJsonUnguarded(wire) ==
    LET answer == RequestJson(wire, TRUE)
    IN IF answer \in TritonErrors \cup {"response"} THEN answer ELSE "TritonBackendError"

\* The JSON transport reads and checks the body inside its try.
InferJson(wire) ==
    IF wire = "ok" THEN "response"
    ELSE IF wire \in DOMAIN Translated THEN Translated[wire]
    ELSE IF wire = "stalled" THEN "TritonTimeout"
    ELSE "TritonBackendError"

\* The native client raises exceptions of its own, and the code tells them
\* apart by their message alone: `text` is the first of its words in it, and
\* any event may come with any of them (a read that timed out says "timed
\* out", which is "other").
NativeTexts ==
    {"timeout", "unavailable", "failed to establish", "connection", "not found",
     "unknown model", "other"}
InferNative(wire, text) ==
    IF wire = "ok" THEN "response"
    ELSE CASE text = "timeout" -> "TritonTimeout"
           [] text \in {"unavailable", "failed to establish", "connection"} ->
                "TritonEndpointUnavailable"
           [] text \in {"not found", "unknown model"} -> "TritonModelUnavailable"
           [] text = "other" -> "TritonBackendError"

\* infer: native when the settings say so and the package is there.
Infer(transport, installed, wire, text) ==
    IF transport = "native" /\ installed THEN InferNative(wire, text) ELSE InferJson(wire)

(* An answered tensor is [type, shape, rows]: rows[i] is the render whose  *)
(* sample the i-th slice along the first axis was computed from.           *)
SizeOf(shape) == FoldSeq(LAMBDA a, b : a * b, 1, shape)
TensorMatches(tensor, t) ==
    /\ tensor.type = t.type
    /\ Len(tensor.shape) \in t.ranks
    /\ t.policy = "scalar" => SizeOf(tensor.shape) = 1
    /\ t.policy = "bbox4" => SizeOf(tensor.shape) >= 4
    /\ t.policy = "channel-first" =>
         tensor.shape[IF Len(tensor.shape) = 4 THEN 2 ELSE 1] = t.channels

\* batch_input_tensors: one sample per render, in the order of the batch
\* (all of one shape, the working square).
BatchInputTensors(renders) == renders

\* split_output_tensor
Splittable(tensor, n) == n <= 1 \/ (tensor.shape # <<>> /\ tensor.shape[1] = n)
\* Mutant: the slices are handed out from the last one on.
SplitBackwards(tensor, n) ==
    IF n <= 1 THEN <<tensor>>
    ELSE [i \in 1..n |-> [tensor EXCEPT !.shape[1] = 1, !.rows = <<tensor.rows[n + 1 - i]>>]]
SplitOutputTensor(tensor, n) ==
    IF n <= 1 THEN <<tensor>>
    ELSE [i \in 1..n |-> [tensor EXCEPT !.shape[1] = 1, !.rows = <<tensor.rows[i]>>]]

\* _to_image: a batch of one is unwrapped, then channels go last; the pixels
\* must be those of the mode, grey taking the first of several channels.
ImageChannels(tensor) ==
    LET data == IF Len(tensor.shape) = 4 THEN Tail(tensor.shape) ELSE tensor.shape
    IN IF Len(data) = 2 THEN 1
       ELSE IF data[1] \in {1, 3, 4} THEN data[1] ELSE data[3]
ConvertsTo(tensor, channels) == channels \in {0, 1} \/ ImageChannels(tensor) = channels

(* What a server can answer to a batch (external): with all four axes, with*)
(* the single channel or the batch squeezed out, for the first sample only,*)
(* or something else altogether.                                           *)
Layouts == {"batched", "no_channel", "first_batched", "first_only", "wrong_type", "missing"}
Answered(layout, t, renders) ==
    LET n == Len(renders)
        side == 8
        whole == [type |-> t.type, rows |-> renders,
                  shape |-> CASE t.policy = "channel-first" -> <<n, t.channels, side, side>>
                              [] t.policy = "bbox4" -> <<n, 4>>
                              [] t.policy = "scalar" -> <<n, 1>>
                              [] OTHER -> <<n, side, side>>]
    IN CASE layout = "batched" -> whole
         [] layout = "no_channel" -> [whole EXCEPT !.shape = <<n, side, side>>]
         [] layout = "first_batched" ->
              [whole EXCEPT !.shape[1] = 1, !.rows = <<renders[1]>>]
         [] layout = "first_only" ->
              [whole EXCEPT !.shape = Tail(@),
                            !.rows = [i \in 1..whole.shape[2] |-> renders[1]]]
         [] layout = "wrong_type" -> [whole EXCEPT !.type = "FP64"]
         [] layout = "missing" -> [whole EXCEPT !.type = "missing"]

\* The batched adapters: what each render of the batch is given, its own
\* sample's owner or the exception, given the answer to the call.
HandOut(call, tensor, t, renders) ==
    LET n == Len(renders)
        All(x) == [i \in 1..n |-> x]
    IN IF call # "response" THEN All(call)
       ELSE IF tensor.type = "missing" \/ ~TensorMatches(tensor, t)
               \/ ~Splittable(tensor, n)
       THEN All("TritonSchemaMismatch")
       ELSE LET items == SplitOutputTensor(tensor, n)
            IN IF \E i \in 1..n : ~ConvertsTo(items[i], t.channels)
               THEN All("ValueError")
               ELSE [i \in 1..n |-> items[i].rows[1]]
=============================================================================

---------------------------- MODULE ServedModels ----------------------------
(***************************************************************************)
(* The two models of the repository's own that Triton serves from Python.  *)
(* Triton may hand several requests to one call of execute, each of one    *)
(* render or of a batch that renders share.                                *)
(***************************************************************************)
EXTENDS DetectionBoxes, FiniteSetsExt

-----------------------------------------------------------------------------
(* The detector.                                                           *)

\* Within the picture, ends in order.
ServerClamp(q, width) ==
    LET lo == Most(0, Least(4 * width, q.lo))
        hi == Most(0, Least(4 * width, q.hi))
    IN Segment(Least(lo, hi), Most(lo, hi))

\* Only candidates with an area count.
SelectPrimaryDetection(candidates, width) ==
    {s \in {ServerClamp(q, width) : q \in candidates} : s.hi > s.lo}

\* requests[i] is the set of the candidates in the i-th picture.  One
\* picture without a detection fails the call, for every request of it: no
\* answers at all.
DetectorExecute(requests, width) ==
    LET found(i) == SelectPrimaryDetection(requests[i], width)
    IN IF \E i \in DOMAIN requests : found(i) = {} THEN <<>>
       ELSE [i \in DOMAIN requests |-> found(i)]

-----------------------------------------------------------------------------
(* The segmenter.  requests[i] is [rows, shape]: the renders whose pictures*)
(* it holds, and their size.                                               *)

\* One call of the network for pictures of one size, split up again.
InferGroup(arrays) ==
    LET merged == FlattenSeq(arrays)
        before(i) == Len(FlattenSeq(SubSeq(arrays, 1, i - 1)))
    IN [i \in DOMAIN arrays |-> SubSeq(merged, before(i) + 1, before(i) + Len(arrays[i]))]

\* In the order of the requests.
IndicesOf(requests, shape) ==
    LET indices == {i \in DOMAIN requests : requests[i].shape = shape}
    IN CHOOSE f \in [1..Cardinality(indices) -> indices] :
           \A j, k \in DOMAIN f : j < k => f[j] < f[k]

\* The answers to the pictures of one size go back to where they came from.
SegmenterExecute(requests) ==
    [i \in DOMAIN requests |->
        LET indices == IndicesOf(requests, requests[i].shape)
            masks == InferGroup([k \in DOMAIN indices |-> requests[indices[k]].rows])
        IN masks[CHOOSE k \in DOMAIN indices : indices[k] = i]]
=============================================================================

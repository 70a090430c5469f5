--------------------------- MODULE DetectionBoxes ---------------------------
(***************************************************************************)
(* The arithmetic of the detected box, on one of its two axes: they are    *)
(* handled alike, and a box has an area when it has a length on both.      *)
(*                                                                         *)
(* A segment is [lo, hi].  What a network answers is in quarters of a      *)
(* pixel, enough to tell how it is rounded; what a detector returns is in  *)
(* pixels.  Scores are left out: any candidate may win.                    *)
(***************************************************************************)
EXTENDS Integers, SequencesExt

Segment(lo, hi) == [lo |-> lo, hi |-> hi]
Least(a, b) == IF a < b THEN a ELSE b
Most(a, b) == IF a < b THEN b ELSE a

\* Python's round: to the even neighbour from half-way.
Round(q) ==
    LET whole == q \div 4
        part == q % 4
    IN whole + (IF part = 3 \/ (part = 2 /\ whole % 2 = 1) THEN 1 ELSE 0)

\* Mutant: the box need not be a pixel wide.
ClampOnly(q, width) ==
    LET lo == Most(0, Least(Round(q.lo), width - 1))
    IN Segment(lo, Most(lo, Least(Round(q.hi), width)))

\* clamp_bbox of the local detector, which the ONNX detector uses too.
ClampBbox(q, width) ==
    LET lo == Most(0, Least(Round(q.lo), width - 1))
    IN Segment(lo, Most(lo + 1, Least(Round(q.hi), width)))

-----------------------------------------------------------------------------
(* What each detector makes of the candidates the network answers: the     *)
(* segments it may return; none is an exception.                           *)

RealDetections(candidates, width) == {ClampBbox(q, width) : q \in candidates}

\* Centred in a square whose side is the longer of the picture's.
LetterboxSquare(width, height) ==
    LET left == (Most(width, height) - width) \div 2 IN Segment(left, left + width)
BboxFromSquare(q, content, width) ==
    ClampBbox(Segment(q.lo - 4 * content.lo, q.hi - 4 * content.lo), width)
OnnxDetections(candidates, width, height) ==
    {BboxFromSquare(q, LetterboxSquare(width, height), width) : q \in candidates}

\* The mock detector's mask is what stands out from the corners, or an
\* ellipse if that is too little: never nothing.
BboxFromMask(columns, padding, width) ==
    Segment(Most(0, Min(columns) - padding), Least(width, Max(columns) + padding + 1))
MockDetections(padding, width) ==
    {BboxFromMask(columns, padding, width) : columns \in (SUBSET (0..(width - 1))) \ {{}}}

\* The Triton client only rounds what the server answers.
TensorToBbox(q) == Segment(Round(q.lo), Round(q.hi))

-----------------------------------------------------------------------------
(* The working crop.                                                       *)

\* Pillow crops to no pixels, but not to fewer; fit_to_square divides by the
\* sides.
CropRaises(s) ==
    IF s.hi < s.lo THEN "ValueError" ELSE IF s.hi = s.lo THEN "ZeroDivisionError" ELSE "none"
=============================================================================

--------------------------- MODULE YoloPostprocess ---------------------------
(***************************************************************************)
(* From a YOLO output tensor to detections (server/vision/                 *)
(* yolo_postprocess.py), and the geometry around it: the preprocess plans  *)
(* of the backends and refine_detection of the board worker, which takes   *)
(* boxes back to the original image.                                       *)
(*                                                                         *)
(* Coordinates are whole numbers and a threshold is a fraction             *)
(* [num, den]; what the code rounds for display is not rounded here.       *)
(***************************************************************************)
EXTENDS Integers, Sequences

Least(a, b) == IF a <= b THEN a ELSE b
Greatest(a, b) == IF a >= b THEN a ELSE b
Clip(x, lo, hi) == Greatest(lo, Least(hi, x))
-----------------------------------------------------------------------------
(* Layout. *)

LooksLikeChannelDim(x) == 6 <= x /\ x <= 256

NoLayout == <<0, 0>>
Transposed(d0, d1) == <<d1, d0>>

\* normalize_yolo_output: the shape [boxes, channels] of a squeezed output of
\* shape [d0, d1]; NoLayout is ValueError.
NormalizedShape(d0, d1) ==
  CASE LooksLikeChannelDim(d0) /\ (~LooksLikeChannelDim(d1) \/ d0 >= d1) -> Transposed(d0, d1)
    [] LooksLikeChannelDim(d1) /\ (~LooksLikeChannelDim(d0) \/ d0 < d1) -> <<d0, d1>>
    [] OTHER -> NoLayout

\* Whichever way round n predictions of c channels come, they are found, if
\* n cannot be taken for a number of channels or is not larger than theirs.
LayoutIsFound(n, c) ==
  LooksLikeChannelDim(c) /\ (~LooksLikeChannelDim(n) \/ n <= c) =>
    NormalizedShape(n, c) = <<n, c>> /\ NormalizedShape(c, n) = <<n, c>>
-----------------------------------------------------------------------------
(* Boxes, and non-maximum suppression.  A box is <<x1, y1, x2, y2>>.        *)

\* xywh_to_xyxy, of a box in half pixels so that halves are whole.
XywhToXyxy(b) == <<b[1] - b[3] \div 2, b[2] - b[4] \div 2, b[1] + b[3] \div 2, b[2] + b[4] \div 2>>

ClipBox(b, width, height) ==
  <<Clip(b[1], 0, width), Clip(b[2], 0, height), Clip(b[3], 0, width), Clip(b[4], 0, height)>>

Area(b) == Greatest(0, b[3] - b[1]) * Greatest(0, b[4] - b[2])

Intersection(a, b) ==
  Area(<<Greatest(a[1], b[1]), Greatest(a[2], b[2]), Least(a[3], b[3]), Least(a[4], b[4])>>)

Union(a, b) == Area(a) + Area(b) - Intersection(a, b)

\* box_iou(a, b) > threshold; of two boxes without area the code's quotient
\* is 0 / 1e-6.
OverlapsMore(a, b, threshold) ==
  Intersection(a, b) * threshold.den > threshold.num * Union(a, b)

\* argmax of the class scores: the first of the best.
BestClass(classScores) ==
  CHOOSE k \in DOMAIN classScores :
    /\ \A l \in DOMAIN classScores : classScores[l] <= classScores[k]
    /\ \A l \in DOMAIN classScores : classScores[l] = classScores[k] => k <= l

Score(p) == p.classes[BestClass(p.classes)]

\* scores.argsort()[::-1]: an order by falling score; numpy does not say how
\* equal scores are ordered.
Ranks(predictions, order) ==
  \A k \in 1..(Len(order) - 1) : Score(predictions[order[k]]) >= Score(predictions[order[k + 1]])

\* order[0] and order[1:], of an order some of whose places are left.
First(places) == CHOOSE i \in places : \A j \in places : i <= j
AfterFirst(places) == places \ {First(places)}

\* Mutant: the best box is compared with its neighbour alone.
StillInNeighbour(boxes, order, places, threshold) ==
  {k \in AfterFirst(places) :
    k = First(AfterFirst(places)) =>
      ~OverlapsMore(boxes[order[First(places)]], boxes[order[k]], threshold)}

\* The places left when the best box has been compared with all the others.
StillIn(boxes, order, places, threshold) ==
  {k \in AfterFirst(places) :
    ~OverlapsMore(boxes[order[First(places)]], boxes[order[k]], threshold)}

\* nms: the best box is kept, all that overlap it too much are dropped, and
\* so on with the rest.  The places in the order of the boxes that are kept.
Greedy(boxes, order, left, threshold) ==
  LET keep[places \in SUBSET DOMAIN order] ==
        IF places = {} THEN <<>>
        ELSE <<First(places)>> \o keep[StillIn(boxes, order, places, threshold)]
  IN  keep[left]

Confident(predictions, confidence) ==
  {i \in DOMAIN predictions : Score(predictions[i]) >= confidence}

\* postprocess_yolo_outputs with boxes as cx, cy, w, h: the detections, for
\* one of the orders that the sort may give.
PostprocessWith(predictions, order, confidence, threshold, width, height) ==
  LET boxes == [i \in DOMAIN predictions |->
                  ClipBox(XywhToXyxy(predictions[i].box), width, height)]
      ranked == {k \in DOMAIN order : order[k] \in Confident(predictions, confidence)}
      kept == Greedy(boxes, order, ranked, threshold)
      result(i) == [from |-> i, box |-> boxes[i], score |-> Score(predictions[i]),
                    class |-> BestClass(predictions[i].classes)]
  IN  [k \in DOMAIN kept |-> result(order[kept[k]])]
-----------------------------------------------------------------------------
(* Geometry of the input: plans, and the way back.                         *)

\* Python's round of num / den: halves go to the even neighbour.
Round(num, den) ==
  LET low == num \div den
      twice == 2 * (num % den)
  IN  IF twice > den \/ (twice = den /\ low % 2 = 1) THEN low + 1 ELSE low

\* The image is scaled by the smaller quotient and the rest is padding.
Letterbox(width, height, targetW, targetH) ==
  LET byWidth == targetW * height <= targetH * width
      w == IF byWidth THEN targetW ELSE Round(width * targetH, height)
      h == IF byWidth THEN Round(height * targetW, width) ELSE targetH
      padX == Greatest(0, targetW - w)
      padY == Greatest(0, targetH - h)
  IN  [w |-> w, h |-> h, left |-> padX \div 2, right |-> padX - padX \div 2,
       top |-> padY \div 2, bottom |-> padY - padY \div 2]

\* _build_preprocess_plan: the phase names the backend.  The fake and the dry
\* one describe a letterbox, the others stretch both sides.
Plan(phase, width, height, targetW, targetH) ==
  IF phase \in {"18c", "18d"} THEN Letterbox(width, height, targetW, targetH)
  ELSE [w |-> targetW, h |-> targetH, left |-> 0, right |-> 0, top |-> 0, bottom |-> 0]

\* Mutant: both sides are scaled by the quotient of the widths.
RefineBoxOneScale(b, width, height, inputW, inputH) ==
  LET unit == inputW * inputH
  IN  <<Clip(b[1] * width * inputH, 0, width * unit), Clip(b[2] * width * inputH, 0, height * unit),
        Clip(b[3] * width * inputH, 0, width * unit), Clip(b[4] * width * inputH, 0, height * unit)>>

\* refine_detection: a box of the model's input taken to the original image
\* and clipped to it, in units of 1 / (input width * input height) pixels.
RefineBox(b, width, height, inputW, inputH) ==
  LET unit == inputW * inputH
  IN  <<Clip(b[1] * width * inputH, 0, width * unit), Clip(b[2] * height * inputW, 0, height * unit),
        Clip(b[3] * width * inputH, 0, width * unit), Clip(b[4] * height * inputW, 0, height * unit)>>

\* A plan covers the target exactly; a letterbox keeps the image's
\* proportions up to a pixel and centres it up to a pixel.
PlanFits(phase, width, height, targetW, targetH) ==
  LET p == Plan(phase, width, height, targetW, targetH) IN
  /\ p.left + p.w + p.right = targetW /\ p.top + p.h + p.bottom = targetH
  /\ p.right - p.left \in {0, 1} /\ p.bottom - p.top \in {0, 1}
  /\ phase \in {"18c", "18d"} =>
       2 * (p.w * height - p.h * width) \in -Greatest(width, height)..Greatest(width, height)
-----------------------------------------------------------------------------
(* What postprocessing promises, for every order of equal scores.          *)

\* A confident prediction is missing from the answer only because a better
\* one, itself in the answer, overlaps it too much; no two in the answer do.
KeepsExactlyTheBest(predictions, order, confidence, threshold, width, height) ==
  LET found == PostprocessWith(predictions, order, confidence, threshold, width, height)
      kept == {found[k].from : k \in DOMAIN found}
      box(i) == ClipBox(XywhToXyxy(predictions[i].box), width, height)
  IN  /\ kept \subseteq {i \in DOMAIN predictions : Score(predictions[i]) >= confidence}
      /\ \A i, j \in kept : i # j => ~OverlapsMore(box(i), box(j), threshold)
      /\ \A i \in DOMAIN predictions \ kept :
           Score(predictions[i]) >= confidence =>
             \E j \in kept : /\ OverlapsMore(box(j), box(i), threshold)
                             /\ Score(predictions[j]) >= Score(predictions[i])

\* The answer is sorted by score, so that the worker's cut after the first
\* hundred drops the worst; and the boxes stay inside the input.
SortedAndInside(predictions, order, confidence, threshold, width, height) ==
  LET found == PostprocessWith(predictions, order, confidence, threshold, width, height)
  IN  \A k \in DOMAIN found :
        /\ k > 1 => found[k - 1].score >= found[k].score
        /\ 0 <= found[k].box[1] /\ found[k].box[1] <= found[k].box[3] /\ found[k].box[3] <= width
        /\ 0 <= found[k].box[2] /\ found[k].box[2] <= found[k].box[4] /\ found[k].box[4] <= height

\* Stretching an image to the model's input and taking a box back gives the
\* box's place in the image: what overlaps in one overlaps in the other.
WayBackKeepsOverlap(a, b, threshold, width, height, inputW, inputH) ==
  LET back(x) == RefineBox(ClipBox(x, inputW, inputH), width, height, inputW, inputH)
  IN  OverlapsMore(ClipBox(a, inputW, inputH), ClipBox(b, inputW, inputH), threshold)
        <=> OverlapsMore(back(a), back(b), threshold)
=============================================================================

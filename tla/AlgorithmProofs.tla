---------------------------- MODULE AlgorithmProofs ----------------------------
(***************************************************************************)
(* Theorems about the functions without state, for every input: TLC looks  *)
(* at all inputs up to a few entries, here there is no such bound.         *)
(***************************************************************************)
EXTENDS MCAlgorithms, SequenceTheorems, WellFoundedInduction, TLAPS

(* The geometry around the model's input. *)

LEMMA Division ==
  ASSUME NEW num \in Int, NEW den \in Nat \ {0}
  PROVE  /\ num \div den \in Int /\ num % den \in 0..(den - 1)
         /\ num = den * (num \div den) + (num % den)
OBVIOUS

LEMMA Cancel ==
  ASSUME NEW a \in Int, NEW b \in Int, NEW d \in Nat \ {0}
  PROVE  a * d < b * d <=> a < b
OBVIOUS

\* Python's round is off by half at most, and does not pass a whole number that
\* the quotient does not pass.
LEMMA RoundIsNear ==
  ASSUME NEW num \in Int, NEW den \in Nat \ {0}
  PROVE  /\ Round(num, den) \in Int
         /\ 2 * (Round(num, den) * den - num) \in (-den)..den
         /\ \A t \in Int : num <= t * den => Round(num, den) <= t
<1> DEFINE low == num \div den
           rest == num % den
<1>1. /\ low \in Int /\ rest \in 0..(den - 1)
      /\ num = den * low + rest
  BY Division
<1>2. Round(num, den) \in {low, low + 1}
  BY <1>1 DEF Round
<1>3. Round(num, den) = low => 2 * rest <= den
  BY <1>1 DEF Round
<1>4. Round(num, den) = low + 1 => 2 * rest >= den
  BY <1>1 DEF Round
<1> HIDE DEF low, rest
<1>5. 2 * (Round(num, den) * den - num) \in (-den)..den
  <2>1. (low + 1) * den = den * low + den /\ low * den = den * low /\ den * low \in Int
    BY <1>1
  <2> QED
    BY <1>1, <1>2, <1>3, <1>4, <2>1
<1>6. ASSUME NEW t \in Int, num <= t * den PROVE Round(num, den) <= t
  <2>1. low * den = den * low /\ den * low \in Int /\ t * den \in Int
    BY <1>1
  <2>2. CASE low * den < t * den
    <3>1. low < t
      BY <1>1, <2>2, Cancel
    <3> QED
      BY <1>1, <1>2, <3>1
  <2>3. CASE low * den = t * den
    <3>1. rest = 0
      BY <1>1, <1>6, <2>1, <2>3
    <3>2. ~(low < t) /\ ~(t < low)
      BY <1>1, <2>3, Cancel
    <3> QED
      BY <1>1, <1>2, <1>4, <3>1, <3>2
  <2> QED
    BY <1>1, <1>6, <2>1, <2>2, <2>3
<1> QED
  BY <1>1, <1>2, <1>5, <1>6

\* The padding of one side.
LEMMA PaddingFits ==
  ASSUME NEW target \in Int, NEW size \in Int, size <= target,
         NEW pad, pad = Greatest(0, target - size)
  PROVE  /\ pad \div 2 + size + (pad - pad \div 2) = target
         /\ (pad - pad \div 2) - pad \div 2 \in {0, 1}
<1>1. pad = target - size /\ pad \in Nat
  BY DEF Greatest
<1>2. /\ pad \div 2 \in Int /\ pad % 2 \in 0..1
      /\ pad = 2 * (pad \div 2) + (pad % 2)
  BY <1>1, Division
<1> QED
  BY <1>1, <1>2

\* The sizes to which an image is scaled: within the target, and in proportion.
LEMMA LetterboxScales ==
  ASSUME NEW width \in Nat \ {0}, NEW height \in Nat \ {0},
         NEW targetW \in Nat \ {0}, NEW targetH \in Nat \ {0},
         NEW p, p = Letterbox(width, height, targetW, targetH)
  PROVE  /\ p.w \in Int /\ p.h \in Int /\ p.w <= targetW /\ p.h <= targetH
         /\ 2 * (p.w * height - p.h * width) \in -Greatest(width, height)..Greatest(width, height)
<1>1. /\ targetW * height \in Int /\ targetH * width \in Int
      /\ height * targetW = targetW * height /\ width * targetH = targetH * width
  OBVIOUS
<1>2. CASE targetW * height <= targetH * width
  <2>1. p.w = targetW /\ p.h = Round(height * targetW, width)
    BY <1>2 DEF Letterbox
  <2>2. /\ p.h \in Int /\ p.h <= targetH
        /\ 2 * (p.h * width - height * targetW) \in (-width)..width
    BY <1>1, <1>2, <2>1, RoundIsNear
  <2>3. p.h * width \in Int
    BY <2>2
  <2> QED
    BY <1>1, <2>1, <2>2, <2>3 DEF Greatest
<1>3. CASE ~(targetW * height <= targetH * width)
  <2>1. p.h = targetH /\ p.w = Round(width * targetH, height)
    BY <1>3 DEF Letterbox
  <2>2. /\ p.w \in Int /\ p.w <= targetW
        /\ 2 * (p.w * height - width * targetH) \in (-height)..height
    BY <1>1, <1>3, <2>1, RoundIsNear
  <2>3. p.w * height \in Int
    BY <2>2
  <2> QED
    BY <1>1, <2>1, <2>2, <2>3 DEF Greatest
<1> QED
  BY <1>2, <1>3

(***************************************************************************)
(* A preprocess plan of any backend covers the model's input exactly, for  *)
(* an image and an input of any size; a letterbox, in spite of the         *)
(* rounding, keeps the proportions up to a pixel and centres the image up  *)
(* to a pixel.                                                             *)
(***************************************************************************)
THEOREM PlansAlwaysFit ==
  ASSUME NEW phase, NEW width \in Nat \ {0}, NEW height \in Nat \ {0},
         NEW targetW \in Nat \ {0}, NEW targetH \in Nat \ {0}
  PROVE  PlanFits(phase, width, height, targetW, targetH)
<1> DEFINE p == Plan(phase, width, height, targetW, targetH)
           box == Letterbox(width, height, targetW, targetH)
           padX == Greatest(0, targetW - box.w)
           padY == Greatest(0, targetH - box.h)
<1>1. CASE phase \in {"18c", "18d"}
  <2>1. /\ box.left = padX \div 2 /\ box.right = padX - padX \div 2
        /\ box.top = padY \div 2 /\ box.bottom = padY - padY \div 2
    BY DEF Letterbox
  <2>2. /\ box.w \in Int /\ box.h \in Int /\ box.w <= targetW /\ box.h <= targetH
        /\ 2 * (box.w * height - box.h * width) \in -Greatest(width, height)..Greatest(width, height)
    BY LetterboxScales
  <2>3. p = box
    BY <1>1 DEF Plan
  <2> HIDE DEF box
  <2>4. /\ box.left + box.w + box.right = targetW /\ box.right - box.left \in {0, 1}
        /\ box.top + box.h + box.bottom = targetH /\ box.bottom - box.top \in {0, 1}
    BY <2>1, <2>2, PaddingFits
  <2> QED
    BY <2>2, <2>3, <2>4 DEF PlanFits
<1>2. CASE phase \notin {"18c", "18d"}
  BY <1>2 DEF PlanFits, Plan
<1> QED
  BY <1>1, <1>2

(***************************************************************************)
(* normalize_yolo_output finds n predictions of c channels whichever way   *)
(* round they come, if n cannot be taken for a number of channels or is    *)
(* not larger than theirs.                                                 *)
(***************************************************************************)
THEOREM LayoutsAreAlwaysFound ==
  ASSUME NEW n \in Nat, NEW c \in Nat
  PROVE  LayoutIsFound(n, c)
BY DEF LayoutIsFound, NormalizedShape, Transposed, NoLayout, LooksLikeChannelDim
-----------------------------------------------------------------------------
(* Boxes and their overlap. *)

Box == Int \X Int \X Int \X Int
Threshold == [num : Int, den : Int]

Scaled(b, sx, sy) == <<b[1] * sx, b[2] * sy, b[3] * sx, b[4] * sy>>

LEMMA ClipIsInside ==
  ASSUME NEW x \in Int, NEW hi \in Nat
  PROVE  Clip(x, 0, hi) \in 0..hi
BY DEF Clip, Least, Greatest

LEMMA AreaType ==
  ASSUME NEW a \in Box, NEW b \in Box
  PROVE  /\ Area(a) \in Nat /\ Intersection(a, b) \in Nat
         /\ Union(a, b) \in Int
<1> DEFINE common == <<Greatest(a[1], b[1]), Greatest(a[2], b[2]),
                       Least(a[3], b[3]), Least(a[4], b[4])>>
<1>1. \A c \in Box : Area(c) \in Nat
  <2> SUFFICES ASSUME NEW c \in Box PROVE Area(c) \in Nat
    OBVIOUS
  <2>1. Greatest(0, c[3] - c[1]) \in Nat /\ Greatest(0, c[4] - c[2]) \in Nat
    BY DEF Greatest, Box
  <2> QED
    BY <2>1 DEF Area
<1>2. common \in Box
  BY DEF Box, Greatest, Least
<1>3. Intersection(a, b) = Area(common)
  BY DEF Intersection
<1> HIDE DEF common
<1> QED
  BY <1>1, <1>2, <1>3 DEF Union

LEMMA OverlapIsSymmetric ==
  ASSUME NEW a \in Box, NEW b \in Box, NEW threshold
  PROVE  OverlapsMore(a, b, threshold) <=> OverlapsMore(b, a, threshold)
<1>1. \A x, y \in Int : Greatest(x, y) = Greatest(y, x) /\ Least(x, y) = Least(y, x)
  BY DEF Greatest, Least
<1>2. Intersection(a, b) = Intersection(b, a)
  BY <1>1 DEF Intersection, Box
<1>3. Union(a, b) = Union(b, a)
  BY <1>2, AreaType DEF Union
<1> QED
  BY <1>2, <1>3 DEF OverlapsMore

LEMMA ScaledExtremes ==
  ASSUME NEW x \in Int, NEW y \in Int, NEW s \in Nat \ {0}
  PROVE  /\ Greatest(x * s, y * s) = Greatest(x, y) * s
         /\ Least(x * s, y * s) = Least(x, y) * s
         /\ Greatest(0, x * s - y * s) = Greatest(0, x - y) * s
<1>1. x <= y <=> x * s <= y * s
  BY Cancel
<1>2. x * s - y * s = (x - y) * s
  OBVIOUS
<1> QED
  BY <1>1, <1>2 DEF Greatest, Least

LEMMA ScaledArea ==
  ASSUME NEW b \in Box, NEW sx \in Nat \ {0}, NEW sy \in Nat \ {0}
  PROVE  Area(Scaled(b, sx, sy)) = Area(b) * (sx * sy)
<1>1. /\ Greatest(0, b[3] * sx - b[1] * sx) = Greatest(0, b[3] - b[1]) * sx
      /\ Greatest(0, b[4] * sy - b[2] * sy) = Greatest(0, b[4] - b[2]) * sy
  BY ScaledExtremes DEF Box
<1>2. Greatest(0, b[3] - b[1]) \in Int /\ Greatest(0, b[4] - b[2]) \in Int
  BY DEF Greatest, Box
<1>3. \A v, w \in Int : (v * sx) * (w * sy) = (v * w) * (sx * sy)
  OBVIOUS
<1> QED
  BY <1>1, <1>2, <1>3 DEF Area, Scaled

LEMMA ScaledOverlap ==
  ASSUME NEW a \in Box, NEW b \in Box, NEW threshold \in Threshold,
         NEW sx \in Nat \ {0}, NEW sy \in Nat \ {0}
  PROVE  OverlapsMore(Scaled(a, sx, sy), Scaled(b, sx, sy), threshold)
           <=> OverlapsMore(a, b, threshold)
<1> DEFINE common == <<Greatest(a[1], b[1]), Greatest(a[2], b[2]),
                       Least(a[3], b[3]), Least(a[4], b[4])>>
<1>1. Intersection(Scaled(a, sx, sy), Scaled(b, sx, sy)) = Intersection(a, b) * (sx * sy)
  <2>1. common \in Box
    BY DEF Box, Greatest, Least
  <2>2. <<Greatest(a[1] * sx, b[1] * sx), Greatest(a[2] * sy, b[2] * sy),
          Least(a[3] * sx, b[3] * sx), Least(a[4] * sy, b[4] * sy)>> = Scaled(common, sx, sy)
    <3>1. /\ Greatest(a[1] * sx, b[1] * sx) = Greatest(a[1], b[1]) * sx
          /\ Greatest(a[2] * sy, b[2] * sy) = Greatest(a[2], b[2]) * sy
      BY ScaledExtremes DEF Box
    <3>2. /\ Least(a[3] * sx, b[3] * sx) = Least(a[3], b[3]) * sx
          /\ Least(a[4] * sy, b[4] * sy) = Least(a[4], b[4]) * sy
      BY ScaledExtremes DEF Box
    <3> QED
      BY <3>1, <3>2 DEF Scaled
  <2>3. Area(Scaled(common, sx, sy)) = Area(common) * (sx * sy)
    BY <2>1, ScaledArea
  <2> QED
    BY <2>2, <2>3 DEF Intersection, Scaled
<1>2. PICK scale \in Nat \ {0} : scale = sx * sy
  OBVIOUS
<1>3. PICK i \in Int : i = Intersection(a, b)
  BY AreaType
<1>4. PICK u \in Int : u = Union(a, b)
  BY AreaType
<1>5. Union(Scaled(a, sx, sy), Scaled(b, sx, sy)) = u * scale
  <2>1. /\ Area(Scaled(a, sx, sy)) = Area(a) * scale
        /\ Area(Scaled(b, sx, sy)) = Area(b) * scale
    BY <1>2, ScaledArea
  <2>2. Area(a) \in Int /\ Area(b) \in Int
    BY AreaType
  <2>3. \A v, w \in Int : v * scale + w * scale - i * scale = (v + w - i) * scale
    OBVIOUS
  <2> QED
    BY <1>1, <1>2, <1>3, <1>4, <2>1, <2>2, <2>3 DEF Union
<1>6. /\ (i * scale) * threshold.den = (i * threshold.den) * scale
      /\ threshold.num * (u * scale) = (threshold.num * u) * scale
      /\ i * threshold.den \in Int /\ threshold.num * u \in Int
  BY DEF Threshold
<1>7. (i * scale) * threshold.den > threshold.num * (u * scale)
        <=> i * threshold.den > threshold.num * u
  BY <1>6, Cancel
<1> QED
  BY <1>1, <1>2, <1>3, <1>4, <1>5, <1>7 DEF OverlapsMore

\* Taking a box of the input back clips nothing: it is scaled.
LEMMA RefineScales ==
  ASSUME NEW b \in Box, NEW width \in Nat \ {0}, NEW height \in Nat \ {0},
         NEW inputW \in Nat \ {0}, NEW inputH \in Nat \ {0}
  PROVE  /\ ClipBox(b, inputW, inputH) \in Box
         /\ RefineBox(ClipBox(b, inputW, inputH), width, height, inputW, inputH)
              = Scaled(ClipBox(b, inputW, inputH), width * inputH, height * inputW)
<1> DEFINE c == ClipBox(b, inputW, inputH)
<1>1. /\ c[1] \in 0..inputW /\ c[3] \in 0..inputW /\ c[2] \in 0..inputH /\ c[4] \in 0..inputH
      /\ c \in Box /\ c = <<c[1], c[2], c[3], c[4]>>
  BY ClipIsInside DEF ClipBox, Box
<1>2. ASSUME NEW m \in Nat \ {0}, NEW s \in Nat \ {0}, NEW x \in 0..m
      PROVE  Clip(x * s, 0, m * s) = x * s
  <2>1. 0 <= x * s /\ x * s <= m * s /\ x * s \in Int /\ m * s \in Int
    OBVIOUS
  <2> QED
    BY <2>1 DEF Clip, Least, Greatest
<1> HIDE DEF c
<1>3. /\ width * (inputW * inputH) = inputW * (width * inputH)
      /\ height * (inputW * inputH) = inputH * (height * inputW)
      /\ width * inputH \in Nat \ {0} /\ height * inputW \in Nat \ {0}
  OBVIOUS
<1>4. /\ c[1] * width * inputH = c[1] * (width * inputH)
      /\ c[3] * width * inputH = c[3] * (width * inputH)
      /\ c[2] * height * inputW = c[2] * (height * inputW)
      /\ c[4] * height * inputW = c[4] * (height * inputW)
  BY <1>1
<1>5. RefineBox(c, width, height, inputW, inputH) = Scaled(c, width * inputH, height * inputW)
  BY <1>1, <1>2, <1>3, <1>4 DEF RefineBox, Scaled
<1> QED
  BY <1>1, <1>5 DEF c

(***************************************************************************)
(* refine_detection changes no overlap: two boxes overlap by more than the *)
(* threshold in the image exactly if they do in the model's input, for     *)
(* any boxes, thresholds and sizes, although the axes are scaled apart.    *)
(***************************************************************************)
THEOREM WayBackAlwaysKeepsOverlap ==
  ASSUME NEW a \in Box, NEW b \in Box, NEW threshold \in Threshold,
         NEW width \in Nat \ {0}, NEW height \in Nat \ {0},
         NEW inputW \in Nat \ {0}, NEW inputH \in Nat \ {0}
  PROVE  WayBackKeepsOverlap(a, b, threshold, width, height, inputW, inputH)
<1> DEFINE inside(x) == ClipBox(x, inputW, inputH)
           back(x) == RefineBox(inside(x), width, height, inputW, inputH)
<1>1. width * inputH \in Nat \ {0} /\ height * inputW \in Nat \ {0}
  OBVIOUS
<1>2. inside(a) \in Box /\ back(a) = Scaled(inside(a), width * inputH, height * inputW)
  BY RefineScales
<1>3. inside(b) \in Box /\ back(b) = Scaled(inside(b), width * inputH, height * inputW)
  BY RefineScales
<1> HIDE DEF inside, back
<1>4. OverlapsMore(inside(a), inside(b), threshold) <=> OverlapsMore(back(a), back(b), threshold)
  BY <1>1, <1>2, <1>3, ScaledOverlap
<1> QED
  BY <1>4 DEF inside, back, WayBackKeepsOverlap

(***************************************************************************)
(* The way of a box from the image to the tensor and back, for images,     *)
(* inputs and tensors of any size.                                         *)
(***************************************************************************)
THEOREM GeometryIsAlwaysTrue ==
  ASSUME input.of = "sizes" => /\ input.width \in Nat \ {0} /\ input.height \in Nat \ {0}
                               /\ input.targetW \in Nat \ {0} /\ input.targetH \in Nat \ {0},
         input.of = "shape" => input.n \in Nat /\ input.c \in Nat
  PROVE  GeometryIsTrue
<1>1. PlansFit
  BY PlansAlwaysFit DEF PlansFit
<1>2. LayoutsAreFound
  BY LayoutsAreAlwaysFound DEF LayoutsAreFound
<1>3. WayBackIsTrue
  <2>1. <<0, 0, 3, 4>> \in Box /\ <<1, 2, 4, 6>> \in Box /\ Quarter \in Threshold
    BY DEF Box, Threshold, Quarter
  <2> QED
    BY <2>1, WayBackAlwaysKeepsOverlap DEF WayBackIsTrue
<1> QED
  BY <1>1, <1>2, <1>3 DEF GeometryIsTrue
-----------------------------------------------------------------------------
(* Finite sets of places: the first one, and induction along them. *)

LEMMA FirstIsFirst ==
  ASSUME NEW T \in SUBSET Nat, T # {}
  PROVE  /\ First(T) \in T
         /\ \A i \in T : First(T) <= i
<1>1. PICK x \in T : \A y \in T : <<y, x>> \notin OpToRel(<, Nat)
  BY NatLessThanWellFounded, WFMin
<1>2. \A y \in Nat : y < x => <<y, x>> \in OpToRel(<, Nat)
  BY DEF OpToRel
<1>3. \A y \in T : x <= y
  <2>1. \A y \in T : ~(y < x)
    BY <1>1, <1>2, Zenon
  <2> QED
    BY <2>1
<1> QED
  BY <1>3 DEF First

\* Induction up to n, for a set of numbers.
LEMMA CountUp ==
  ASSUME NEW n \in Nat, NEW T, 0 \in T,
         \A m \in 0..(n - 1) : m \in T => m + 1 \in T
  PROVE  n \in T
<1> DEFINE bad == {m \in 0..n : m \notin T}
<1>1. SUFFICES ASSUME bad # {} PROVE FALSE
  OBVIOUS
<1>2. First(bad) \in bad /\ \A i \in bad : First(bad) <= i
  BY <1>1, FirstIsFirst
<1>3. First(bad) - 1 \in 0..(n - 1) /\ First(bad) - 1 \notin bad
  BY <1>2
<1> QED
  BY <1>2, <1>3

\* A loop that puts out the first of a set of places, takes it away and
\* perhaps others with it, and goes on with the rest.
Turn(f, next, places) == IF places = {} THEN <<>> ELSE <<First(places)>> \o f[next[places]]

Loops(f, next, all) == f = [places \in all |-> Turn(f, next, places)]

\* The sets of the last m of n places.
LastOnes(n, m) == SUBSET ((n - m + 1)..n)

LEMMA LastOnesShrink ==
  ASSUME NEW n \in Nat, NEW m \in 0..(n - 1),
         NEW places \in LastOnes(n, m + 1), places # {},
         NEW rest, rest \subseteq AfterFirst(places)
  PROVE  rest \in LastOnes(n, m)
<1>1. places \in SUBSET Nat /\ \A i \in places : i \in (n - m)..n
  BY DEF LastOnes
<1>2. First(places) \in places /\ \A i \in places : First(places) <= i
  BY <1>1, FirstIsFirst
<1>3. ASSUME NEW i \in rest PROVE i \in (n - m + 1)..n
  <2>1. i \in places /\ i # First(places)
    BY DEF AfterFirst
  <2>2. First(places) <= i /\ First(places) \in (n - m)..n /\ i \in (n - m)..n
    BY <1>1, <1>2, <2>1
  <2> QED
    BY <2>1, <2>2
<1> QED
  BY <1>3 DEF LastOnes

\* Such a loop ends: the function it computes exists.
LEMMA LoopEnds ==
  ASSUME NEW n \in Nat,
         NEW next \in [SUBSET (1..n) -> SUBSET (1..n)],
         \A places \in SUBSET (1..n) : places # {} => next[places] \subseteq AfterFirst(places)
  PROVE  \E f : Loops(f, next, SUBSET (1..n))
<1> DEFINE T == {m \in 0..n : \E f : Loops(f, next, LastOnes(n, m))}
<1>1. 0 \in T
  <2> DEFINE f == [places \in {{}} |-> <<>>]
  <2>1. LastOnes(n, 0) = {{}}
    BY DEF LastOnes
  <2>2. f = [places \in {{}} |-> Turn(f, next, places)]
    BY DEF Turn
  <2> HIDE DEF f
  <2>3. Loops(f, next, LastOnes(n, 0))
    BY <2>1, <2>2 DEF Loops
  <2> QED
    BY <2>3
<1>2. ASSUME NEW m \in 0..(n - 1), m \in T PROVE m + 1 \in T
  <2>1. PICK f : Loops(f, next, LastOnes(n, m))
    BY <1>2
  <2>2. PICK D : D = LastOnes(n, m)
    OBVIOUS
  <2>3. PICK E : E = LastOnes(n, m + 1)
    OBVIOUS
  <2>4. D \subseteq E /\ E \subseteq SUBSET (1..n)
    BY <2>2, <2>3 DEF LastOnes
  <2>5. ASSUME NEW places \in E, places # {} PROVE next[places] \in D
    <3>1. places \in LastOnes(n, m + 1) /\ places \in SUBSET (1..n)
      BY <2>3, <2>4
    <3>2. next[places] \subseteq AfterFirst(places)
      BY <2>5, <3>1
    <3> QED
      BY <2>2, <2>5, <3>1, <3>2, LastOnesShrink
  <2> DEFINE g == [places \in E |-> IF places \in D THEN f[places] ELSE Turn(f, next, places)]
  <2>6. \A places \in D : g[places] = f[places] /\ f[places] = Turn(f, next, places)
    BY <2>1, <2>2, <2>4 DEF Loops
  <2>7. \A places \in E : g[places] = Turn(f, next, places)
    BY <2>6
  <2> HIDE DEF g
  <2>8. ASSUME NEW places \in E PROVE Turn(g, next, places) = Turn(f, next, places)
    BY <2>5, <2>6 DEF Turn
  <2>9. g = [places \in E |-> Turn(g, next, places)]
    BY <2>7, <2>8 DEF g
  <2>10. Loops(g, next, LastOnes(n, m + 1))
    BY <2>3, <2>9 DEF Loops
  <2> QED
    BY <2>10
<1>3. n \in T
  <2> HIDE DEF T
  <2> QED
    BY <1>1, <1>2, CountUp
<1>4. LastOnes(n, n) = SUBSET (1..n)
  BY DEF LastOnes
<1> QED
  BY <1>3, <1>4

LEMMA Prepend ==
  ASSUME NEW S, NEW a \in S, NEW t \in Seq(S)
  PROVE  /\ <<a>> \o t \in Seq(S) /\ Len(<<a>> \o t) = Len(t) + 1
         /\ (<<a>> \o t)[1] = a
         /\ \A i \in 1..Len(t) : (<<a>> \o t)[i + 1] = t[i]
OBVIOUS

LEMMA LargerSeq ==
  ASSUME NEW S, NEW T, S \subseteq T, NEW t \in Seq(S)
  PROVE  t \in Seq(T)
<1>1. PICK n \in Nat : t \in [1..n -> S]
  BY SeqDef
<1>2. t \in [1..n -> T]
  BY <1>1
<1> QED
  BY <1>2, SeqDef

\* What comes out of such a loop if a place is taken away with an earlier one
\* that clashes with it: places in order, of which no two clash, and for every
\* other place an earlier one with which it clashes.
BestOf(kept, places, clash) ==
  /\ kept \in Seq(places)
  /\ \A i, j \in DOMAIN kept :
       i < j => kept[i] < kept[j] /\ <<kept[i], kept[j]>> \notin clash
  /\ \A k \in places :
       \/ \E i \in DOMAIN kept : kept[i] = k
       \/ \E i \in DOMAIN kept : kept[i] < k /\ <<kept[i], k>> \in clash

LEMMA BestOfGrows ==
  ASSUME NEW places \in SUBSET Nat, places # {}, NEW clash, NEW kept, NEW rest,
         rest = {k \in AfterFirst(places) : <<First(places), k>> \notin clash},
         BestOf(kept, rest, clash)
  PROVE  BestOf(<<First(places)>> \o kept, places, clash)
<1>1. First(places) \in places /\ \A i \in places : First(places) <= i
  BY FirstIsFirst
<1>2. PICK first \in places : first = First(places)
  BY <1>1
<1>3. /\ rest \subseteq places
      /\ \A k \in rest : k \in Nat /\ first < k /\ <<first, k>> \notin clash
  BY <1>1, <1>2 DEF AfterFirst
<1>4. \A k \in places : k = first \/ k \in rest \/ (first < k /\ <<first, k>> \in clash)
  BY <1>1, <1>2 DEF AfterFirst
<1>5. kept \in Seq(rest) /\ kept \in Seq(places)
  <2>1. kept \in Seq(rest)
    BY DEF BestOf
  <2> QED
    BY <1>3, <2>1, LargerSeq
<1> DEFINE all == <<first>> \o kept
<1>6. /\ all \in Seq(places) /\ Len(all) = Len(kept) + 1 /\ all[1] = first
      /\ \A i \in 1..Len(kept) : all[i + 1] = kept[i]
  BY <1>5, Prepend
<1>7. /\ Len(kept) \in Nat /\ DOMAIN kept = 1..Len(kept) /\ DOMAIN all = 1..(Len(kept) + 1)
      /\ \A i \in DOMAIN kept : kept[i] \in rest
  BY <1>5, <1>6
<1> HIDE DEF all
<1>8. ASSUME NEW i \in DOMAIN all PROVE i = 1 \/ (i - 1 \in DOMAIN kept /\ all[i] = kept[i - 1])
  <2>1. i # 1 => i - 1 \in 1..Len(kept) /\ all[(i - 1) + 1] = kept[i - 1]
    BY <1>6, <1>7
  <2> QED
    BY <1>7, <2>1
<1>9. ASSUME NEW i \in DOMAIN all, NEW j \in DOMAIN all, i < j
      PROVE  all[i] < all[j] /\ <<all[i], all[j]>> \notin clash
  <2>1. j - 1 \in DOMAIN kept /\ all[j] = kept[j - 1]
    BY <1>7, <1>8, <1>9
  <2>2. CASE i = 1
    BY <1>3, <1>6, <1>7, <2>1, <2>2
  <2>3. CASE i - 1 \in DOMAIN kept /\ all[i] = kept[i - 1]
    <3>1. i - 1 < j - 1
      BY <1>7, <1>9
    <3> QED
      BY <2>1, <2>3, <3>1 DEF BestOf
  <2> QED
    BY <1>8, <2>2, <2>3
<1>10. ASSUME NEW k \in places
       PROVE  \/ \E i \in DOMAIN all : all[i] = k
              \/ \E i \in DOMAIN all : all[i] < k /\ <<all[i], k>> \in clash
  <2>1. 1 \in DOMAIN all
    BY <1>7
  <2>2. CASE k \in rest
    <3>1. PICK i \in DOMAIN kept : kept[i] = k \/ (kept[i] < k /\ <<kept[i], k>> \in clash)
      BY <2>2 DEF BestOf
    <3>2. i + 1 \in DOMAIN all /\ all[i + 1] = kept[i]
      BY <1>6, <1>7
    <3> QED
      BY <3>1, <3>2
  <2> QED
    BY <1>4, <1>6, <2>1, <2>2
<1>11. BestOf(all, places, clash)
  BY <1>6, <1>9, <1>10 DEF BestOf
<1> QED
  BY <1>2, <1>11 DEF all

LEMMA LoopKeepsTheBest ==
  ASSUME NEW n \in Nat, NEW clash,
         NEW next \in [SUBSET (1..n) -> SUBSET (1..n)],
         \A places \in SUBSET (1..n) :
           next[places] = {k \in AfterFirst(places) : <<First(places), k>> \notin clash},
         NEW f, Loops(f, next, SUBSET (1..n))
  PROVE  \A places \in SUBSET (1..n) : BestOf(f[places], places, clash)
<1> DEFINE Done(m) == \A places \in LastOnes(n, m) : BestOf(f[places], places, clash)
           T == {m \in 0..n : Done(m)}
<1>1. ASSUME NEW places \in SUBSET (1..n) PROVE f[places] = Turn(f, next, places)
  BY DEF Loops
<1>2. BestOf(f[{}], {}, clash)
  <2>1. f[{}] = <<>>
    BY <1>1 DEF Turn
  <2> QED
    BY <2>1 DEF BestOf
<1>3. Done(0)
  <2>1. LastOnes(n, 0) = {{}}
    BY DEF LastOnes
  <2> QED
    BY <1>2, <2>1
<1>4. ASSUME NEW m \in 0..(n - 1), Done(m) PROVE Done(m + 1)
  <2>1. ASSUME NEW places \in LastOnes(n, m + 1), places # {}
        PROVE  BestOf(f[places], places, clash)
    <3>1. places \in SUBSET (1..n) /\ places \in SUBSET Nat
      BY DEF LastOnes
    <3>2. PICK rest : rest = next[places]
      OBVIOUS
    <3>3. rest = {k \in AfterFirst(places) : <<First(places), k>> \notin clash}
      BY <3>1, <3>2
    <3>4. rest \in LastOnes(n, m)
      BY <2>1, <3>3, LastOnesShrink
    <3>5. BestOf(f[rest], rest, clash)
      BY <1>4, <3>4
    <3>6. f[places] = <<First(places)>> \o f[rest]
      BY <1>1, <2>1, <3>1, <3>2 DEF Turn
    <3> QED
      BY <2>1, <3>1, <3>3, <3>5, <3>6, BestOfGrows
  <2> QED
    BY <1>2, <2>1
<1>5. Done(n)
  <2> HIDE DEF Done
  <2>1. 0 \in T /\ \A m \in 0..(n - 1) : m \in T => m + 1 \in T
    BY <1>3, <1>4
  <2>2. n \in T
    <3> HIDE DEF T
    <3> QED
      BY <2>1, CountUp
  <2> QED
    BY <2>2
<1>6. LastOnes(n, n) = SUBSET (1..n)
  BY DEF LastOnes
<1> QED
  BY <1>5, <1>6
-----------------------------------------------------------------------------
(* Non-maximum suppression. *)

Clashes(boxes, order, threshold) ==
  {p \in (1..Len(order)) \X (1..Len(order)) :
    OverlapsMore(boxes[order[p[1]]], boxes[order[p[2]]], threshold)}

LEMMA GreedyKeepsTheBest ==
  ASSUME NEW boxes, NEW S, NEW order \in Seq(S), NEW threshold,
         NEW left \in SUBSET DOMAIN order
  PROVE  BestOf(Greedy(boxes, order, left, threshold), left, Clashes(boxes, order, threshold))
<1>1. PICK n \in Nat : n = Len(order) /\ DOMAIN order = 1..n
  OBVIOUS
<1>2. PICK clash : clash = Clashes(boxes, order, threshold)
  OBVIOUS
<1> DEFINE next == [places \in SUBSET (1..n) |-> StillIn(boxes, order, places, threshold)]
<1>3. ASSUME NEW places \in SUBSET (1..n)
      PROVE  /\ AfterFirst(places) \in SUBSET (1..n)
             /\ next[places] = {k \in AfterFirst(places) : <<First(places), k>> \notin clash}
  <2>1. places # {} => First(places) \in 1..n
    <3>1. places \in SUBSET Nat
      OBVIOUS
    <3> QED
      BY <3>1, FirstIsFirst
  <2>2. AfterFirst(places) \in SUBSET (1..n) /\ (AfterFirst(places) # {} => places # {})
    BY DEF AfterFirst
  <2>3. ASSUME NEW k \in AfterFirst(places)
        PROVE  <<First(places), k>> \in clash <=>
                 OverlapsMore(boxes[order[First(places)]], boxes[order[k]], threshold)
    BY <1>1, <1>2, <2>1, <2>2 DEF Clashes
  <2> QED
    BY <2>2, <2>3 DEF StillIn
<1>4. next \in [SUBSET (1..n) -> SUBSET (1..n)]
  BY <1>3
<1>5. \E f : Loops(f, next, SUBSET (1..n))
  <2> HIDE DEF next
  <2>1. \A places \in SUBSET (1..n) : places # {} => next[places] \subseteq AfterFirst(places)
    BY <1>3
  <2> QED
    BY <1>4, <2>1, LoopEnds
<1>6. PICK f : /\ f = CHOOSE g : Loops(g, next, SUBSET (1..n))
               /\ Loops(f, next, SUBSET (1..n))
  <2> HIDE DEF next
  <2> QED
    BY <1>5
<1>7. \A g : Loops(g, next, SUBSET (1..n)) <=>
        g = [places \in SUBSET DOMAIN order |->
              IF places = {} THEN <<>>
              ELSE <<First(places)>> \o g[StillIn(boxes, order, places, threshold)]]
  BY <1>1 DEF Loops, Turn
<1>8. Greedy(boxes, order, left, threshold) = f[left]
  <2> HIDE DEF next
  <2> QED
    BY <1>6, <1>7 DEF Greedy
<1>9. BestOf(f[left], left, clash)
  <2> HIDE DEF next
  <2> QED
    BY <1>1, <1>3, <1>4, <1>6, LoopKeepsTheBest
<1> QED
  BY <1>2, <1>8, <1>9

Prediction == [box : Box, classes : Seq(Int) \ {<<>>}]

LEMMA BestClassExists ==
  ASSUME NEW scores \in Seq(Int) \ {<<>>}
  PROVE  BestClass(scores) \in DOMAIN scores
<1>1. PICK n \in Nat \ {0} : n = Len(scores) /\ DOMAIN scores = 1..n
  OBVIOUS
<1>2. \A k \in 1..n : scores[k] \in Int
  BY <1>1, ElementOfSeq
<1> DEFINE BestUpTo(m) == m = 0 \/ \E k \in 1..m : \A l \in 1..m : scores[l] <= scores[k]
           T == {m \in 0..n : BestUpTo(m)}
<1>3. ASSUME NEW m \in 0..(n - 1), BestUpTo(m) PROVE BestUpTo(m + 1)
  <2>1. m + 1 \in 1..n /\ \A l \in 1..(m + 1) : l \in 1..m \/ l = m + 1
    OBVIOUS
  <2>2. CASE m = 0
    <3>1. 1 \in 1..(m + 1) /\ \A l \in 1..(m + 1) : scores[l] <= scores[1]
      BY <1>2, <2>1, <2>2
    <3> QED
      BY <3>1
  <2>3. CASE m # 0
    <3>1. PICK k \in 1..m : \A l \in 1..m : scores[l] <= scores[k]
      BY <1>3, <2>3
    <3>2. CASE scores[m + 1] <= scores[k]
      <4>1. \A l \in 1..(m + 1) : scores[l] <= scores[k]
        BY <2>1, <3>1, <3>2
      <4> QED
        BY <4>1
    <3>3. CASE ~(scores[m + 1] <= scores[k])
      <4>1. \A l \in 1..(m + 1) : scores[l] <= scores[m + 1]
        BY <1>2, <2>1, <3>1, <3>3
      <4> QED
        BY <4>1
    <3> QED
      BY <3>2, <3>3
  <2> QED
    BY <2>2, <2>3
<1>4. BestUpTo(n)
  <2>1. BestUpTo(0)
    OBVIOUS
  <2> HIDE DEF BestUpTo
  <2>2. 0 \in T /\ \A m \in 0..(n - 1) : m \in T => m + 1 \in T
    BY <1>3, <2>1
  <2>3. n \in T
    <3>1. n \in Nat
      OBVIOUS
    <3> HIDE DEF T
    <3> QED
      BY <2>2, <3>1, CountUp
  <2> QED
    BY <2>3
<1>5. PICK best \in 1..n : \A l \in 1..n : scores[l] <= scores[best]
  BY <1>1, <1>4
<1> DEFINE bests == {k \in 1..n : \A l \in 1..n : scores[l] <= scores[k]}
<1>6. best \in bests /\ bests \in SUBSET Nat
  BY <1>5
<1>7. PICK first \in bests : \A i \in bests : first <= i
  <2> HIDE DEF bests
  <2>1. First(bests) \in bests /\ \A i \in bests : First(bests) <= i
    BY <1>6, FirstIsFirst
  <2> QED
    BY <2>1
<1>8. \A l \in 1..n : scores[l] = scores[first] => first <= l
  BY <1>2, <1>7
<1> QED
  BY <1>1, <1>7, <1>8 DEF BestClass

LEMMA ScoreType ==
  ASSUME NEW p \in Prediction
  PROVE  Score(p) \in Int
<1>1. p.classes \in Seq(Int) \ {<<>>}
  BY DEF Prediction
<1> QED
  BY <1>1, BestClassExists, ElementOfSeq DEF Score

\* An order by falling score: what is earlier has no lower score.
LEMMA EarlierIsNotWorse ==
  ASSUME NEW predictions, NEW order, NEW n \in Nat, Len(order) = n,
         \A k \in 1..n : predictions[order[k]] \in Prediction,
         Ranks(predictions, order),
         NEW a \in 1..n, NEW b \in 1..n, a <= b
  PROVE  Score(predictions[order[a]]) >= Score(predictions[order[b]])
<1> DEFINE value(k) == Score(predictions[order[k]])
           T == {m \in 0..(b - a) : value(a) >= value(a + m)}
<1>1. \A k \in 1..n : value(k) \in Int
  BY ScoreType
<1>2. \A k \in 1..(n - 1) : value(k) >= value(k + 1)
  BY DEF Ranks
<1> HIDE DEF value
<1>3. 0 \in T
  BY <1>1
<1>4. ASSUME NEW m \in 0..(b - a - 1), m \in T PROVE m + 1 \in T
  <2>1. a + m \in 1..(n - 1) /\ (a + m) + 1 = a + (m + 1)
    OBVIOUS
  <2>2. value(a + m) >= value(a + (m + 1))
    BY <1>2, <2>1
  <2>3. a + m \in 1..n /\ a + (m + 1) \in 1..n
    BY <2>1
  <2> QED
    BY <1>1, <1>4, <2>2, <2>3
<1>5. b - a \in T
  <2>1. b - a \in Nat /\ \A m \in 0..((b - a) - 1) : m \in T => m + 1 \in T
    BY <1>4
  <2> HIDE DEF T
  <2> QED
    BY <1>3, <2>1, CountUp
<1> QED
  BY <1>5 DEF value

BoxOf(predictions, i, width, height) == ClipBox(XywhToXyxy(predictions[i].box), width, height)

LEMMA BoxOfType ==
  ASSUME NEW predictions, NEW i, predictions[i] \in Prediction,
         NEW width \in Nat, NEW height \in Nat
  PROVE  LET b == BoxOf(predictions, i, width, height)
         IN  /\ b \in Box
             /\ b[1] \in 0..width /\ b[3] \in 0..width /\ b[2] \in 0..height /\ b[4] \in 0..height
             /\ predictions[i].box[3] >= 0 => b[1] <= b[3]
             /\ predictions[i].box[4] >= 0 => b[2] <= b[4]
<1>1. PICK raw : raw = predictions[i].box /\ raw \in Box
  BY DEF Prediction
<1>2. PICK x \in Int : x = raw[3] \div 2 /\ (raw[3] >= 0 => x >= 0)
  BY <1>1 DEF Box
<1>3. PICK y \in Int : y = raw[4] \div 2 /\ (raw[4] >= 0 => y >= 0)
  BY <1>1 DEF Box
<1>4. PICK u \in Int, v \in Int : u = raw[1] /\ v = raw[2]
  BY <1>1 DEF Box
<1>5. BoxOf(predictions, i, width, height) =
        <<Clip(u - x, 0, width), Clip(v - y, 0, height), Clip(u + x, 0, width), Clip(v + y, 0, height)>>
  BY <1>1, <1>2, <1>3, <1>4 DEF BoxOf, ClipBox, XywhToXyxy
<1>6. /\ Clip(u - x, 0, width) \in 0..width /\ Clip(u + x, 0, width) \in 0..width
      /\ Clip(v - y, 0, height) \in 0..height /\ Clip(v + y, 0, height) \in 0..height
  BY ClipIsInside
<1>7. /\ x >= 0 => Clip(u - x, 0, width) <= Clip(u + x, 0, width)
      /\ y >= 0 => Clip(v - y, 0, height) <= Clip(v + y, 0, height)
  BY DEF Clip, Least, Greatest
<1> QED
  BY <1>1, <1>2, <1>3, <1>5, <1>6, <1>7 DEF Box

\* The places in the order of the predictions that are ranked, those of them
\* that clash, and the answer that keeping some of them gives.
RankedPlaces(predictions, order, confidence) ==
  {k \in DOMAIN order : Score(predictions[order[k]]) >= confidence}

BoxClashes(predictions, order, threshold, width, height) ==
  {p \in (1..Len(order)) \X (1..Len(order)) :
    OverlapsMore(BoxOf(predictions, order[p[1]], width, height),
                 BoxOf(predictions, order[p[2]], width, height), threshold)}

Returns(found, kept, predictions, order, width, height) ==
  /\ DOMAIN found = DOMAIN kept
  /\ \A k \in DOMAIN kept :
       /\ found[k].from = order[kept[k]]
       /\ found[k].box = BoxOf(predictions, order[kept[k]], width, height)
       /\ found[k].score = Score(predictions[order[kept[k]]])

LEMMA PostprocessReturns ==
  ASSUME NEW n \in Nat, NEW predictions \in [1..n -> Prediction], NEW order \in Seq(1..n),
         NEW confidence, NEW threshold, NEW width \in Nat, NEW height \in Nat,
         NEW found, found = PostprocessWith(predictions, order, confidence, threshold, width, height),
         NEW ranked, ranked = RankedPlaces(predictions, order, confidence),
         NEW clash, clash = BoxClashes(predictions, order, threshold, width, height)
  PROVE  \E kept \in Seq(ranked) :
           /\ BestOf(kept, ranked, clash)
           /\ Returns(found, kept, predictions, order, width, height)
<1> DEFINE boxes == [i \in 1..n |-> BoxOf(predictions, i, width, height)]
           kept == Greedy(boxes, order, ranked, threshold)
<1>1. /\ DOMAIN predictions = 1..n /\ DOMAIN order = 1..Len(order)
      /\ \A k \in DOMAIN order : order[k] \in 1..n
  BY ElementOfSeq
<1>2. boxes = [i \in DOMAIN predictions |-> ClipBox(XywhToXyxy(predictions[i].box), width, height)]
  BY <1>1 DEF BoxOf
<1>3. ranked = {k \in DOMAIN order : order[k] \in Confident(predictions, confidence)}
  BY <1>1 DEF Confident, RankedPlaces
<1>4. /\ DOMAIN found = DOMAIN kept
      /\ \A k \in DOMAIN kept :
           /\ found[k].from = order[kept[k]]
           /\ found[k].box = boxes[order[kept[k]]]
           /\ found[k].score = Score(predictions[order[kept[k]]])
  <2> HIDE DEF boxes
  <2> QED
    BY <1>2, <1>3 DEF PostprocessWith
<1>5. BestOf(kept, ranked, Clashes(boxes, order, threshold))
  <2>1. ranked \in SUBSET DOMAIN order
    BY DEF RankedPlaces
  <2> HIDE DEF boxes
  <2> QED
    BY <2>1, GreedyKeepsTheBest
<1>6. \A k \in DOMAIN order : boxes[order[k]] = BoxOf(predictions, order[k], width, height)
  BY <1>1
<1> HIDE DEF boxes, kept
<1>7. Clashes(boxes, order, threshold) = clash
  BY <1>1, <1>6 DEF Clashes, BoxClashes
<1>8. kept \in Seq(ranked)
  BY <1>5 DEF BestOf
<1>9. \A k \in DOMAIN kept : kept[k] \in DOMAIN order
  BY <1>8, ElementOfSeq DEF RankedPlaces
<1>10. Returns(found, kept, predictions, order, width, height)
  BY <1>4, <1>6, <1>9 DEF Returns
<1> QED
  BY <1>5, <1>7, <1>8, <1>10

(***************************************************************************)
(* nms drops a confident prediction only for a better one that is itself   *)
(* kept and overlaps it too much, and keeps no two that overlap too much:  *)
(* for any number of predictions, boxes, scores and thresholds, and        *)
(* however the sort orders equal scores.                                   *)
(***************************************************************************)
THEOREM NmsAlwaysKeepsTheBest ==
  ASSUME NEW n \in Nat, NEW predictions \in [1..n -> Prediction],
         NEW order \in Seq(1..n), \A i \in 1..n : \E k \in DOMAIN order : order[k] = i,
         Ranks(predictions, order),
         NEW confidence \in Int, NEW threshold \in Threshold,
         NEW width \in Nat, NEW height \in Nat
  PROVE  KeepsExactlyTheBest(predictions, order, confidence, threshold, width, height)
<1> DEFINE box(i) == BoxOf(predictions, i, width, height)
<1>0. PICK found, ranked, clash :
        /\ found = PostprocessWith(predictions, order, confidence, threshold, width, height)
        /\ ranked = RankedPlaces(predictions, order, confidence)
        /\ clash = BoxClashes(predictions, order, threshold, width, height)
  OBVIOUS
<1>1. PICK kept \in Seq(ranked) :
        BestOf(kept, ranked, clash) /\ Returns(found, kept, predictions, order, width, height)
  BY <1>0, PostprocessReturns
<1>2. /\ DOMAIN order = 1..Len(order) /\ Len(order) \in Nat /\ DOMAIN predictions = 1..n
      /\ \A k \in DOMAIN order : order[k] \in 1..n
  BY ElementOfSeq
<1>3. /\ DOMAIN kept \subseteq Int
      /\ \A k \in DOMAIN kept : kept[k] \in ranked
  BY ElementOfSeq
<1>4. \A i \in 1..n : box(i) \in Box
  BY BoxOfType
<1>5. ASSUME NEW a \in DOMAIN order, NEW b \in DOMAIN order
      PROVE  <<a, b>> \in clash <=> OverlapsMore(box(order[a]), box(order[b]), threshold)
  <2> HIDE DEF box
  <2>1. clash = {p \in (1..Len(order)) \X (1..Len(order)) :
                  OverlapsMore(box(order[p[1]]), box(order[p[2]]), threshold)}
    BY <1>0 DEF BoxClashes, box
  <2> QED
    BY <1>2, <2>1
<1> DEFINE answer == {found[k].from : k \in DOMAIN found}
<1>6. answer = {order[kept[k]] : k \in DOMAIN kept}
  <2>1. DOMAIN found = DOMAIN kept /\ \A k \in DOMAIN found : found[k].from = order[kept[k]]
    BY <1>1 DEF Returns
  <2>2. ASSUME NEW k \in DOMAIN kept PROVE order[kept[k]] \in answer
    <3>1. k \in DOMAIN found /\ order[kept[k]] = found[k].from
      BY <2>1
    <3> QED
      BY <3>1
  <2>3. ASSUME NEW i \in answer PROVE \E k \in DOMAIN kept : i = order[kept[k]]
    <3>1. PICK k \in DOMAIN found : i = found[k].from
      OBVIOUS
    <3> QED
      BY <2>1, <3>1
  <2> HIDE DEF answer
  <2> QED
    BY <2>2, <2>3
<1> HIDE DEF box, answer
<1>7. answer \subseteq {i \in DOMAIN predictions : Score(predictions[i]) >= confidence}
  BY <1>0, <1>2, <1>3, <1>6 DEF RankedPlaces
<1>8. ASSUME NEW i \in answer, NEW j \in answer, i # j
      PROVE  ~OverlapsMore(box(i), box(j), threshold)
  <2>1. PICK a \in DOMAIN kept, b \in DOMAIN kept : i = order[kept[a]] /\ j = order[kept[b]]
    BY <1>6
  <2>2. a \in Int /\ b \in Int /\ a # b
    BY <1>3, <1>8, <2>1
  <2>3. \A c, d \in DOMAIN kept : c < d => <<kept[c], kept[d]>> \notin clash
    BY <1>1 DEF BestOf
  <2>4. kept[a] \in DOMAIN order /\ kept[b] \in DOMAIN order
    BY <1>0, <1>3 DEF RankedPlaces
  <2>5. OverlapsMore(box(i), box(j), threshold) <=> OverlapsMore(box(j), box(i), threshold)
    BY <1>2, <1>4, <2>1, <2>4, OverlapIsSymmetric
  <2>6. a < b \/ b < a
    BY <2>2
  <2> QED
    BY <1>5, <2>1, <2>3, <2>4, <2>5, <2>6
<1>9. ASSUME NEW i \in DOMAIN predictions \ answer, Score(predictions[i]) >= confidence
      PROVE  \E j \in answer : /\ OverlapsMore(box(j), box(i), threshold)
                               /\ Score(predictions[j]) >= Score(predictions[i])
  <2>1. PICK p \in DOMAIN order : order[p] = i
    BY <1>2
  <2>2. p \in ranked
    BY <1>0, <1>9, <2>1 DEF RankedPlaces
  <2>3. \A k \in DOMAIN kept : kept[k] # p
    BY <1>6, <1>9, <2>1
  <2>4. PICK k \in DOMAIN kept : kept[k] < p /\ <<kept[k], p>> \in clash
    BY <1>1, <2>2, <2>3 DEF BestOf
  <2>5. PICK q \in DOMAIN order : q = kept[k]
    BY <1>0, <1>3 DEF RankedPlaces
  <2>6. q \in 1..Len(order) /\ p \in 1..Len(order) /\ q <= p
    BY <1>2, <2>4, <2>5
  <2>7. Score(predictions[order[q]]) >= Score(predictions[order[p]])
    <3>1. \A m \in 1..Len(order) : predictions[order[m]] \in Prediction
      BY <1>2
    <3> QED
      BY <1>2, <2>6, <3>1, EarlierIsNotWorse
  <2>8. OverlapsMore(box(order[q]), box(i), threshold)
    BY <1>5, <2>1, <2>4, <2>5
  <2>9. order[q] \in answer
    BY <1>6, <2>5
  <2> QED
    BY <2>1, <2>7, <2>8, <2>9
<1> QED
  BY <1>0, <1>7, <1>8, <1>9 DEF KeepsExactlyTheBest, answer, box, BoxOf

(***************************************************************************)
(* The detections come by falling score, so that the worker's cut drops    *)
(* the worst, and their boxes stay inside the model's input: for any       *)
(* predictions whose widths and heights are not negative.                  *)
(***************************************************************************)
THEOREM NmsAlwaysSorts ==
  ASSUME NEW n \in Nat, NEW predictions \in [1..n -> Prediction],
         NEW order \in Seq(1..n), Ranks(predictions, order),
         \A i \in 1..n : predictions[i].box[3] >= 0 /\ predictions[i].box[4] >= 0,
         NEW confidence \in Int, NEW threshold \in Threshold,
         NEW width \in Nat, NEW height \in Nat
  PROVE  SortedAndInside(predictions, order, confidence, threshold, width, height)
<1>1. PICK found, ranked, clash :
        /\ found = PostprocessWith(predictions, order, confidence, threshold, width, height)
        /\ ranked = RankedPlaces(predictions, order, confidence)
        /\ clash = BoxClashes(predictions, order, threshold, width, height)
  OBVIOUS
<1>2. PICK kept \in Seq(ranked) :
        BestOf(kept, ranked, clash) /\ Returns(found, kept, predictions, order, width, height)
  BY <1>1, PostprocessReturns
<1>3. /\ DOMAIN order = 1..Len(order) /\ Len(order) \in Nat
      /\ \A k \in DOMAIN order : order[k] \in 1..n
  BY ElementOfSeq
<1>4. /\ Len(kept) \in Nat /\ DOMAIN kept = 1..Len(kept)
      /\ \A k \in DOMAIN kept : kept[k] \in DOMAIN order
  BY <1>1, ElementOfSeq DEF RankedPlaces
<1>5. ASSUME NEW k \in DOMAIN found, k > 1 PROVE found[k - 1].score >= found[k].score
  <2>1. k \in DOMAIN kept /\ k - 1 \in DOMAIN kept /\ k - 1 < k
    BY <1>2, <1>4, <1>5 DEF Returns
  <2>2. kept[k - 1] < kept[k]
    BY <1>2, <2>1 DEF BestOf
  <2>3. PICK a \in 1..Len(order), b \in 1..Len(order) : a = kept[k - 1] /\ b = kept[k] /\ a <= b
    BY <1>3, <1>4, <2>1, <2>2
  <2>4. \A m \in 1..Len(order) : predictions[order[m]] \in Prediction
    BY <1>3
  <2>5. Score(predictions[order[a]]) >= Score(predictions[order[b]])
    BY <1>3, <2>3, <2>4, EarlierIsNotWorse
  <2> QED
    BY <1>2, <2>1, <2>3, <2>5 DEF Returns
<1>6. ASSUME NEW k \in DOMAIN found
      PROVE  /\ 0 <= found[k].box[1] /\ found[k].box[1] <= found[k].box[3] /\ found[k].box[3] <= width
             /\ 0 <= found[k].box[2] /\ found[k].box[2] <= found[k].box[4] /\ found[k].box[4] <= height
  <2>1. k \in DOMAIN kept
    BY <1>2 DEF Returns
  <2>2. PICK i \in 1..n : i = order[kept[k]]
    BY <1>3, <1>4, <2>1
  <2>3. found[k].box = BoxOf(predictions, i, width, height)
    BY <1>2, <2>1, <2>2 DEF Returns
  <2>4. /\ predictions[i] \in Prediction
        /\ predictions[i].box[3] >= 0 /\ predictions[i].box[4] >= 0
    OBVIOUS
  <2>5. PICK b : b = BoxOf(predictions, i, width, height)
    OBVIOUS
  <2>6. /\ b[1] \in 0..width /\ b[3] \in 0..width /\ b[2] \in 0..height /\ b[4] \in 0..height
        /\ b[1] <= b[3] /\ b[2] <= b[4]
    BY <2>4, <2>5, BoxOfType
  <2> QED
    BY <2>3, <2>5, <2>6
<1> QED
  BY <1>1, <1>5, <1>6 DEF SortedAndInside

(***************************************************************************)
(* What postprocess_yolo returns for the model's input and thresholds, for *)
(* any number of predictions and however equal scores are ordered.         *)
(***************************************************************************)
THEOREM DetectionsAreAlwaysTheBest ==
  ASSUME NEW n \in Nat,
         input.of = "predictions" =>
           /\ input.predictions \in [1..n -> Prediction]
           /\ \A i \in 1..n : input.predictions[i].box[3] >= 0 /\ input.predictions[i].box[4] >= 0
           /\ input.order \in Seq(1..n)
           /\ \A i \in 1..n : \E k \in DOMAIN input.order : input.order[k] = i
           /\ Ranks(input.predictions, input.order)
  PROVE  DetectionsAreTheBest
<1>1. /\ Quarter \in Threshold /\ 2 \in Int
      /\ InputWidth \in Nat /\ InputHeight \in Nat
  BY DEF Quarter, Threshold, InputWidth, InputHeight
<1>2. BestAreKept
  BY <1>1, NmsAlwaysKeepsTheBest DEF BestAreKept
<1>3. KeptAreSortedAndInside
  BY <1>1, NmsAlwaysSorts DEF KeptAreSortedAndInside
<1> QED
  BY <1>2, <1>3 DEF DetectionsAreTheBest
-----------------------------------------------------------------------------
(* Texts put together from pieces. *)

Flattens(f, pieces) ==
  f = [i \in 1..Len(pieces) |-> IF i = 1 THEN pieces[i] ELSE f[i - 1] \o pieces[i]]

LEMMA FlattenExists ==
  ASSUME NEW pieces, Len(pieces) \in Nat
  PROVE  \E f : Flattens(f, pieces)
<1> DEFINE piece(f, i) == IF i = 1 THEN pieces[i] ELSE f[i - 1] \o pieces[i]
           Upto(m) == \E f : f = [i \in 1..m |-> piece(f, i)]
           T == {m \in 0..Len(pieces) : Upto(m)}
<1>1. Upto(0)
  <2> DEFINE f == [i \in 1..0 |-> <<>>]
  <2>1. f = [i \in 1..0 |-> piece(f, i)]
    OBVIOUS
  <2> HIDE DEF f, piece
  <2> QED
    BY <2>1
<1>2. ASSUME NEW m \in Nat, Upto(m) PROVE Upto(m + 1)
  <2>1. PICK f : f = [i \in 1..m |-> piece(f, i)]
    BY <1>2
  <2> DEFINE g == [i \in 1..(m + 1) |-> IF i \in 1..m THEN f[i] ELSE piece(f, i)]
  <2>2. \A i \in 1..m : g[i] = f[i] /\ f[i] = piece(f, i)
    <3>1. \A i \in 1..m : f[i] = piece(f, i)
      <4> HIDE DEF piece
      <4> QED
        BY <2>1
    <3>2. \A i \in 1..m : g[i] = f[i]
      <4> HIDE DEF piece
      <4> QED
        OBVIOUS
    <3> HIDE DEF g, piece
    <3> QED
      BY <3>1, <3>2
  <2>3. \A i \in 1..(m + 1) : g[i] = piece(f, i)
    BY <2>2
  <2>4. ASSUME NEW i \in 1..(m + 1) PROVE piece(g, i) = piece(f, i)
    <3>1. i # 1 => i - 1 \in 1..m
      OBVIOUS
    <3>2. i # 1 => g[i - 1] = f[i - 1]
      BY <2>2, <3>1
    <3> HIDE DEF g
    <3> QED
      BY <3>2
  <2>5. g = [i \in 1..(m + 1) |-> piece(g, i)]
    <3> HIDE DEF piece
    <3>1. \A i \in 1..(m + 1) : g[i] = piece(g, i)
      BY <2>3, <2>4
    <3>2. g = [i \in 1..(m + 1) |-> g[i]]
      OBVIOUS
    <3> HIDE DEF g
    <3> QED
      BY <3>1, <3>2
  <2> HIDE DEF g, piece
  <2> QED
    BY <2>5
<1>3. Upto(Len(pieces))
  <2> HIDE DEF Upto
  <2>1. 0 \in T /\ \A m \in 0..(Len(pieces) - 1) : m \in T => m + 1 \in T
    BY <1>1, <1>2
  <2>2. Len(pieces) \in T
    <3> HIDE DEF T
    <3> QED
      BY <2>1, CountUp
  <2> QED
    BY <2>2
<1> QED
  BY <1>3 DEF Flattens

LEMMA FlattenIs ==
  ASSUME NEW pieces, Len(pieces) \in Nat \ {0}
  PROVE  \E f : Flattens(f, pieces) /\ FlattenSeq(pieces) = f[Len(pieces)]
<1>1. \E f : Flattens(f, pieces)
  BY FlattenExists
<1>2. PICK f : f = (CHOOSE g : Flattens(g, pieces)) /\ Flattens(f, pieces)
  BY <1>1
<1>3. FlattenSeq(pieces) = f[Len(pieces)]
  BY <1>2 DEF FlattenSeq, Flattens
<1> QED
  BY <1>2, <1>3

\* One more piece is put at the end.
LEMMA FlattenGrows ==
  ASSUME NEW S, NEW short \in Seq(Seq(S)), NEW long \in Seq(Seq(S)),
         Len(long) = Len(short) + 1, \A i \in 1..Len(short) : long[i] = short[i],
         FlattenSeq(short) \in Seq(S)
  PROVE  FlattenSeq(long) = FlattenSeq(short) \o long[Len(long)]
<1>1. PICK n \in Nat : n = Len(short) /\ Len(long) = n + 1
  OBVIOUS
<1>2. PICK g : Flattens(g, long) /\ FlattenSeq(long) = g[n + 1]
  <2>1. Len(long) \in Nat \ {0}
    BY <1>1
  <2>2. \E g : Flattens(g, long) /\ FlattenSeq(long) = g[Len(long)]
    BY <2>1, FlattenIs
  <2> QED
    BY <1>1, <2>2
<1>3. \A i \in 1..(n + 1) : g[i] = IF i = 1 THEN long[i] ELSE g[i - 1] \o long[i]
  BY <1>1, <1>2 DEF Flattens
<1>4. long[n + 1] \in Seq(S)
  BY <1>1, ElementOfSeq
<1>5. CASE n = 0
  <2>1. short = <<>>
    BY <1>1, <1>5, EmptySeq
  <2>2. FlattenSeq(short) = <<>>
    BY <2>1 DEF FlattenSeq
  <2>3. g[n + 1] = long[n + 1]
    BY <1>3, <1>5
  <2>4. <<>> \o long[n + 1] = long[n + 1]
    BY <1>4
  <2> QED
    BY <1>1, <1>2, <2>2, <2>3, <2>4
<1>6. CASE n # 0
  <2>1. PICK f : Flattens(f, short) /\ FlattenSeq(short) = f[n]
    <3>1. Len(short) \in Nat \ {0}
      BY <1>1, <1>6
    <3>2. \E f : Flattens(f, short) /\ FlattenSeq(short) = f[Len(short)]
      BY <3>1, FlattenIs
    <3> QED
      BY <1>1, <3>2
  <2>2. \A i \in 1..n : f[i] = IF i = 1 THEN short[i] ELSE f[i - 1] \o short[i]
    BY <1>1, <2>1 DEF Flattens
  <2> DEFINE T == {m \in 0..n : m # 0 => g[m] = f[m]}
  <2>3. ASSUME NEW m \in 0..(n - 1), m \in T PROVE m + 1 \in T
    <3>1. m + 1 \in 1..n /\ m + 1 \in 1..(n + 1) /\ long[m + 1] = short[m + 1]
      BY <1>1
    <3>2. g[m + 1] = f[m + 1]
      <4>1. CASE m = 0
        BY <1>3, <2>2, <3>1, <4>1
      <4>2. CASE m # 0
        <5>1. g[m] = f[m] /\ m + 1 # 1 /\ (m + 1) - 1 = m
          BY <2>3, <4>2
        <5>2. f[m + 1] = f[m] \o short[m + 1] /\ g[m + 1] = g[m] \o long[m + 1]
          BY <1>3, <2>2, <3>1, <5>1
        <5> QED
          BY <3>1, <5>1, <5>2
      <4> QED
        BY <4>1, <4>2
    <3> QED
      BY <3>1, <3>2
  <2>4. n \in T
    <3>1. 0 \in T
      OBVIOUS
    <3> HIDE DEF T
    <3> QED
      BY <2>3, <3>1, CountUp
  <2>5. g[n + 1] = g[n] \o long[n + 1]
    <3>1. n + 1 \in 1..(n + 1) /\ n + 1 # 1 /\ (n + 1) - 1 = n
      BY <1>6
    <3> QED
      BY <1>3, <3>1
  <2>6. g[n] = f[n]
    BY <2>4, <1>6
  <2> QED
    BY <1>1, <1>2, <2>1, <2>5, <2>6
<1> QED
  BY <1>5, <1>6

\* A set that has the empty sequence, and with a sequence those that are an
\* element longer, has every sequence.
LEMMA GrowUp ==
  ASSUME NEW S, NEW T, <<>> \in T,
         \A u \in Seq(S) : \A c \in S : u \in T => Append(u, c) \in T
  PROVE  \A u \in Seq(S) : u \in T
<1> TAKE u \in Seq(S)
<1> DEFINE N == {m \in 0..Len(u) : SubSeq(u, 1, m) \in T}
<1>1. Len(u) \in Nat /\ SubSeq(u, 1, Len(u)) = u
  BY SubSeqFull
<1>2. 0 \in N
  <2>1. SubSeq(u, 1, 0) = <<>>
    BY SubSeqEmpty
  <2>2. SubSeq(u, 1, 0) \in T
    BY <2>1, Zenon
  <2>3. 0 \in 0..Len(u)
    BY <1>1
  <2> QED
    BY <2>2, <2>3, Zenon
<1>3. ASSUME NEW m \in 0..(Len(u) - 1), m \in N PROVE m + 1 \in N
  <2>1. m + 1 \in 1..Len(u) /\ m + 1 \in 0..Len(u) /\ (m + 1) - 1 = m
    BY <1>1
  <2>2. SubSeq(u, 1, m) \in Seq(S) /\ u[m + 1] \in S
    BY <1>1, <2>1
  <2>3. SubSeq(u, 1, m + 1) = SubSeq(u, 1, m) \o <<u[m + 1]>>
    <3>1. 1 \in 1..Len(u)
      BY <2>1
    <3> QED
      BY <2>1, <3>1, SubSeqRecursiveSecond
  <2>4. Append(SubSeq(u, 1, m), u[m + 1]) = SubSeq(u, 1, m) \o <<u[m + 1]>>
    BY <2>2, AppendIsConcat
  <2>5. Append(SubSeq(u, 1, m), u[m + 1]) \in T
    BY <1>3, <2>2
  <2> QED
    BY <2>1, <2>3, <2>4, <2>5
<1>4. Len(u) \in N
  <2> HIDE DEF N
  <2> QED
    BY <1>1, <1>2, <1>3, CountUp
<1> QED
  BY <1>1, <1>4

\* Texts put together are a text.
LEMMA FlattenType ==
  ASSUME NEW S, NEW pieces \in Seq(Seq(S))
  PROVE  FlattenSeq(pieces) \in Seq(S)
<1> DEFINE T == {p \in Seq(Seq(S)) : FlattenSeq(p) \in Seq(S)}
<1>1. <<>> \in T
  BY EmptySeq DEF FlattenSeq
<1>2. ASSUME NEW p \in Seq(Seq(S)), NEW c \in Seq(S), p \in T PROVE Append(p, c) \in T
  <2>1. /\ Append(p, c) \in Seq(Seq(S)) /\ Len(Append(p, c)) = Len(p) + 1
        /\ \A i \in 1..Len(p) : Append(p, c)[i] = p[i]
        /\ Append(p, c)[Len(Append(p, c))] = c
    BY AppendProperties
  <2>2. FlattenSeq(p) \in Seq(S)
    BY <1>2
  <2>3. FlattenSeq(Append(p, c)) = FlattenSeq(p) \o c
    BY <2>1, <2>2, FlattenGrows
  <2>4. FlattenSeq(p) \o c \in Seq(S)
    BY <2>2, ConcatProperties
  <2>5. FlattenSeq(Append(p, c)) \in Seq(S)
    BY <2>3, <2>4
  <2> QED
    BY <2>1, <2>5
<1>3. \A p \in Seq(Seq(S)) : p \in T
  <2> HIDE DEF T
  <2> QED
    BY <1>1, <1>2, GrowUp
<1> QED
  BY <1>3

LEMMA FlattenAppend ==
  ASSUME NEW S, NEW p \in Seq(Seq(S)), NEW c \in Seq(S)
  PROVE  FlattenSeq(Append(p, c)) = FlattenSeq(p) \o c
<1>1. /\ Append(p, c) \in Seq(Seq(S)) /\ Len(Append(p, c)) = Len(p) + 1
      /\ \A i \in 1..Len(p) : Append(p, c)[i] = p[i]
      /\ Append(p, c)[Len(Append(p, c))] = c
  BY AppendProperties
<1>2. FlattenSeq(p) \in Seq(S)
  BY FlattenType
<1> QED
  BY <1>1, <1>2, FlattenGrows

(* The words of a text, and its line: what one more character does to them. *)

EndsWhite(text) == text # <<>> /\ text[Len(text)] \in White
BeginsSolid(text) == text = <<>> \/ text[1] \notin White
Has(text, c) == \E i \in DOMAIN text : text[i] = c
SpacesOnly(text) == \A i \in DOMAIN text : text[i] \in White => text[i] = "s"

WordPiece(text, i) ==
  IF text[i] \in White THEN <<>>
  ELSE <<[word |-> text[i], apart |-> i > 1 /\ text[i - 1] \in White]>>

LinePiece(text, i) ==
  IF text[i] \notin White THEN <<text[i]>> ELSE IF text[i - 1] \in White THEN <<>> ELSE <<"s">>

Line(text) == FlattenSeq([i \in DOMAIN text |-> LinePiece(text, i)])

LEMMA NormalizedIsLine ==
  ASSUME NEW text
  PROVE  NormalizePromptLine(text) = Line(Stripped(text))
<1> DEFINE t == Stripped(text)
           piece(i) == CASE t[i] \notin White -> <<t[i]>>
                         [] t[i] \in White /\ t[i - 1] \notin White -> <<"s">>
                         [] OTHER -> <<>>
<1>1. ASSUME NEW i \in DOMAIN t PROVE piece(i) = LinePiece(t, i)
  <2> HIDE DEF t
  <2> QED
    BY DEF LinePiece
<1>2. [i \in DOMAIN t |-> piece(i)] = [i \in DOMAIN t |-> LinePiece(t, i)]
  <2> HIDE DEF t, piece
  <2> QED
    BY <1>1
<1> HIDE DEF LinePiece
<1> QED
  BY <1>2 DEF NormalizePromptLine, Line

\* What one more piece does to a text of pieces.
LEMMA PiecesGrow ==
  ASSUME NEW S, NEW short \in Seq(Seq(S)), NEW long \in Seq(Seq(S)),
         Len(long) = Len(short) + 1, \A i \in 1..Len(short) : long[i] = short[i]
  PROVE  FlattenSeq(long) = FlattenSeq(short) \o long[Len(long)]
BY FlattenType, FlattenGrows

LEMMA Appended ==
  ASSUME NEW S, NEW u \in Seq(S), NEW c \in S, NEW v, v = Append(u, c)
  PROVE  /\ v \in Seq(S) /\ Len(u) \in Nat /\ Len(v) = Len(u) + 1 /\ v # <<>>
         /\ DOMAIN u = 1..Len(u) /\ DOMAIN v = 1..(Len(u) + 1)
         /\ \A i \in 1..Len(u) : v[i] = u[i]
         /\ v[Len(u) + 1] = c /\ u # <<>> => Len(u) \in 1..Len(u)
         /\ u = <<>> => Len(u) = 0
BY AppendProperties, EmptySeq

LEMMA WordsAppend ==
  ASSUME NEW S, NEW u \in Seq(S), NEW c \in S
  PROVE  /\ c \in White => Words(Append(u, c)) = Words(u)
         /\ c \notin White =>
              Words(Append(u, c)) = Words(u) \o <<[word |-> c, apart |-> EndsWhite(u)]>>
         /\ Words(u) \in Seq([word : S, apart : BOOLEAN])
<1> DEFINE W == [word : S, apart : BOOLEAN]
           pieces(text) == [i \in DOMAIN text |-> WordPiece(text, i)]
<1>1. PICK v : v = Append(u, c)
  OBVIOUS
<1>2. /\ v \in Seq(S) /\ Len(u) \in Nat /\ Len(v) = Len(u) + 1 /\ v # <<>>
      /\ DOMAIN u = 1..Len(u) /\ DOMAIN v = 1..(Len(u) + 1)
      /\ \A i \in 1..Len(u) : v[i] = u[i]
      /\ v[Len(u) + 1] = c
  BY <1>1, Appended
<1>3. ASSUME NEW text \in Seq(S), NEW i \in 1..Len(text) PROVE WordPiece(text, i) \in Seq(W)
  <2>1. text[i] \in S
    BY <1>3
  <2>2. (i > 1 /\ text[i - 1] \in White) \in BOOLEAN
    OBVIOUS
  <2>3. [word |-> text[i], apart |-> i > 1 /\ text[i - 1] \in White] \in W
    <3> PICK b \in BOOLEAN : b = (i > 1 /\ text[i - 1] \in White)
      BY <2>2
    <3> QED
      BY <2>1
  <2> HIDE DEF W
  <2> QED
    BY <2>3 DEF WordPiece
<1>4. Words(u) = FlattenSeq(pieces(u)) /\ Words(v) = FlattenSeq(pieces(v))
  BY DEF Words, WordPiece
<1>5. ASSUME NEW i \in 1..Len(u) PROVE WordPiece(v, i) = WordPiece(u, i)
  <2>1. v[i] = u[i] /\ (i > 1 => v[i - 1] = u[i - 1])
    BY <1>2
  <2> QED
    BY <2>1 DEF WordPiece
<1>6. /\ pieces(u) \in [1..Len(u) -> Seq(W)] /\ pieces(v) \in [1..(Len(u) + 1) -> Seq(W)]
      /\ \A i \in 1..Len(u) : pieces(v)[i] = pieces(u)[i]
      /\ pieces(v)[Len(u) + 1] = WordPiece(v, Len(u) + 1)
  <2> HIDE DEF W
  <2> QED
    BY <1>2, <1>3, <1>5
<1>7. Words(u) \in Seq(W)
  <2>1. pieces(u) \in Seq(Seq(W))
    <3> HIDE DEF pieces, W
    <3> QED
      BY <1>2, <1>6
  <2> HIDE DEF pieces, W
  <2> QED
    BY <1>4, <2>1, FlattenType
<1>8. Words(v) = Words(u) \o WordPiece(v, Len(u) + 1)
  <2> HIDE DEF pieces, W
  <2>1. PICK n \in Nat : n = Len(u)
    BY <1>2
  <2>2. PICK short, long : short = pieces(u) /\ long = pieces(v)
    OBVIOUS
  <2>3. short \in [1..n -> Seq(W)]
    BY <1>6, <2>1, <2>2
  <2>4. long \in [1..(n + 1) -> Seq(W)]
    BY <1>6, <2>1, <2>2
  <2>5. \A i \in 1..n : long[i] = short[i]
    BY <1>6, <2>1, <2>2
  <2>6. short \in Seq(Seq(W)) /\ Len(short) = n
    BY <2>3
  <2>7. long \in Seq(Seq(W)) /\ Len(long) = n + 1
    BY <2>4
  <2>8. FlattenSeq(long) = FlattenSeq(short) \o long[n + 1]
    BY <2>5, <2>6, <2>7, PiecesGrow
  <2> QED
    BY <1>4, <1>6, <2>1, <2>2, <2>8
<1>9. CASE c \in White
  <2>1. WordPiece(v, Len(u) + 1) = <<>>
    BY <1>2, <1>9 DEF WordPiece
  <2>2. Words(u) \o <<>> = Words(u)
    BY <1>7
  <2> QED
    BY <1>1, <1>7, <1>8, <1>9, <2>1, <2>2
<1>10. CASE c \notin White
  <2>1. (Len(u) + 1 > 1 /\ v[(Len(u) + 1) - 1] \in White) <=> EndsWhite(u)
    <3>1. (Len(u) + 1) - 1 = Len(u) /\ (Len(u) + 1 > 1 <=> u # <<>>)
      BY <1>2, EmptySeq
    <3>2. u # <<>> => v[Len(u)] = u[Len(u)]
      BY <1>2, <3>1
    <3> QED
      BY <3>1, <3>2 DEF EndsWhite
  <2>2. (Len(u) + 1 > 1 /\ v[(Len(u) + 1) - 1] \in White) = EndsWhite(u)
    BY <2>1 DEF EndsWhite
  <2>3. WordPiece(v, Len(u) + 1) = <<[word |-> c, apart |-> EndsWhite(u)]>>
    BY <1>2, <1>10, <2>2 DEF WordPiece
  <2> QED
    BY <1>1, <1>7, <1>8, <1>10, <2>3
<1> QED
  BY <1>7, <1>9, <1>10

LEMMA LineAppend ==
  ASSUME NEW S, "s" \in S, NEW u \in Seq(S), NEW c \in S, BeginsSolid(u)
  PROVE  /\ c \notin White => Line(Append(u, c)) = Line(u) \o <<c>>
         /\ c \in White /\ u # <<>> /\ EndsWhite(u) => Line(Append(u, c)) = Line(u)
         /\ c \in White /\ u # <<>> /\ ~EndsWhite(u) => Line(Append(u, c)) = Line(u) \o <<"s">>
         /\ Line(u) \in Seq(S)
<1> DEFINE pieces(text) == [i \in DOMAIN text |-> LinePiece(text, i)]
<1>1. PICK v : v = Append(u, c)
  OBVIOUS
<1>2. /\ v \in Seq(S) /\ Len(u) \in Nat /\ Len(v) = Len(u) + 1 /\ v # <<>>
      /\ DOMAIN u = 1..Len(u) /\ DOMAIN v = 1..(Len(u) + 1)
      /\ \A i \in 1..Len(u) : v[i] = u[i]
      /\ v[Len(u) + 1] = c
  BY <1>1, Appended
<1>3. ASSUME NEW text \in Seq(S), NEW i \in 1..Len(text) PROVE LinePiece(text, i) \in Seq(S)
  <2>1. text[i] \in S
    BY <1>3
  <2> QED
    BY <2>1 DEF LinePiece
<1>4. Line(u) = FlattenSeq(pieces(u)) /\ Line(v) = FlattenSeq(pieces(v))
  BY DEF Line
<1>5. ASSUME NEW i \in 1..Len(u) PROVE LinePiece(v, i) = LinePiece(u, i)
  <2>1. v[i] = u[i] /\ (i > 1 => v[i - 1] = u[i - 1])
    BY <1>2
  <2>2. i = 1 => u[i] \notin White
    BY <1>2, EmptySeq DEF BeginsSolid
  <2> QED
    BY <2>1, <2>2 DEF LinePiece
<1>6. /\ pieces(u) \in [1..Len(u) -> Seq(S)] /\ pieces(v) \in [1..(Len(u) + 1) -> Seq(S)]
      /\ \A i \in 1..Len(u) : pieces(v)[i] = pieces(u)[i]
      /\ pieces(v)[Len(u) + 1] = LinePiece(v, Len(u) + 1)
  BY <1>2, <1>3, <1>5
<1>7. /\ pieces(u) \in Seq(Seq(S)) /\ Len(pieces(u)) = Len(u)
      /\ pieces(v) \in Seq(Seq(S)) /\ Len(pieces(v)) = Len(u) + 1
  <2> HIDE DEF pieces
  <2>1. PICK n \in Nat : n = Len(u)
    BY <1>2
  <2>2. PICK short, long : short = pieces(u) /\ long = pieces(v)
    OBVIOUS
  <2>3. short \in [1..n -> Seq(S)]
    BY <1>6, <2>1, <2>2
  <2>4. long \in [1..(n + 1) -> Seq(S)]
    BY <1>6, <2>1, <2>2
  <2>5. short \in Seq(Seq(S)) /\ Len(short) = n
    BY <2>3
  <2>6. long \in Seq(Seq(S)) /\ Len(long) = n + 1
    BY <2>4
  <2> QED
    BY <2>1, <2>2, <2>5, <2>6
<1>8. Line(u) \in Seq(S)
  <2> HIDE DEF pieces
  <2> QED
    BY <1>4, <1>7, FlattenType
<1>9. Line(v) = Line(u) \o LinePiece(v, Len(u) + 1)
  <2> HIDE DEF pieces
  <2>1. PICK short, long : short = pieces(u) /\ long = pieces(v)
    OBVIOUS
  <2>2. /\ short \in Seq(Seq(S)) /\ long \in Seq(Seq(S)) /\ Len(long) = Len(short) + 1
        /\ \A i \in 1..Len(short) : long[i] = short[i]
    BY <1>6, <1>7, <2>1
  <2>3. FlattenSeq(long) = FlattenSeq(short) \o long[Len(long)]
    BY <2>2, PiecesGrow
  <2> QED
    BY <1>4, <1>6, <1>7, <2>1, <2>3
<1>10. u # <<>> => ((Len(u) + 1) - 1 = Len(u) /\ v[Len(u)] = u[Len(u)])
  BY <1>2, EmptySeq
<1>11. c \notin White => LinePiece(v, Len(u) + 1) = <<c>>
  BY <1>2 DEF LinePiece
<1>12. c \in White /\ u # <<>> /\ EndsWhite(u) => LinePiece(v, Len(u) + 1) = <<>>
  BY <1>2, <1>10 DEF LinePiece, EndsWhite
<1>13. c \in White /\ u # <<>> /\ ~EndsWhite(u) => LinePiece(v, Len(u) + 1) = <<"s">>
  BY <1>2, <1>10 DEF LinePiece, EndsWhite
<1>14. Line(u) \o <<>> = Line(u)
  BY <1>8
<1> HIDE DEF pieces
<1> QED
  BY <1>1, <1>8, <1>9, <1>11, <1>12, <1>13, <1>14

LEMMA EmptyTexts == Words(<<>>) = <<>> /\ Line(<<>>) = <<>>
<1>1. [i \in DOMAIN <<>> |-> WordPiece(<<>>, i)] = <<>> /\ [i \in DOMAIN <<>> |-> LinePiece(<<>>, i)] = <<>>
  OBVIOUS
<1>2. FlattenSeq(<<>>) = <<>>
  BY DEF FlattenSeq
<1>3. Words(<<>>) = FlattenSeq([i \in DOMAIN <<>> |-> WordPiece(<<>>, i)])
  BY DEF Words, WordPiece
<1> QED
  BY <1>1, <1>2, <1>3 DEF Line

\* What normalizing keeps of a text that begins with no white space.
Kept(u) ==
  /\ Words(Line(u)) = Words(u)
  /\ u = <<>> <=> Line(u) = <<>>
  /\ EndsWhite(Line(u)) <=> EndsWhite(u)
  /\ BeginsSolid(Line(u))
  /\ SpacesOnly(Line(u))
  /\ \A c : c \notin White => (Has(Line(u), c) <=> Has(u, c))

\* One more character at the end.
LEMMA AppendSays ==
  ASSUME NEW S, NEW u \in Seq(S), NEW c \in S
  PROVE  /\ Append(u, c) = u \o <<c>> /\ Append(u, c) \in Seq(S) /\ Append(u, c) # <<>>
         /\ EndsWhite(Append(u, c)) <=> c \in White
         /\ u # <<>> => (BeginsSolid(Append(u, c)) <=> BeginsSolid(u))
         /\ u = <<>> => (BeginsSolid(Append(u, c)) <=> c \notin White)
         /\ SpacesOnly(Append(u, c)) <=> SpacesOnly(u) /\ (c \in White => c = "s")
         /\ \A d : Has(Append(u, c), d) <=> Has(u, d) \/ d = c
<1>1. PICK v : v = Append(u, c)
  OBVIOUS
<1>2. /\ v \in Seq(S) /\ Len(u) \in Nat /\ Len(v) = Len(u) + 1 /\ v # <<>>
      /\ DOMAIN u = 1..Len(u) /\ DOMAIN v = 1..(Len(u) + 1)
      /\ \A i \in 1..Len(u) : v[i] = u[i]
      /\ v[Len(u) + 1] = c
  BY <1>1, Appended
<1>3. v = u \o <<c>>
  BY <1>1, AppendIsConcat
<1>4. EndsWhite(v) <=> c \in White
  BY <1>2 DEF EndsWhite
<1>5. u # <<>> => (BeginsSolid(v) <=> BeginsSolid(u))
  <2>1. u # <<>> => 1 \in 1..Len(u)
    BY <1>2, EmptySeq
  <2> QED
    BY <1>2, <2>1 DEF BeginsSolid
<1>6. u = <<>> => (BeginsSolid(v) <=> c \notin White)
  BY <1>2, EmptySeq DEF BeginsSolid
<1>7. \A i : i \in DOMAIN v <=> i \in DOMAIN u \/ i = Len(u) + 1
  BY <1>2
<1>8. SpacesOnly(v) <=> SpacesOnly(u) /\ (c \in White => c = "s")
  BY <1>2, <1>7 DEF SpacesOnly
<1>9. \A d : Has(v, d) <=> Has(u, d) \/ d = c
  BY <1>2, <1>7 DEF Has
<1> QED
  BY <1>1, <1>2, <1>3, <1>4, <1>5, <1>6, <1>8, <1>9

LEMMA LineKeepsWords ==
  ASSUME NEW S, "s" \in S, NEW text \in Seq(S), BeginsSolid(text)
  PROVE  Kept(text) /\ Line(text) \in Seq(S)
<1> DEFINE T == {u \in Seq(S) : BeginsSolid(u) => Kept(u) /\ Line(u) \in Seq(S)}
<1>1. <<>> \in T
  <2>1. Kept(<<>>)
    BY EmptyTexts DEF Kept, EndsWhite, BeginsSolid, SpacesOnly, Has
  <2>2. <<>> \in Seq(S) /\ Line(<<>>) \in Seq(S)
    BY EmptyTexts, EmptySeq
  <2> QED
    BY <2>1, <2>2
<1>2. ASSUME NEW u \in Seq(S), NEW c \in S, u \in T PROVE Append(u, c) \in T
  <2>1. SUFFICES ASSUME BeginsSolid(Append(u, c))
                 PROVE  Kept(Append(u, c)) /\ Line(Append(u, c)) \in Seq(S)
    BY AppendSays
  <2>2. BeginsSolid(u) /\ (u = <<>> => c \notin White)
    BY <2>1, AppendSays DEF BeginsSolid
  <2>3. Kept(u) /\ Line(u) \in Seq(S)
    BY <1>2, <2>2
  <2>4. PICK l \in Seq(S) : l = Line(u)
    BY <2>3
  <2>5. /\ EndsWhite(Append(u, c)) <=> c \in White
        /\ \A d : Has(Append(u, c), d) <=> Has(u, d) \/ d = c
        /\ Append(u, c) # <<>>
    BY AppendSays
  <2>6. /\ Words(l) = Words(u) /\ (u = <<>> <=> l = <<>>)
        /\ (EndsWhite(l) <=> EndsWhite(u)) /\ BeginsSolid(l) /\ SpacesOnly(l)
        /\ \A d : d \notin White => (Has(l, d) <=> Has(u, d))
    BY <2>3, <2>4 DEF Kept
  <2>7. CASE c \notin White
    <3>1. Line(Append(u, c)) = Append(l, c)
      <4>1. Line(Append(u, c)) = Line(u) \o <<c>>
        BY <2>2, <2>7, LineAppend
      <4>2. Append(l, c) = l \o <<c>>
        BY AppendIsConcat
      <4> QED
        BY <2>4, <4>1, <4>2
    <3>2. /\ Append(l, c) \in Seq(S) /\ Append(l, c) # <<>>
          /\ EndsWhite(Append(l, c)) <=> c \in White
          /\ BeginsSolid(Append(l, c)) /\ SpacesOnly(Append(l, c))
          /\ \A d : Has(Append(l, c), d) <=> Has(l, d) \/ d = c
      BY <2>6, <2>7, AppendSays
    <3>3. Words(Append(l, c)) = Words(Append(u, c))
      <4>1. Words(Append(u, c)) = Words(u) \o <<[word |-> c, apart |-> EndsWhite(u)]>>
        BY <2>7, WordsAppend
      <4>2. Words(Append(l, c)) = Words(l) \o <<[word |-> c, apart |-> EndsWhite(l)]>>
        BY <2>7, WordsAppend
      <4>3. EndsWhite(l) = EndsWhite(u)
        BY <2>6 DEF EndsWhite
      <4> QED
        BY <2>6, <4>1, <4>2, <4>3
    <3> QED
      BY <2>5, <2>6, <3>1, <3>2, <3>3 DEF Kept
  <2>8. CASE c \in White /\ ~EndsWhite(u)
    <3>1. u # <<>> /\ l # <<>> /\ Words(Append(u, c)) = Words(u)
      BY <2>2, <2>6, <2>8, WordsAppend
    <3>2. PICK e \in S : e = "s"
      OBVIOUS
    <3>3. e \in White
      BY <3>2 DEF White
    <3>4. Line(Append(u, c)) = Append(l, e)
      <4>1. Line(Append(u, c)) = Line(u) \o <<"s">>
        BY <2>2, <2>8, <3>1, LineAppend
      <4>2. Append(l, e) = l \o <<e>>
        BY AppendIsConcat
      <4> QED
        BY <2>4, <3>2, <4>1, <4>2
    <3>5. /\ Append(l, e) \in Seq(S) /\ Append(l, e) # <<>>
          /\ EndsWhite(Append(l, e))
          /\ BeginsSolid(Append(l, e)) /\ SpacesOnly(Append(l, e))
          /\ \A d : Has(Append(l, e), d) <=> Has(l, d) \/ d = e
      <4>1. /\ Append(l, e) \in Seq(S) /\ Append(l, e) # <<>>
            /\ EndsWhite(Append(l, e)) <=> e \in White
            /\ l # <<>> => (BeginsSolid(Append(l, e)) <=> BeginsSolid(l))
            /\ SpacesOnly(Append(l, e)) <=> SpacesOnly(l) /\ (e \in White => e = "s")
            /\ \A d : Has(Append(l, e), d) <=> Has(l, d) \/ d = e
        BY AppendSays
      <4> QED
        BY <2>6, <3>1, <3>2, <3>3, <4>1
    <3>6. Words(Append(l, e)) = Words(l)
      BY <3>3, WordsAppend
    <3>7. \A d : d \notin White => d # e /\ d # c
      BY <2>8, <3>3
    <3> QED
      BY <2>5, <2>6, <2>8, <3>1, <3>4, <3>5, <3>6, <3>7 DEF Kept
  <2>9. CASE c \in White /\ EndsWhite(u)
    <3>1. u # <<>> /\ Words(Append(u, c)) = Words(u)
      BY <2>9, WordsAppend DEF EndsWhite
    <3>2. Line(Append(u, c)) = l
      BY <2>2, <2>4, <2>9, <3>1, LineAppend
    <3>3. \A d : d \notin White => d # c
      BY <2>9
    <3> QED
      BY <2>5, <2>6, <2>9, <3>1, <3>2, <3>3 DEF Kept
  <2> QED
    BY <2>7, <2>8, <2>9
<1>3. \A u \in Seq(S) : u \in T
  <2> HIDE DEF T
  <2> QED
    BY <1>1, <1>2, GrowUp
<1> QED
  BY <1>3

\* Two texts, one after the other.
LEMMA ConcatSays ==
  ASSUME NEW S, NEW p \in Seq(S), NEW u \in Seq(S)
  PROVE  /\ p \o u \in Seq(S)
         /\ p # <<>> => p \o u # <<>> /\ (BeginsSolid(p \o u) <=> BeginsSolid(p))
         /\ u # <<>> => p \o u # <<>> /\ (EndsWhite(p \o u) <=> EndsWhite(u))
         /\ \A d : Has(p \o u, d) <=> Has(p, d) \/ Has(u, d)
<1>1. /\ Len(p) \in Nat /\ Len(u) \in Nat /\ DOMAIN p = 1..Len(p) /\ DOMAIN u = 1..Len(u)
      /\ p # <<>> => Len(p) # 0
      /\ u # <<>> => Len(u) # 0
  BY EmptySeq
<1>2. PICK v : v = p \o u
  OBVIOUS
<1>3. /\ v \in Seq(S) /\ Len(v) = Len(p) + Len(u) /\ DOMAIN v = 1..(Len(p) + Len(u))
      /\ \A i \in 1..Len(p) : v[i] = p[i]
      /\ \A i \in 1..Len(u) : v[Len(p) + i] = u[i]
  BY <1>1, <1>2
<1>4. Len(v) # 0 => v # <<>>
  BY EmptySeq
<1>5. p # <<>> => v # <<>> /\ (BeginsSolid(v) <=> BeginsSolid(p))
  BY <1>1, <1>3, <1>4 DEF BeginsSolid
<1>6. u # <<>> => v # <<>> /\ (EndsWhite(v) <=> EndsWhite(u))
  <2>1. u # <<>> => v[Len(v)] = u[Len(u)]
    BY <1>1, <1>3
  <2> QED
    BY <1>1, <1>3, <1>4, <2>1 DEF EndsWhite
<1>7. ASSUME NEW d PROVE Has(v, d) <=> Has(p, d) \/ Has(u, d)
  <2>1. ASSUME Has(v, d) PROVE Has(p, d) \/ Has(u, d)
    <3>1. PICK i \in 1..(Len(p) + Len(u)) : v[i] = d
      BY <1>3, <2>1 DEF Has
    <3>2. CASE i <= Len(p)
      <4>1. i \in 1..Len(p)
        BY <1>1, <3>2
      <4> QED
        BY <1>1, <1>3, <3>1, <4>1 DEF Has
    <3>3. CASE i > Len(p)
      <4>1. i - Len(p) \in 1..Len(u) /\ Len(p) + (i - Len(p)) = i
        BY <1>1, <3>3
      <4> QED
        BY <1>1, <1>3, <3>1, <4>1 DEF Has
    <3> QED
      BY <1>1, <3>2, <3>3
  <2>2. ASSUME Has(p, d) PROVE Has(v, d)
    <3>1. \A i \in 1..Len(p) : i \in 1..(Len(p) + Len(u))
      BY <1>1
    <3> QED
      BY <1>1, <1>3, <2>2, <3>1 DEF Has
  <2>3. ASSUME Has(u, d) PROVE Has(v, d)
    <3>1. \A i \in 1..Len(u) : Len(p) + i \in 1..(Len(p) + Len(u))
      BY <1>1
    <3> QED
      BY <1>1, <1>3, <2>3, <3>1 DEF Has
  <2> QED
    BY <2>1, <2>2, <2>3
<1> QED
  BY <1>2, <1>3, <1>5, <1>6, <1>7

LEMMA ConcatPlaces ==
  ASSUME NEW S, NEW a \in Seq(S), NEW b \in Seq(S)
  PROVE  /\ a \o b \in Seq(S) /\ Len(a \o b) = Len(a) + Len(b)
         /\ \A i \in 1..Len(a) : (a \o b)[i] = a[i]
         /\ \A i \in 1..Len(b) : (a \o b)[Len(a) + i] = b[i]
OBVIOUS

\* The words of two texts, of which the first one ends in a word.
LEMMA WordsConcat ==
  ASSUME NEW S, NEW p \in Seq(S), NEW text \in Seq(S), ~EndsWhite(p)
  PROVE  Words(p \o text) = Words(p) \o Words(text)
<1> DEFINE W == [word : S, apart : BOOLEAN]
           T == {u \in Seq(S) : Words(p \o u) = Words(p) \o Words(u)}
<1>1. ASSUME NEW u \in Seq(S), NEW c \in S PROVE Words(u) \in Seq(W)
  BY WordsAppend
<1>2. <<>> \in T
  <2>1. p \o <<>> = p /\ <<>> \in Seq(S)
    BY EmptySeq
  <2>2. Words(p) \o <<>> = Words(p)
    <3>1. CASE S = {}
      <4>1. p = <<>>
        BY <3>1, EmptySeq
      <4> QED
        BY <4>1, EmptyTexts
    <3>2. CASE S # {}
      <4> PICK c \in S : TRUE
        BY <3>2
      <4> HIDE DEF W
      <4>1. Words(p) \in Seq(W)
        BY <1>1
      <4> QED
        BY <4>1
    <3> QED
      BY <3>1, <3>2
  <2> QED
    BY <2>1, <2>2, EmptyTexts
<1>3. ASSUME NEW u \in Seq(S), NEW c \in S, u \in T PROVE Append(u, c) \in T
  <2>1. Words(p \o u) = Words(p) \o Words(u)
    BY <1>3
  <2>2. PICK v \in Seq(S) : v = p \o u
    BY ConcatSays
  <2>3. p \o Append(u, c) = Append(v, c)
    <3>1. <<c>> \in Seq(S) /\ Append(u, c) = u \o <<c>> /\ Append(v, c) = v \o <<c>>
      BY AppendSays
    <3>2. (p \o u) \o <<c>> = p \o (u \o <<c>>)
      BY <3>1, ConcatAssociative
    <3> QED
      BY <2>2, <3>1, <3>2
  <2>4. Words(p) \in Seq(W) /\ Words(u) \in Seq(W)
    BY <1>1
  <2>5. CASE c \in White
    <3>1. Words(Append(v, c)) = Words(v) /\ Words(Append(u, c)) = Words(u)
      BY <2>5, WordsAppend
    <3>2. Words(p \o Append(u, c)) = Words(p) \o Words(Append(u, c))
      BY <2>1, <2>2, <2>3, <3>1
    <3> QED
      BY <3>2, AppendSays
  <2>6. CASE c \notin White
    <3>1. EndsWhite(v) = EndsWhite(u)
      <4>1. u = <<>> => v = p
        BY <2>2
      <4>2. EndsWhite(v) <=> EndsWhite(u)
        BY <2>2, <4>1, ConcatSays DEF EndsWhite
      <4> QED
        BY <4>2 DEF EndsWhite
    <3>2. PICK w : w = [word |-> c, apart |-> EndsWhite(u)]
      OBVIOUS
    <3>3. w \in W
      BY <3>2 DEF EndsWhite
    <3>4. Words(Append(v, c)) = Words(v) \o <<w>> /\ Words(Append(u, c)) = Words(u) \o <<w>>
      BY <2>6, <3>1, <3>2, WordsAppend
    <3>5. (Words(p) \o Words(u)) \o <<w>> = Words(p) \o (Words(u) \o <<w>>)
      <4> HIDE DEF W
      <4>1. <<w>> \in Seq(W)
        BY <3>3
      <4> QED
        BY <2>4, <4>1, ConcatAssociative
    <3>6. Words(p \o Append(u, c)) = Words(p) \o Words(Append(u, c))
      BY <2>1, <2>2, <2>3, <3>4, <3>5
    <3> QED
      BY <3>6, AppendSays
  <2> QED
    BY <2>5, <2>6
<1>4. \A u \in Seq(S) : u \in T
  <2> HIDE DEF T
  <2> QED
    BY <1>2, <1>3, GrowUp
<1> QED
  BY <1>4

\* A text that neither begins nor ends with white space is left as it is.
LEMMA StrippedIsSame ==
  ASSUME NEW S, NEW text \in Seq(S), text # <<>>, BeginsSolid(text), ~EndsWhite(text)
  PROVE  Stripped(text) = text
<1> DEFINE solid == {i \in DOMAIN text : text[i] \notin White}
           from == IF solid = {} THEN 1 ELSE CHOOSE i \in solid : \A j \in solid : i <= j
           to == IF solid = {} THEN 0 ELSE CHOOSE i \in solid : \A j \in solid : j <= i
<1>1. Len(text) \in Nat \ {0} /\ DOMAIN text = 1..Len(text)
  BY EmptySeq
<1>2. /\ 1 \in solid /\ Len(text) \in solid
      /\ \A j \in solid : j \in Nat /\ 1 <= j /\ j <= Len(text)
  BY <1>1 DEF BeginsSolid, EndsWhite
<1>3. from = 1 /\ to = Len(text)
  <2> HIDE DEF solid
  <2> QED
    BY <1>1, <1>2
<1>4. Stripped(text) = SubSeq(text, from, to)
  BY DEF Stripped
<1> HIDE DEF from, to
<1> QED
  BY <1>3, <1>4, SubSeqFull

\* The characters of a text of pieces, and how it begins.
LEMMA FlattenHas ==
  ASSUME NEW S, NEW pieces \in Seq(Seq(S))
  PROVE  \A d : Has(FlattenSeq(pieces), d) <=> \E i \in 1..Len(pieces) : Has(pieces[i], d)
<1> DEFINE Same(p) == \A d : Has(FlattenSeq(p), d) <=> \E i \in 1..Len(p) : Has(p[i], d)
           T == {p \in Seq(Seq(S)) : Same(p)}
<1>1. <<>> \in T
  <2>1. FlattenSeq(<<>>) = <<>>
    BY DEF FlattenSeq
  <2>2. Same(<<>>)
    BY <2>1 DEF Has
  <2> HIDE DEF Same
  <2> QED
    BY <2>2, EmptySeq
<1>2. ASSUME NEW p \in Seq(Seq(S)), NEW c \in Seq(S), p \in T PROVE Append(p, c) \in T
  <2>1. PICK v : v = Append(p, c)
    OBVIOUS
  <2>2. /\ v \in Seq(Seq(S)) /\ Len(p) \in Nat /\ Len(v) = Len(p) + 1
        /\ \A i \in 1..Len(p) : v[i] = p[i]
        /\ v[Len(p) + 1] = c
    BY <2>1, Appended
  <2>3. FlattenSeq(v) = FlattenSeq(p) \o c /\ FlattenSeq(p) \in Seq(S)
    BY <2>1, FlattenAppend, FlattenType
  <2>4. \A d : Has(FlattenSeq(v), d) <=> Has(FlattenSeq(p), d) \/ Has(c, d)
    BY <2>3, ConcatSays
  <2>5. \A d : Has(FlattenSeq(p), d) <=> \E i \in 1..Len(p) : Has(p[i], d)
    BY <1>2
  <2>6. \A i : i \in 1..Len(v) <=> i \in 1..Len(p) \/ i = Len(p) + 1
    BY <2>2
  <2>7. Same(v)
    BY <2>2, <2>4, <2>5, <2>6
  <2> HIDE DEF Same
  <2> QED
    BY <2>1, <2>2, <2>7
<1>3. \A p \in Seq(Seq(S)) : p \in T
  <2> HIDE DEF T
  <2> QED
    BY <1>1, <1>2, GrowUp
<1> QED
  BY <1>3

LEMMA FlattenBegins ==
  ASSUME NEW S, NEW pieces \in Seq(Seq(S)),
         \A i \in 1..Len(pieces) : pieces[i] # <<>> /\ BeginsSolid(pieces[i])
  PROVE  BeginsSolid(FlattenSeq(pieces))
<1> DEFINE Solid(p) == \A i \in 1..Len(p) : p[i] # <<>> /\ BeginsSolid(p[i])
           T == {p \in Seq(Seq(S)) : Solid(p) => BeginsSolid(FlattenSeq(p))}
<1>1. <<>> \in T
  <2>1. BeginsSolid(FlattenSeq(<<>>))
    BY DEF FlattenSeq, BeginsSolid
  <2> HIDE DEF Solid
  <2> QED
    BY <2>1, EmptySeq
<1>2. ASSUME NEW p \in Seq(Seq(S)), NEW c \in Seq(S), p \in T PROVE Append(p, c) \in T
  <2>1. PICK v : v = Append(p, c)
    OBVIOUS
  <2>2. /\ v \in Seq(Seq(S)) /\ Len(p) \in Nat /\ Len(v) = Len(p) + 1
        /\ \A i \in 1..Len(p) : v[i] = p[i]
        /\ v[Len(p) + 1] = c
    BY <2>1, Appended
  <2>3. FlattenSeq(v) = FlattenSeq(p) \o c /\ FlattenSeq(p) \in Seq(S)
    BY <2>1, FlattenAppend, FlattenType
  <2>4. ASSUME Solid(v) PROVE BeginsSolid(FlattenSeq(v))
    <3>1. Solid(p)
      <4> SUFFICES ASSUME NEW i \in 1..Len(p) PROVE p[i] # <<>> /\ BeginsSolid(p[i])
        OBVIOUS
      <4>1. i \in 1..Len(v) /\ v[i] = p[i]
        BY <2>2
      <4> QED
        BY <2>4, <4>1
    <3>2. c # <<>> /\ BeginsSolid(c)
      <4>1. Len(p) + 1 \in 1..Len(v)
        BY <2>2
      <4> QED
        BY <2>2, <2>4, <4>1
    <3>3. BeginsSolid(FlattenSeq(p))
      <4> HIDE DEF Solid
      <4> QED
        BY <1>2, <3>1
    <3>4. FlattenSeq(p) = <<>> => FlattenSeq(v) = c
      BY <2>3
    <3> HIDE DEF Solid
    <3> QED
      BY <2>3, <3>2, <3>3, <3>4, ConcatSays
  <2> HIDE DEF Solid
  <2> QED
    BY <2>1, <2>2, <2>4
<1>3. \A p \in Seq(Seq(S)) : p \in T
  <2> HIDE DEF T
  <2> QED
    BY <1>1, <1>2, GrowUp
<1> QED
  BY <1>3

LEMMA ToSetHas ==
  ASSUME NEW S, NEW text \in Seq(S), NEW c
  PROVE  c \in ToSet(text) <=> Has(text, c)
BY DEF ToSet, Has

LEMMA SuffixOfConcat ==
  ASSUME NEW W, NEW a \in Seq(W), NEW b \in Seq(W)
  PROVE  IsSuffix(b, a \o b)
<1>1. PICK v : v = a \o b
  OBVIOUS
<1>2. PICK n \in Nat : n = Len(b)
  OBVIOUS
<1>3. /\ Len(a) \in Nat /\ v \in Seq(W) /\ Len(v) = Len(a) + n
      /\ \A i \in 1..n : v[Len(a) + i] = b[i]
  BY <1>1, <1>2
<1>4. PICK r, s : r = Reverse(b) /\ s = Reverse(v)
  OBVIOUS
<1>5. r \in Seq(W) /\ Len(r) = n /\ \A i \in 1..n : r[i] = b[(n - i) + 1]
  <2>1. \A i \in 1..n : b[(n - i) + 1] \in W
    BY <1>2
  <2> QED
    BY <1>2, <1>4, <2>1 DEF Reverse
<1>6. s \in Seq(W) /\ Len(s) = Len(a) + n /\ \A i \in 1..n : s[i] = v[((Len(a) + n) - i) + 1]
  <2>1. \A i \in 1..(Len(a) + n) : v[((Len(a) + n) - i) + 1] \in W
    BY <1>3
  <2> QED
    BY <1>3, <1>4, <2>1 DEF Reverse
<1>7. \A i \in 1..n : s[i] = r[i]
  <2> TAKE i \in 1..n
  <2>1. (n - i) + 1 \in 1..n /\ Len(a) + ((n - i) + 1) = ((Len(a) + n) - i) + 1
    BY <1>3
  <2> QED
    BY <1>3, <1>5, <1>6, <2>1
<1>8. SubSeq(r, 1, n) = SubSeq(s, 1, n)
  BY <1>5, <1>6, <1>7
<1> QED
  BY <1>1, <1>3, <1>4, <1>5, <1>6, <1>8 DEF IsSuffix, IsPrefix
-----------------------------------------------------------------------------
(* The prompt of an LLM worker. *)

Role == {"system", "user", "assistant"}
PromptTokens == Content \cup Role \cup {"INSTRUCTION", "FACTS", "GUARDRAILS", "QUESTION"}
ChatMessage == [role : Role, content : Seq(Content)]
Messages == Seq(ChatMessage)

MessageLine(m) == <<m.role, "s">> \o m.content \o <<"n">>

LEMMA MessageLineSays ==
  ASSUME NEW m \in ChatMessage
  PROVE  /\ MessageLine(m) \in Seq(PromptTokens) /\ MessageLine(m) # <<>> /\ BeginsSolid(MessageLine(m))
         /\ Has(MessageLine(m), "k") <=> Has(m.content, "k")
         /\ ~Has(MessageLine(m), "FACTS")
<1>1. PICK r \in Role : r = m.role
  BY DEF ChatMessage
<1>2. PICK c \in Seq(Content) : c = m.content
  BY DEF ChatMessage
<1>3. /\ <<r, "s">> \in Seq(PromptTokens) /\ <<"n">> \in Seq(PromptTokens) /\ <<r, "s">> # <<>>
      /\ r \notin White /\ r # "k" /\ r # "FACTS"
  BY DEF PromptTokens, Content, White, Role
<1>4. c \in Seq(PromptTokens)
  BY SeqMonotonic DEF PromptTokens
<1>5. BeginsSolid(<<r, "s">>)
  BY <1>3 DEF BeginsSolid
<1>6. \A d : Has(<<r, "s">>, d) <=> d = r \/ d = "s"
  BY DEF Has
<1>7. \A d : Has(<<"n">>, d) <=> d = "n"
  BY DEF Has
<1>8. ~Has(c, "FACTS")
  BY DEF Has, Content, White
<1>9. PICK u \in Seq(PromptTokens) : u = <<r, "s">> \o c
  BY <1>3, <1>4, ConcatSays
<1>10. u # <<>> /\ BeginsSolid(u) /\ \A d : Has(u, d) <=> Has(<<r, "s">>, d) \/ Has(c, d)
  BY <1>3, <1>4, <1>5, <1>9, ConcatSays
<1>11. PICK v \in Seq(PromptTokens) : v = u \o <<"n">>
  BY <1>3, ConcatSays
<1>12. v # <<>> /\ BeginsSolid(v) /\ \A d : Has(v, d) <=> Has(u, d) \/ Has(<<"n">>, d)
  BY <1>3, <1>10, <1>11, ConcatSays
<1>13. MessageLine(m) = v
  BY <1>1, <1>2, <1>9, <1>11 DEF MessageLine
<1>14. Has(v, "k") <=> Has(c, "k")
  BY <1>3, <1>6, <1>7, <1>10, <1>12
<1>15. ~Has(v, "FACTS")
  BY <1>3, <1>6, <1>7, <1>8, <1>10, <1>12
<1> QED
  BY <1>2, <1>12, <1>13, <1>14, <1>15

LEMMA RenderedSays ==
  ASSUME NEW messages \in Messages
  PROVE  /\ RenderPrompt(messages) \in Seq(PromptTokens) /\ RenderPrompt(messages) # <<>>
         /\ BeginsSolid(RenderPrompt(messages)) /\ ~EndsWhite(RenderPrompt(messages))
         /\ Has(RenderPrompt(messages), "k") <=>
              \E i \in DOMAIN messages : Has(messages[i].content, "k")
         /\ ~Has(RenderPrompt(messages), "FACTS")
<1>1. PICK pieces : pieces = [i \in DOMAIN messages |-> MessageLine(messages[i])]
  OBVIOUS
<1>2. PICK n \in Nat : n = Len(messages) /\ DOMAIN messages = 1..n
  BY DEF Messages
<1>3. ASSUME NEW i \in 1..n
      PROVE  /\ pieces[i] \in Seq(PromptTokens) /\ pieces[i] # <<>> /\ BeginsSolid(pieces[i])
             /\ Has(pieces[i], "k") <=> Has(messages[i].content, "k")
             /\ ~Has(pieces[i], "FACTS")
  <2>1. messages[i] \in ChatMessage
    BY <1>2 DEF Messages
  <2>2. pieces[i] = MessageLine(messages[i])
    BY <1>1, <1>2
  <2> QED
    BY <2>1, <2>2, MessageLineSays
<1>4. pieces \in Seq(Seq(PromptTokens)) /\ Len(pieces) = n
  <2>1. pieces = [i \in 1..n |-> pieces[i]]
    BY <1>1, <1>2
  <2> QED
    BY <1>3, <2>1
<1>5. PICK body \in Seq(PromptTokens) : body = FlattenSeq(pieces)
  BY <1>4, FlattenType
<1>6. BeginsSolid(body)
  BY <1>3, <1>4, <1>5, FlattenBegins
<1>7. \A d : Has(body, d) <=> \E i \in 1..n : Has(pieces[i], d)
  BY <1>4, <1>5, FlattenHas
<1>8. <<"assistant">> \in Seq(PromptTokens) /\ <<"assistant">> # <<>>
  BY DEF PromptTokens, Role
<1>9. /\ BeginsSolid(<<"assistant">>) /\ ~EndsWhite(<<"assistant">>)
      /\ \A d : Has(<<"assistant">>, d) <=> d = "assistant"
  BY DEF BeginsSolid, EndsWhite, Has, White
<1>10. PICK v \in Seq(PromptTokens) : v = body \o <<"assistant">>
  BY <1>8, ConcatSays
<1>11. /\ v # <<>> /\ ~EndsWhite(v)
       /\ \A d : Has(v, d) <=> Has(body, d) \/ Has(<<"assistant">>, d)
  BY <1>8, <1>9, <1>10, ConcatSays
<1>12. BeginsSolid(v)
  <2>1. CASE body = <<>>
    <3>1. v = <<"assistant">>
      BY <1>8, <1>10, <2>1
    <3> QED
      BY <1>9, <3>1
  <2>2. CASE body # <<>>
    BY <1>6, <1>8, <1>10, <2>2, ConcatSays
  <2> QED
    BY <2>1, <2>2
<1>13. RenderPrompt(messages) = v
  BY <1>1, <1>5, <1>10 DEF RenderPrompt, MessageLine
<1>14. Has(v, "k") <=> \E i \in 1..n : Has(messages[i].content, "k")
  BY <1>3, <1>7, <1>9, <1>11
<1>15. ~Has(v, "FACTS")
  BY <1>3, <1>7, <1>9, <1>11
<1> QED
  BY <1>2, <1>11, <1>12, <1>13, <1>14, <1>15

\* Normalizing a text that has no white space at its ends.
LEMMA NormalizedSays ==
  ASSUME NEW text \in Seq(PromptTokens), text # <<>>, BeginsSolid(text), ~EndsWhite(text)
  PROVE  /\ NormalizePromptLine(text) \in Seq(PromptTokens) /\ Kept(text)
         /\ NormalizePromptLine(text) = Line(text)
<1>1. Stripped(text) = text
  BY StrippedIsSame
<1>2. "s" \in PromptTokens
  BY DEF PromptTokens, Content, White
<1> QED
  BY <1>1, <1>2, NormalizedIsLine, LineKeepsWords

\* The code's own words before the prompt.
Heading(facts) == <<"INSTRUCTION", "s">> \o facts \o <<"QUESTION">>

LEMMA HeadingSays ==
  ASSUME NEW facts, facts \in {<<>>, <<"FACTS", "s", "GUARDRAILS", "s">>}
  PROVE  /\ Heading(facts) \in Seq(PromptTokens) /\ Heading(facts) # <<>>
         /\ BeginsSolid(Heading(facts)) /\ ~EndsWhite(Heading(facts))
         /\ Has(Heading(facts), "FACTS") <=> facts # <<>>
<1>1. /\ <<"INSTRUCTION", "s">> \in Seq(PromptTokens) /\ <<"QUESTION">> \in Seq(PromptTokens) /\ facts \in Seq(PromptTokens)
      /\ <<"INSTRUCTION", "s">> # <<>> /\ <<"QUESTION">> # <<>>
  <2>1. /\ "INSTRUCTION" \in PromptTokens /\ "QUESTION" \in PromptTokens /\ "FACTS" \in PromptTokens
        /\ "GUARDRAILS" \in PromptTokens /\ "s" \in PromptTokens
    BY DEF PromptTokens, Content, White
  <2>2. <<"INSTRUCTION", "s">> \in Seq(PromptTokens) /\ <<"QUESTION">> \in Seq(PromptTokens)
    BY <2>1
  <2>3. <<"FACTS", "s", "GUARDRAILS", "s">> \in Seq(PromptTokens)
    BY <2>1
  <2>4. <<>> \in Seq(PromptTokens)
    OBVIOUS
  <2> QED
    BY <2>2, <2>3, <2>4
<1>2. BeginsSolid(<<"INSTRUCTION", "s">>) /\ ~EndsWhite(<<"QUESTION">>)
  BY DEF BeginsSolid, EndsWhite, White
<1>3. ~Has(<<"INSTRUCTION", "s">>, "FACTS") /\ ~Has(<<"QUESTION">>, "FACTS")
  BY DEF Has
<1>4. Has(facts, "FACTS") <=> facts # <<>>
  <2>1. CASE facts = <<>>
    BY <2>1 DEF Has
  <2>2. CASE facts = <<"FACTS", "s", "GUARDRAILS", "s">>
    <3>1. 1 \in DOMAIN facts /\ facts[1] = "FACTS"
      BY <2>2
    <3> QED
      BY <2>2, <3>1 DEF Has
  <2> QED
    BY <2>1, <2>2
<1>5. PICK u \in Seq(PromptTokens) : u = <<"INSTRUCTION", "s">> \o facts
  BY <1>1, ConcatSays
<1>6. u # <<>> /\ BeginsSolid(u) /\ (Has(u, "FACTS") <=> facts # <<>>)
  <2>1. PICK first \in Seq(PromptTokens) : first = <<"INSTRUCTION", "s">>
    BY <1>1
  <2>2. first # <<>> => first \o facts # <<>> /\ (BeginsSolid(first \o facts) <=> BeginsSolid(first))
    BY <1>1, ConcatSays
  <2>3. Has(first \o facts, "FACTS") <=> Has(first, "FACTS") \/ Has(facts, "FACTS")
    BY <1>1, ConcatSays
  <2> QED
    BY <1>1, <1>2, <1>3, <1>4, <1>5, <2>1, <2>2, <2>3
<1>7. PICK v \in Seq(PromptTokens) : v = u \o <<"QUESTION">>
  BY <1>1, ConcatSays
<1>8. v # <<>> /\ BeginsSolid(v) /\ ~EndsWhite(v) /\ (Has(v, "FACTS") <=> facts # <<>>)
  BY <1>1, <1>2, <1>3, <1>6, <1>7, ConcatSays
<1> QED
  BY <1>5, <1>7, <1>8 DEF Heading

(***************************************************************************)
(* A chat of any number of messages of any length is sent to the worker in *)
(* one line, which ends in the words of all messages, in order and as far  *)
(* apart as they were, and tells the facts if a keyword is among them.     *)
(***************************************************************************)
THEOREM PromptsAreAlwaysOneLine ==
  ASSUME NEW messages \in Messages
  PROVE  PromptIsOneLine(messages)
<1>1. PICK R : R = RenderPrompt(messages)
  OBVIOUS
<1>2. /\ R \in Seq(PromptTokens) /\ R # <<>> /\ BeginsSolid(R) /\ ~EndsWhite(R)
      /\ Has(R, "k") <=> \E i \in DOMAIN messages : Has(messages[i].content, "k")
      /\ ~Has(R, "FACTS")
  BY <1>1, RenderedSays
<1>3. PICK line : line = NormalizePromptLine(R)
  OBVIOUS
<1>4. line \in Seq(PromptTokens) /\ Kept(R) /\ line = Line(R)
  BY <1>2, <1>3, NormalizedSays
<1>5. /\ Words(line) = Words(R) /\ line # <<>> /\ ~EndsWhite(line)
      /\ Has(line, "k") <=> Has(R, "k")
      /\ ~Has(line, "FACTS")
  <2>1. "k" \notin White /\ "FACTS" \notin White
    BY DEF White
  <2> QED
    BY <1>2, <1>4, <2>1 DEF Kept
<1>6. PICK facts : facts = IF ShouldInjectRk3588Facts(line) THEN <<"FACTS", "s", "GUARDRAILS", "s">> ELSE <<>>
  OBVIOUS
<1>7. facts \in {<<>>, <<"FACTS", "s", "GUARDRAILS", "s">>} /\ (facts # <<>> <=> Has(line, "k"))
  <2>1. ShouldInjectRk3588Facts(line) <=> Has(line, "k")
    BY <1>4, ToSetHas DEF ShouldInjectRk3588Facts
  <2> QED
    BY <1>6, <2>1
<1>8. PICK head : head = Heading(facts)
  OBVIOUS
<1>9. /\ head \in Seq(PromptTokens) /\ head # <<>> /\ BeginsSolid(head) /\ ~EndsWhite(head)
      /\ Has(head, "FACTS") <=> facts # <<>>
  BY <1>7, <1>8, HeadingSays
<1>10. PICK whole : whole = head \o line
  OBVIOUS
<1>11. /\ whole \in Seq(PromptTokens) /\ whole # <<>> /\ BeginsSolid(whole) /\ ~EndsWhite(whole)
       /\ Has(whole, "FACTS") <=> Has(head, "FACTS") \/ Has(line, "FACTS")
  BY <1>4, <1>5, <1>9, <1>10, ConcatSays
<1>12. Words(whole) = Words(head) \o Words(line)
  BY <1>4, <1>9, <1>10, WordsConcat
<1>13. PICK sent : sent = BuildServingPrompt(R)
  OBVIOUS
<1>14. sent = NormalizePromptLine(whole)
  BY <1>3, <1>6, <1>8, <1>10, <1>13 DEF BuildServingPrompt, Heading
<1>15. sent \in Seq(PromptTokens) /\ Kept(whole) /\ sent = Line(whole)
  BY <1>11, <1>14, NormalizedSays
<1>16. Positions(sent, White \ {"s"}) = {}
  BY <1>15 DEF Kept, SpacesOnly, Positions
<1>17. IsSuffix(Words(R), Words(sent))
  <2> DEFINE W == [word : PromptTokens, apart : BOOLEAN]
  <2>1. "s" \in PromptTokens
    BY DEF PromptTokens, Content, White
  <2>2. Words(head) \in Seq(W) /\ Words(R) \in Seq(W)
    BY <1>2, <1>9, <2>1, WordsAppend
  <2>3. Words(sent) = Words(head) \o Words(R)
    BY <1>5, <1>12, <1>15 DEF Kept
  <2> HIDE DEF W
  <2> QED
    BY <2>2, <2>3, SuffixOfConcat
<1>18. "FACTS" \in ToSet(sent) <=> \E i \in DOMAIN messages : "k" \in ToSet(messages[i].content)
  <2>1. "FACTS" \in ToSet(sent) <=> Has(sent, "FACTS")
    BY <1>15, ToSetHas
  <2>2. Has(sent, "FACTS") <=> Has(whole, "FACTS")
    <3>1. "FACTS" \notin White
      BY DEF White
    <3> QED
      BY <1>15, <3>1 DEF Kept
  <2>3. ASSUME NEW i \in DOMAIN messages
        PROVE  "k" \in ToSet(messages[i].content) <=> Has(messages[i].content, "k")
    BY DEF ToSet, Has
  <2> QED
    BY <1>2, <1>5, <1>7, <1>9, <1>11, <2>1, <2>2, <2>3
<1> QED
  BY <1>1, <1>13, <1>16, <1>17, <1>18 DEF PromptIsOneLine
-----------------------------------------------------------------------------
(* The request line of the Qwen3-VL worker. *)

\* Where a text is cut: at its first and last characters that are no white
\* space, which two texts with white space in the same places share.
LEMMA CutExists ==
  ASSUME NEW S, NEW text \in Seq(S)
  PROVE  \E from, to \in 0..Len(text) + 1 :
           /\ \/ from = 1 /\ to = 0 /\ \A i \in DOMAIN text : text[i] \in White
              \/ /\ from \in DOMAIN text /\ to \in DOMAIN text
                 /\ text[from] \notin White /\ text[to] \notin White
                 /\ \A i \in DOMAIN text : text[i] \notin White => from <= i /\ i <= to
           /\ \A other : (/\ DOMAIN other = DOMAIN text
                          /\ \A i \in DOMAIN text : other[i] \in White <=> text[i] \in White)
                         => Stripped(other) = SubSeq(other, from, to)
<1> DEFINE solid == {i \in DOMAIN text : text[i] \notin White}
           lowest(X) == IF X = {} THEN 1 ELSE CHOOSE i \in X : \A j \in X : i <= j
           highest(X) == IF X = {} THEN 0 ELSE CHOOSE i \in X : \A j \in X : j <= i
           from == lowest(solid)
           to == highest(solid)
<1>1. Len(text) \in Nat /\ DOMAIN text = 1..Len(text)
  OBVIOUS
<1>2. ASSUME NEW other, DOMAIN other = DOMAIN text,
             \A i \in DOMAIN text : other[i] \in White <=> text[i] \in White
      PROVE  Stripped(other) = SubSeq(other, from, to)
  <2>1. PICK X : X = {i \in DOMAIN other : other[i] \notin White}
    OBVIOUS
  <2>2. X = solid
    BY <1>2, <2>1
  <2>3. Stripped(other) = SubSeq(other, lowest(X), highest(X))
    BY <2>1 DEF Stripped
  <2> HIDE DEF solid, lowest, highest
  <2> QED
    BY <2>2, <2>3
<1>3. CASE solid = {}
  <2>1. from = 1 /\ to = 0 /\ from \in 0..Len(text) + 1 /\ to \in 0..Len(text) + 1
    BY <1>1, <1>3
  <2>2. \A i \in DOMAIN text : text[i] \in White
    BY <1>3
  <2> HIDE DEF from, to, solid
  <2> QED
    BY <1>2, <2>1, <2>2
<1>4. CASE solid # {}
  <2>1. \A j \in solid : j \in 1..Len(text)
    BY <1>1
  <2>2. \E i \in solid : \A j \in solid : i <= j
    <3>1. solid \in SUBSET Nat
      BY <2>1
    <3> HIDE DEF solid
    <3> QED
      BY <1>4, <3>1, FirstIsFirst
  <2>3. \E i \in solid : \A j \in solid : j <= i
    <3> DEFINE back == {m \in 0..Len(text) : Len(text) - m \in solid}
    <3>1. back \in SUBSET Nat
      OBVIOUS
    <3>2. back # {}
      <4>1. PICK j \in solid : TRUE
        BY <1>4
      <4>2. Len(text) - j \in 0..Len(text) /\ Len(text) - (Len(text) - j) = j
        BY <1>1, <2>1
      <4> HIDE DEF solid
      <4>3. Len(text) - j \in back
        BY <4>1, <4>2
      <4> QED
        BY <4>3
    <3>3. PICK m \in back : \A l \in back : m <= l
      <4> HIDE DEF back
      <4> QED
        BY <3>1, <3>2, FirstIsFirst
    <3> HIDE DEF solid
    <3>4. Len(text) - m \in solid /\ m \in 0..Len(text)
      BY <3>3
    <3>5. ASSUME NEW j \in solid PROVE j <= Len(text) - m
      <4>1. Len(text) - j \in 0..Len(text) /\ Len(text) - (Len(text) - j) = j
        BY <1>1, <2>1
      <4>2. Len(text) - j \in back
        BY <4>1
      <4>3. m <= Len(text) - j
        BY <3>3, <4>2
      <4> QED
        BY <1>1, <2>1, <3>4, <4>3
    <3> QED
      BY <3>4, <3>5
  <2>4. /\ from \in solid /\ \A j \in solid : from <= j
        /\ to \in solid /\ \A j \in solid : j <= to
    <3> HIDE DEF solid
    <3> QED
      BY <1>4, <2>2, <2>3
  <2>5. /\ from \in 0..Len(text) + 1 /\ to \in 0..Len(text) + 1
        /\ from \in DOMAIN text /\ to \in DOMAIN text
    <3> HIDE DEF solid, from, to
    <3> QED
      BY <1>1, <2>1, <2>4
  <2>6. text[from] \notin White /\ text[to] \notin White
    <3> HIDE DEF from, to
    <3> QED
      BY <2>4
  <2>7. \A i \in DOMAIN text : text[i] \notin White => from <= i /\ i <= to
    <3> HIDE DEF from, to
    <3> QED
      BY <2>4
  <2> HIDE DEF from, to, solid
  <2> QED
    BY <1>2, <2>5, <2>6, <2>7
<1> QED
  BY <1>3, <1>4

\* Every white space made a space.
Spaced(text) == [i \in DOMAIN text |-> IF text[i] \in White THEN "s" ELSE text[i]]

LEMMA SpacedSays ==
  ASSUME NEW S, "s" \in S, NEW text \in Seq(S)
  PROVE  /\ Spaced(text) \in Seq(S) /\ SpacesOnly(Spaced(text))
         /\ Words(Spaced(text)) = Words(text)
         /\ \A c : c \notin White => (Has(Spaced(text), c) <=> Has(text, c))
<1>1. PICK n \in Nat : n = Len(text) /\ DOMAIN text = 1..n
  OBVIOUS
<1>2. \A i \in 1..n : text[i] \in S
  BY <1>1
<1>3. PICK v : v = Spaced(text)
  OBVIOUS
<1>4. "s" \in White
  BY DEF White
<1>5. DOMAIN v = 1..n /\ \A i \in 1..n : v[i] = IF text[i] \in White THEN "s" ELSE text[i]
  BY <1>1, <1>3 DEF Spaced
<1>6. v \in Seq(S)
  <2>1. v = [i \in 1..n |-> v[i]] /\ \A i \in 1..n : v[i] \in S
    BY <1>1, <1>2, <1>3, <1>5 DEF Spaced
  <2> QED
    BY <2>1
<1>7. SpacesOnly(v)
  BY <1>5 DEF SpacesOnly
<1>8. \A i \in 1..n : (v[i] \in White <=> text[i] \in White) /\ (v[i] \notin White => v[i] = text[i])
  BY <1>4, <1>5
<1>9. \A c : c \notin White => (Has(v, c) <=> Has(text, c))
  BY <1>1, <1>5, <1>8 DEF Has
<1>10. Words(v) = Words(text)
  <2>1. ASSUME NEW i \in 1..n PROVE WordPiece(v, i) = WordPiece(text, i)
    <3>1. i > 1 => i - 1 \in 1..n
      BY <1>1
    <3>2. (i > 1 /\ v[i - 1] \in White) = (i > 1 /\ text[i - 1] \in White)
      BY <1>8, <3>1
    <3> QED
      BY <1>8, <3>2 DEF WordPiece
  <2>2. [i \in DOMAIN v |-> WordPiece(v, i)] = [i \in DOMAIN text |-> WordPiece(text, i)]
    BY <1>1, <1>5, <2>1
  <2>3. Words(v) = FlattenSeq([i \in DOMAIN v |-> WordPiece(v, i)])
    BY DEF Words, WordPiece
  <2>4. Words(text) = FlattenSeq([i \in DOMAIN text |-> WordPiece(text, i)])
    BY DEF Words, WordPiece
  <2> QED
    BY <2>2, <2>3, <2>4
<1> QED
  BY <1>3, <1>6, <1>7, <1>9, <1>10

LEMMA StrippedSays ==
  ASSUME NEW S, "s" \in S, NEW text \in Seq(S)
  PROVE  /\ Stripped(text) \in Seq(S)
         /\ Stripped(text) # <<>> => Stripped(text)[1] \notin White
         /\ \A c : c \notin White => (Has(Stripped(text), c) <=> Has(text, c))
         /\ SanitizeRequestField(text) = Spaced(Stripped(text))
<1>1. PICK n \in Nat : n = Len(text) /\ DOMAIN text = 1..n
  OBVIOUS
<1>2. PICK from, to \in 0..Len(text) + 1 :
        /\ \/ from = 1 /\ to = 0 /\ \A i \in DOMAIN text : text[i] \in White
           \/ /\ from \in DOMAIN text /\ to \in DOMAIN text
              /\ text[from] \notin White /\ text[to] \notin White
              /\ \A i \in DOMAIN text : text[i] \notin White => from <= i /\ i <= to
        /\ \A other : (/\ DOMAIN other = DOMAIN text
                       /\ \A i \in DOMAIN text : other[i] \in White <=> text[i] \in White)
                      => Stripped(other) = SubSeq(other, from, to)
  BY CutExists
<1>3. PICK m \in Nat : m = IF from <= to THEN (to - from) + 1 ELSE 0
  <2>1. (IF from <= to THEN (to - from) + 1 ELSE 0) \in Nat
    BY <1>1
  <2> QED
    BY <2>1
<1>4. \A i \in 1..m : (from + i) - 1 \in 1..n
  BY <1>1, <1>2, <1>3
<1>5. PICK t : t = Stripped(text)
  OBVIOUS
<1>6. t = SubSeq(text, from, to)
  BY <1>2, <1>5
<1>7. t \in Seq(S) /\ Len(t) = m /\ DOMAIN t = 1..m /\ \A i \in 1..m : t[i] = text[(from + i) - 1]
  BY <1>1, <1>2, <1>3, <1>4, <1>6
<1>8. t # <<>> => t[1] \notin White
  <2>1. SUFFICES ASSUME t # <<>> PROVE t[1] \notin White
    OBVIOUS
  <2>2. m # 0
    BY <1>7, <2>1, EmptySeq
  <2>3. from <= to
    BY <1>3, <2>2
  <2>4. text[from] \notin White
    BY <1>2, <2>3
  <2>5. 1 \in 1..m /\ (from + 1) - 1 = from
    BY <1>1, <2>2
  <2>6. t[1] = text[(from + 1) - 1]
    BY <1>7, <2>5
  <2> QED
    BY <2>4, <2>5, <2>6
<1>9. ASSUME NEW c, c \notin White PROVE Has(t, c) <=> Has(text, c)
  <2>1. ASSUME Has(t, c) PROVE Has(text, c)
    BY <1>1, <1>4, <1>7, <2>1 DEF Has
  <2>2. ASSUME Has(text, c) PROVE Has(t, c)
    <3>1. PICK i \in 1..n : text[i] = c
      BY <1>1, <2>2 DEF Has
    <3>2. from <= i /\ i <= to
      BY <1>1, <1>2, <1>9, <3>1
    <3>3. (i - from) + 1 \in 1..m /\ (from + ((i - from) + 1)) - 1 = i
      BY <1>1, <1>2, <1>3, <3>2
    <3> QED
      BY <1>7, <3>1, <3>3 DEF Has
  <2> QED
    BY <2>1, <2>2
<1>10. SanitizeRequestField(text) = Spaced(t)
  <2>1. PICK v : v = Spaced(text)
    OBVIOUS
  <2>2. "s" \in White
    BY DEF White
  <2>3. DOMAIN v = 1..n /\ \A i \in 1..n : v[i] = IF text[i] \in White THEN "s" ELSE text[i]
    BY <1>1, <2>1 DEF Spaced
  <2>4. Stripped(v) = SubSeq(v, from, to)
    BY <1>1, <1>2, <2>2, <2>3
  <2>5. v \in Seq(S)
    BY <2>1, SpacedSays
  <2>6. Len(v) = n
    BY <1>1, <2>3, <2>5
  <2>7. PICK w : w = SubSeq(v, from, to)
    OBVIOUS
  <2>8. w \in Seq(S) /\ Len(w) = m /\ \A i \in 1..m : w[i] = v[(from + i) - 1]
    <3>1. from \in Int /\ to \in Int /\ \A i \in from..to : i \in 1..n
      BY <1>1, <1>2
    <3>2. \A i \in from..to : v[i] \in S
      BY <2>5, <2>6, <3>1
    <3>3. w \in Seq(S) /\ Len(w) = m
      BY <1>3, <2>7, <3>1, <3>2, SubSeqProperties
    <3>4. \A i \in 1..m : w[i] = v[(from + i) - 1]
      <4> TAKE i \in 1..m
      <4>1. i \in 1..((to - from) + 1)
        BY <1>3
      <4> QED
        BY <2>7, <3>1, <4>1
    <3> QED
      BY <3>3, <3>4
  <2>9. Spaced(t) \in Seq(S) /\ Len(Spaced(t)) = m
        /\ \A i \in 1..m : Spaced(t)[i] = IF t[i] \in White THEN "s" ELSE t[i]
    BY <1>7, SpacedSays DEF Spaced
  <2>10. \A i \in 1..m : w[i] = Spaced(t)[i]
    BY <1>4, <1>7, <2>3, <2>8, <2>9
  <2>11. w = Spaced(t)
    BY <2>8, <2>9, <2>10, SeqEqual
  <2>12. SanitizeRequestField(text) = Stripped(v)
    BY <2>1 DEF SanitizeRequestField, Spaced
  <2> QED
    BY <2>4, <2>7, <2>11, <2>12
<1> QED
  BY <1>5, <1>7, <1>8, <1>9, <1>10

Letters == Content \cup {"DESCRIBE"}

\* The question asks about the image, and asks something.
LEMMA QuestionSays ==
  ASSUME NEW prompt \in Seq(Content), NEW q, q = NormalizePrompt(prompt)
  PROVE  /\ q \in Seq(Letters) /\ Has(q, "i")
         /\ ~Has(prompt, "i") => \E c : c \notin White /\ c # "i" /\ Has(q, c)
<1>1. "s" \in Content /\ "i" \notin White /\ "DESCRIBE" \notin White
  BY DEF Content, White
<1>2. PICK given \in Seq(Content) : given = Stripped(prompt)
  BY <1>1, StrippedSays
<1>3. /\ given # <<>> => given[1] \notin White
      /\ \A c : c \notin White => (Has(given, c) <=> Has(prompt, c))
  BY <1>1, <1>2, StrippedSays
<1>4. PICK words : words = IF given = <<>> THEN <<"DESCRIBE">> ELSE given
  OBVIOUS
<1>5. words \in Seq(Letters)
  <2>1. given \in Seq(Letters)
    BY SeqMonotonic DEF Letters
  <2>2. <<"DESCRIBE">> \in Seq(Letters)
    BY DEF Letters
  <2> QED
    BY <1>4, <2>1, <2>2
<1>6. ~Has(prompt, "i") => \E c : c \notin White /\ c # "i" /\ Has(words, c)
  <2>1. CASE given = <<>>
    <3>1. Has(words, "DESCRIBE")
      BY <1>4, <2>1 DEF Has
    <3> QED
      BY <1>1, <3>1
  <2>2. CASE given # <<>>
    <3>1. Has(given, given[1])
      <4>1. 1 \in DOMAIN given
        BY <2>2, EmptySeq
      <4> QED
        BY <4>1 DEF Has
    <3>2. given[1] = "i" => Has(prompt, "i")
      BY <1>1, <1>3, <3>1
    <3> QED
      BY <1>3, <1>4, <2>2, <3>1, <3>2
  <2> QED
    BY <2>1, <2>2
<1>7. <<"i", "s">> \in Seq(Letters) /\ Has(<<"i", "s">>, "i")
  <2>1. "i" \in Letters /\ "s" \in Letters
    BY DEF Letters, Content, White
  <2>2. Has(<<"i", "s">>, "i")
    <3>1. 1 \in DOMAIN <<"i", "s">> /\ <<"i", "s">>[1] = "i"
      OBVIOUS
    <3> QED
      BY <3>1 DEF Has
  <2> QED
    BY <2>1, <2>2
<1>8. CASE "i" \in ToSet(words)
  <2>1. q = words
    BY <1>2, <1>4, <1>8 DEF NormalizePrompt
  <2>2. Has(q, "i")
    BY <1>5, <1>8, <2>1, ToSetHas
  <2> QED
    BY <1>5, <1>6, <2>1, <2>2
<1>9. CASE "i" \notin ToSet(words)
  <2>1. q = <<"i", "s">> \o words
    BY <1>2, <1>4, <1>9 DEF NormalizePrompt
  <2>2. q \in Seq(Letters) /\ \A c : Has(q, c) <=> Has(<<"i", "s">>, c) \/ Has(words, c)
    <3>1. PICK mark \in Seq(Letters) : mark = <<"i", "s">>
      BY <1>7
    <3>2. mark \o words \in Seq(Letters) /\ \A c : Has(mark \o words, c) <=> Has(mark, c) \/ Has(words, c)
      BY <1>5, ConcatSays
    <3> QED
      BY <2>1, <3>1, <3>2
  <2> QED
    BY <1>6, <1>7, <2>2
<1> QED
  BY <1>8, <1>9

(***************************************************************************)
(* The line written to the Qwen3-VL worker is one line of two fields, for  *)
(* paths and prompts of any length.                                        *)
(***************************************************************************)
THEOREM RequestLinesAlwaysHaveTwoFields ==
  ASSUME NEW imagePath \in Seq(Content), NEW prompt \in Seq(Content)
  PROVE  RequestLineHasTwoFields(imagePath, prompt)
<1>1. /\ "s" \in Content /\ "s" \in Letters /\ "t" \in Letters /\ "n" \in Letters
      /\ "i" \notin White /\ "t" \in White /\ "n" \in White /\ "r" \in White
  BY DEF Letters, Content, White
<1>2. PICK path \in Seq(Letters) : path = Stripped(imagePath)
  <2>1. Stripped(imagePath) \in Seq(Content)
    BY <1>1, StrippedSays
  <2> QED
    BY <2>1, SeqMonotonic DEF Letters
<1>3. PICK f \in Seq(Letters) : f = SanitizeRequestField(imagePath) /\ f = Spaced(path)
  <2>1. SanitizeRequestField(imagePath) = Spaced(path)
    BY <1>1, <1>2, StrippedSays
  <2>2. Spaced(path) \in Seq(Letters)
    BY <1>1, SpacedSays
  <2> QED
    BY <2>1, <2>2
<1>4. SpacesOnly(f) /\ Words(f) = Words(path)
  BY <1>1, <1>3, SpacedSays
<1>5. PICK q \in Seq(Letters) : q = NormalizePrompt(prompt)
  BY QuestionSays
<1>6. Has(q, "i") /\ (~Has(prompt, "i") => \E c : c \notin White /\ c # "i" /\ Has(q, c))
  BY <1>5, QuestionSays
<1>7. PICK u \in Seq(Letters) : u = Stripped(q)
  BY <1>1, StrippedSays
<1>8. PICK g \in Seq(Letters) : g = SanitizeRequestField(q) /\ g = Spaced(u)
  <2>1. SanitizeRequestField(q) = Spaced(u)
    BY <1>1, <1>7, StrippedSays
  <2>2. Spaced(u) \in Seq(Letters)
    BY <1>1, SpacedSays
  <2> QED
    BY <2>1, <2>2
<1>9. SpacesOnly(g) /\ \A c : c \notin White => (Has(g, c) <=> Has(q, c))
  <2>1. \A c : c \notin White => (Has(u, c) <=> Has(q, c))
    BY <1>1, <1>7, StrippedSays
  <2>2. SpacesOnly(g) /\ \A c : c \notin White => (Has(g, c) <=> Has(u, c))
    BY <1>1, <1>8, SpacedSays
  <2> QED
    BY <2>1, <2>2
<1>10. PICK line : line = RequestLine(imagePath, prompt)
  OBVIOUS
<1>11. PICK m, k \in Nat : m = Len(f) /\ k = Len(g)
  OBVIOUS
<1>12. /\ line \in Seq(Letters) /\ Len(line) = m + k + 2 /\ DOMAIN line = 1..(m + k + 2)
       /\ \A i \in 1..m : line[i] = f[i]
       /\ line[m + 1] = "t"
       /\ \A i \in 1..k : line[(m + 1) + i] = g[i]
       /\ line[m + k + 2] = "n"
  <2>1. line = ((f \o <<"t">>) \o g) \o <<"n">>
    BY <1>3, <1>5, <1>8, <1>10 DEF RequestLine
  <2>2. PICK a \in Seq(Letters) : a = f \o <<"t">>
    <3>1. <<"t">> \in Seq(Letters)
      BY <1>1
    <3>2. f \o <<"t">> \in Seq(Letters)
      BY <3>1, ConcatProperties
    <3> QED
      BY <3>2
  <2>3. /\ Len(a) = m + 1 /\ a[m + 1] = "t"
        /\ \A i \in 1..m : a[i] = f[i]
    BY <1>1, <1>11, <2>2
  <2>4. PICK b \in Seq(Letters) : b = a \o g
    <3>1. a \o g \in Seq(Letters)
      BY ConcatProperties
    <3> QED
      BY <3>1
  <2>5. /\ Len(b) = (m + 1) + k
        /\ \A i \in 1..(m + 1) : b[i] = a[i]
        /\ \A i \in 1..k : b[(m + 1) + i] = g[i]
    <3>1. PICK n \in Nat : n = m + 1
      OBVIOUS
    <3>2. n = Len(a)
      BY <2>3, <3>1
    <3>3. k = Len(g)
      BY <1>11
    <3>4. /\ Len(a \o g) = Len(a) + Len(g)
          /\ \A i \in 1..Len(a) : (a \o g)[i] = a[i]
          /\ \A i \in 1..Len(g) : (a \o g)[Len(a) + i] = g[i]
      BY ConcatPlaces
    <3> QED
      BY <2>4, <3>1, <3>2, <3>3, <3>4
  <2>6. line = b \o <<"n">>
    BY <2>1, <2>2, <2>4
  <2>7. /\ line \in Seq(Letters) /\ Len(line) = m + k + 2
        /\ \A i \in 1..(m + 1 + k) : line[i] = b[i]
        /\ line[m + k + 2] = "n"
    <3>1. PICK e \in Seq(Letters) : e = <<"n">> /\ Len(e) = 1 /\ e[1] = "n"
      <4>1. <<"n">> \in Seq(Letters)
        BY <1>1
      <4> QED
        BY <4>1
    <3>2. PICK n, one \in Nat : n = m + 1 + k /\ one = 1
      OBVIOUS
    <3>3. n = Len(b)
      BY <2>5, <3>2
    <3>4. one = Len(e)
      BY <3>1, <3>2
    <3>5. /\ b \o e \in Seq(Letters) /\ Len(b \o e) = Len(b) + Len(e)
          /\ \A i \in 1..Len(b) : (b \o e)[i] = b[i]
          /\ \A i \in 1..Len(e) : (b \o e)[Len(b) + i] = e[i]
      BY ConcatPlaces
    <3>6. n + one = m + k + 2 /\ one \in 1..one
      BY <3>2
    <3>7. line = b \o e
      BY <2>6, <3>1
    <3>8. line \in Seq(Letters) /\ Len(line) = m + k + 2
      BY <3>3, <3>4, <3>5, <3>6, <3>7
    <3>9. \A i \in 1..(m + 1 + k) : line[i] = b[i]
      BY <3>2, <3>3, <3>5, <3>7
    <3>10. line[n + one] = e[one]
      BY <3>3, <3>4, <3>5, <3>6, <3>7
    <3> QED
      BY <3>1, <3>2, <3>6, <3>8, <3>9, <3>10
  <2>8. \A i \in 1..m : line[i] = f[i]
    BY <2>3, <2>5, <2>7
  <2>9. line[m + 1] = "t"
    BY <2>3, <2>5, <2>7
  <2>10. \A i \in 1..k : line[(m + 1) + i] = g[i]
    BY <2>5, <2>7
  <2> QED
    BY <2>7, <2>8, <2>9, <2>10
<1>13. ASSUME NEW i \in 1..(m + k + 2), line[i] \in White
       PROVE  i = m + 1 \/ i = m + k + 2 \/ line[i] = "s"
  <2>1. CASE i \in 1..m
    <3>1. i \in DOMAIN f /\ line[i] = f[i]
      BY <1>11, <1>12, <2>1
    <3> QED
      BY <1>4, <1>13, <3>1 DEF SpacesOnly
  <2>2. CASE i > m + 1 /\ i < m + k + 2
    <3>1. i - (m + 1) \in 1..k /\ (m + 1) + (i - (m + 1)) = i
      BY <2>2
    <3>2. i - (m + 1) \in DOMAIN g /\ line[i] = g[i - (m + 1)]
      <4>1. line[(m + 1) + (i - (m + 1))] = g[i - (m + 1)]
        BY <1>12, <3>1
      <4>2. DOMAIN g = 1..k
        BY <1>11
      <4> QED
        BY <3>1, <4>1, <4>2
    <3> QED
      BY <1>13, <1>9, <3>2 DEF SpacesOnly
  <2> QED
    BY <2>1, <2>2
<1>14. "s" # "t" /\ "s" # "n" /\ "s" # "r" /\ "t" # "n" /\ "t" # "r" /\ m + 1 # m + k + 2
  OBVIOUS
<1>15. Positions(line, {"n", "r"}) = {Len(line)}
  <2>1. ASSUME NEW i \in 1..(m + k + 2), line[i] \in {"n", "r"} PROVE i = m + k + 2
    BY <1>1, <1>12, <1>13, <1>14, <2>1
  <2>2. m + k + 2 \in 1..(m + k + 2)
    OBVIOUS
  <2>3. \A i \in DOMAIN line : line[i] \in {"n", "r"} <=> i = m + k + 2
    BY <1>12, <2>1
  <2> QED
    BY <1>12, <2>2, <2>3 DEF Positions
<1>16. Positions(line, {"t"}) = {m + 1}
  <2>1. ASSUME NEW i \in 1..(m + k + 2), line[i] = "t" PROVE i = m + 1
    BY <1>1, <1>12, <1>13, <1>14, <2>1
  <2>2. m + 1 \in 1..(m + k + 2)
    OBVIOUS
  <2> QED
    BY <1>12, <2>1, <2>2 DEF Positions
<1>17. PICK tab : tab = (CHOOSE i \in Positions(line, {"t"}) : TRUE)
  OBVIOUS
<1>18. tab = m + 1
  BY <1>16, <1>17
<1>19. Words(SubSeq(line, 1, tab)) = Words(Stripped(imagePath))
  <2>1. PICK c \in Letters : c = "t"
    BY <1>1
  <2>2. SubSeq(line, 1, m + 1) = Append(f, c)
    BY <1>11, <1>12, <2>1
  <2>3. Words(Append(f, c)) = Words(f)
    BY <1>1, <2>1, WordsAppend
  <2> QED
    BY <1>2, <1>4, <1>18, <2>2, <2>3
<1>20. SubSeq(line, tab + 1, Len(line) - 1) = g
  <2>1. PICK l \in Seq(Letters) : l = line
    BY <1>12
  <2>2. \A i \in 1..k : l[((m + 2) + i) - 1] = g[i]
    <3> TAKE i \in 1..k
    <3>1. ((m + 2) + i) - 1 = (m + 1) + i
      OBVIOUS
    <3> QED
      BY <1>12, <2>1, <3>1
  <2>3. PICK part : part = SubSeq(l, m + 2, (m + k) + 1)
    OBVIOUS
  <2>4. part \in Seq(Letters) /\ Len(part) = k /\ \A i \in 1..k : part[i] = l[((m + 2) + i) - 1]
    BY <1>12, <2>1, <2>3
  <2>5. part = g
    BY <1>11, <2>2, <2>4, SeqEqual
  <2>6. tab + 1 = m + 2 /\ Len(line) - 1 = (m + k) + 1
    BY <1>12, <1>18
  <2> QED
    BY <2>1, <2>3, <2>5, <2>6
<1>21. "i" \in ToSet(g)
  BY <1>1, <1>6, <1>9, ToSetHas
<1>22. "i" \notin ToSet(prompt) => ToSet(g) \ White # {"i"}
  <2>1. SUFFICES ASSUME "i" \notin ToSet(prompt) PROVE ToSet(g) \ White # {"i"}
    OBVIOUS
  <2>2. PICK c : c \notin White /\ c # "i" /\ Has(q, c)
    BY <1>6, <2>1, ToSetHas
  <2>3. c \in ToSet(g)
    BY <1>9, <2>2, ToSetHas
  <2> QED
    BY <2>2, <2>3
<1>23. Positions(line, {"t"}) = {tab}
  BY <1>16, <1>18
<1> QED
  BY <1>10, <1>15, <1>17, <1>19, <1>20, <1>21, <1>22, <1>23 DEF RequestLineHasTwoFields

(***************************************************************************)
(* What a client puts into its texts, however long, is one request to the  *)
(* worker that is sent it.                                                 *)
(***************************************************************************)
THEOREM LinesAreAlwaysRequests ==
  ASSUME input.of = "messages" => input.messages \in Messages,
         input.of = "line" => input.path \in Seq(Content) /\ input.prompt \in Seq(Content)
  PROVE  LinesAreRequests
<1>1. PromptsAreOneLine
  BY PromptsAreAlwaysOneLine DEF PromptsAreOneLine
<1>2. RequestLinesHaveTwoFields
  BY RequestLinesAlwaysHaveTwoFields DEF RequestLinesHaveTwoFields
<1> QED
  BY <1>1, <1>2 DEF LinesAreRequests
-----------------------------------------------------------------------------
(* The scan through the segments of a JPEG file. *)

\* f tells at every position of a walk what the walk ends with.
Walks(f, n, goes, goal, verdict) ==
  f = [pos \in 0..n |-> IF goes[pos] THEN f[goal[pos]] ELSE verdict[pos]]

\* A walk whose every step goes on has an end.
LEMMA WalkEnds ==
  ASSUME NEW n \in Nat, NEW goes, NEW goal, NEW verdict,
         \A pos \in 0..n : goes[pos] => goal[pos] \in (pos + 1)..n
  PROVE  \E f : Walks(f, n, goes, goal, verdict)
<1> DEFINE turn(f, pos) == IF goes[pos] THEN f[goal[pos]] ELSE verdict[pos]
           From(m) == \E f : f = [pos \in (n - m)..n |-> turn(f, pos)]
           T == {m \in 0..n : From(m)}
<1>1. ASSUME NEW m \in 0..(n + 1), NEW f, NEW g,
             \A pos \in (n - m + 1)..n : f[pos] = g[pos], NEW pos \in (n - m)..n, pos \in 0..n
      PROVE  turn(f, pos) = turn(g, pos)
  <2>1. CASE goes[pos]
    <3>1. goal[pos] \in (pos + 1)..n
      BY <1>1, <2>1
    <3>2. goal[pos] \in (n - m + 1)..n
      BY <3>1
    <3>3. f[goal[pos]] = g[goal[pos]]
      BY <1>1, <3>2
    <3> QED
      BY <2>1, <3>3
  <2>2. CASE ~goes[pos]
    BY <2>2
  <2> QED
    BY <2>1, <2>2
<1>2. From(0)
  <2> DEFINE h == [pos \in {} |-> verdict[pos]]
             f == [pos \in n..n |-> turn(h, pos)]
  <2>1. ASSUME NEW pos \in (n - 0)..n PROVE turn(f, pos) = turn(h, pos)
    <3>1. pos = n /\ pos \in 0..n
      OBVIOUS
    <3>2. ~goes[pos]
      BY <3>1
    <3> HIDE DEF f, h
    <3> QED
      BY <3>2
  <2>2. f = [pos \in (n - 0)..n |-> turn(h, pos)]
    <3> HIDE DEF h, turn
    <3> QED
      OBVIOUS
  <2>3. f = [pos \in (n - 0)..n |-> turn(f, pos)]
    <3> HIDE DEF f, h, turn
    <3> QED
      BY <2>1, <2>2
  <2> HIDE DEF f, h, turn
  <2> QED
    BY <2>3
<1>3. ASSUME NEW m \in 0..(n - 1), From(m) PROVE From(m + 1)
  <2>1. PICK f : f = [pos \in (n - m)..n |-> turn(f, pos)]
    BY <1>3
  <2> DEFINE g == [pos \in (n - (m + 1))..n |-> turn(f, pos)]
  <2>2. ASSUME NEW pos \in (n - m)..n PROVE f[pos] = g[pos]
    <3>1. pos \in (n - (m + 1))..n
      OBVIOUS
    <3> HIDE DEF turn
    <3> QED
      BY <2>1, <3>1
  <2>3. ASSUME NEW pos \in (n - (m + 1))..n PROVE turn(g, pos) = turn(f, pos)
    <3>1. PICK l \in 0..(n + 1) : l = m + 1
      OBVIOUS
    <3>2. \A i \in (n - l + 1)..n : g[i] = f[i]
      <4>1. n - l + 1 = n - m
        BY <3>1
      <4> HIDE DEF g
      <4> QED
        BY <2>2, <4>1
    <3>3. pos \in (n - l)..n /\ pos \in 0..n
      BY <3>1
    <3> HIDE DEF g, turn
    <3> QED
      BY <1>1, <3>2, <3>3
  <2>4. g = [pos \in (n - (m + 1))..n |-> turn(g, pos)]
    <3>1. g = [pos \in (n - (m + 1))..n |-> turn(f, pos)]
      <4> HIDE DEF turn
      <4> QED
        OBVIOUS
    <3> HIDE DEF g, turn
    <3> QED
      BY <2>3, <3>1
  <2> HIDE DEF g, turn
  <2> QED
    BY <2>4
<1>4. n \in T
  <2> HIDE DEF From
  <2>1. 0 \in T /\ \A m \in 0..(n - 1) : m \in T => m + 1 \in T
    BY <1>2, <1>3
  <2> HIDE DEF T
  <2> QED
    BY <2>1, CountUp
<1>5. From(n)
  <2> HIDE DEF From
  <2> QED
    BY <1>4
<1>6. n - n = 0
  OBVIOUS
<1> QED
  BY <1>5, <1>6 DEF Walks

Bytes == 0..255

\* Whether a turn of the scan goes on, where to, and what it answers if it does not.
Whole(data, code) ==
  /\ code < Len(data) /\ Byte(data, code) \notin Standalone \cup EndsHeader
  /\ code + 3 <= Len(data) /\ Big16(data, code + 1) >= 2
  /\ NextSegment(data, code + 1) <= Len(data)

Short(data, code) ==
  /\ code < Len(data) /\ Byte(data, code) \notin Standalone \cup EndsHeader
  /\ code + 3 <= Len(data) /\ Big16(data, code + 1) < 2

GoesOn(data, code) ==
  \/ code < Len(data) /\ Byte(data, code) \in Standalone
  \/ Whole(data, code) /\ Byte(data, code) \notin SofMarkers

Goal(data, code) ==
  IF Byte(data, code) \in Standalone THEN code + 1 ELSE NextSegment(data, code + 1)

LEMMA SkipToType ==
  ASSUME NEW data \in Seq(Bytes), NEW pos \in Nat, pos <= Len(data) + 1, NEW b \in BOOLEAN,
         NEW place, place = SkipTo(data, pos, b)
  PROVE  /\ place \in 0..Len(data)
         /\ place < Len(data) => pos <= place /\ (Byte(data, place) = 255) = b
         /\ \A i \in pos..(Len(data) - 1) : (Byte(data, i) = 255) = b => place <= i
         /\ \A i \in pos..(Len(data) - 1) :
              /\ (Byte(data, i) = 255) = b
              /\ \A j \in pos..(i - 1) : (Byte(data, j) = 255) # b
              => place = i
<1> DEFINE hits == {i \in pos..(Len(data) - 1) : (Byte(data, i) = 255) = b}
<1>1. Len(data) \in Nat
  OBVIOUS
<1>2. place = IF hits = {} THEN Len(data) ELSE CHOOSE i \in hits : \A j \in hits : i <= j
  BY DEF SkipTo
<1>3. \A i \in hits : i \in pos..(Len(data) - 1) /\ (Byte(data, i) = 255) = b
  OBVIOUS
<1>4. \A i \in pos..(Len(data) - 1) : (Byte(data, i) = 255) = b => i \in hits
  OBVIOUS
<1>5. CASE hits = {}
  <2> HIDE DEF hits
  <2> QED
    BY <1>1, <1>2, <1>4, <1>5
<1>6. CASE hits # {}
  <2>1. hits \in SUBSET Nat
    BY <1>3
  <2> HIDE DEF hits
  <2>2. \E i \in hits : \A j \in hits : i <= j
    BY <1>6, <2>1, FirstIsFirst
  <2>3. place \in hits /\ \A j \in hits : place <= j
    BY <1>2, <1>6, <2>2
  <2>4. place \in pos..(Len(data) - 1) /\ (Byte(data, place) = 255) = b
    BY <1>3, <2>3
  <2>5. ASSUME NEW i \in pos..(Len(data) - 1), (Byte(data, i) = 255) = b,
               \A j \in pos..(i - 1) : (Byte(data, j) = 255) # b
        PROVE  place = i
    <3>1. place <= i
      BY <1>4, <2>3, <2>5
    <3>2. ~(place < i)
      <4>1. SUFFICES ASSUME place < i PROVE FALSE
        OBVIOUS
      <4>2. place \in pos..(i - 1)
        BY <2>4, <4>1
      <4> QED
        BY <2>4, <2>5, <4>2
    <3> QED
      BY <2>4, <3>1, <3>2
  <2> QED
    BY <1>1, <1>4, <2>3, <2>4, <2>5
<1> QED
  BY <1>5, <1>6

LEMMA CodeType ==
  ASSUME NEW data \in Seq(Bytes), NEW pos \in 0..Len(data) + 1
  PROVE  /\ Code(data, pos) \in 0..Len(data)
         /\ Code(data, pos) < Len(data) => pos < Code(data, pos)
<1>1. PICK n \in Nat : n = Len(data)
  OBVIOUS
<1>2. PICK yes \in BOOLEAN : yes = TRUE
  OBVIOUS
<1>3. PICK no \in BOOLEAN : no = FALSE
  OBVIOUS
<1>4. PICK fill : fill = SkipTo(data, pos, yes)
  OBVIOUS
<1>5. pos \in Nat /\ pos <= Len(data) + 1
  BY <1>1
<1>6. fill \in 0..Len(data) /\ (fill < Len(data) => pos <= fill /\ (Byte(data, fill) = 255) = yes)
  BY <1>4, <1>5, SkipToType
<1>7. PICK code : code = SkipTo(data, fill, no)
  OBVIOUS
<1>8. fill \in Nat /\ fill <= Len(data) + 1
  BY <1>1, <1>6
<1>9. code \in 0..Len(data) /\ (code < Len(data) => fill <= code /\ (Byte(data, code) = 255) = no)
  BY <1>7, <1>8, SkipToType
<1>10. code < n => pos < code
  <2>1. SUFFICES ASSUME code < n PROVE pos < code
    OBVIOUS
  <2>2. fill <= code /\ Byte(data, code) # 255
    BY <1>1, <1>3, <1>9, <2>1
  <2>3. fill < Len(data)
    BY <1>1, <1>6, <1>9, <2>1, <2>2
  <2>4. pos <= fill /\ (Byte(data, fill) = 255) = TRUE
    BY <1>2, <1>6, <2>3, Zenon
  <2>5. fill # code
    BY <2>2, <2>4
  <2> QED
    BY <1>1, <1>6, <1>9, <2>2, <2>4, <2>5
<1>11. code = Code(data, pos)
  BY <1>2, <1>3, <1>4, <1>7 DEF Code
<1> QED
  BY <1>1, <1>9, <1>10, <1>11

LEMMA Big16Type ==
  ASSUME NEW data \in Seq(Bytes), NEW at \in Nat, at + 2 <= Len(data)
  PROVE  Big16(data, at) \in Nat
<1>1. at + 1 \in 1..Len(data) /\ (at + 1) + 1 \in 1..Len(data)
  OBVIOUS
<1>2. data[at + 1] \in Bytes /\ data[(at + 1) + 1] \in Bytes
  BY <1>1, ElementOfSeq
<1>3. PICK x \in 0..255, y \in 0..255 : x = data[at + 1] /\ y = data[(at + 1) + 1]
  BY <1>2 DEF Bytes
<1>4. 256 * x + y \in Nat
  OBVIOUS
<1> QED
  BY <1>3, <1>4 DEF Big16, Byte

LEMMA ScanTurns ==
  ASSUME NEW data \in Seq(Bytes), NEW f, NEW pos \in 0..Len(data) + 1,
         NEW code, code = Code(data, pos)
  PROVE  /\ GoesOn(data, code) => /\ ScanTurn(f, data, pos) = f[Goal(data, code)]
                                  /\ Goal(data, code) \in (pos + 1)..Len(data)
         /\ ~GoesOn(data, code) /\ ~Whole(data, code) =>
              ScanTurn(f, data, pos) =
                IF Short(data, code) THEN Bad("segment length") ELSE Bad("no frame")
         /\ Whole(data, code) /\ Byte(data, code) \in SofMarkers =>
              ScanTurn(f, data, pos) = Frame(data, code + 1)
<1>1. PICK n \in Nat : n = Len(data)
  OBVIOUS
<1>2. code \in 0..n /\ (code < n => pos < code)
  BY <1>1, CodeType
<1>3. code + 3 <= n => Big16(data, code + 1) \in Nat
  <2>1. code + 1 \in Nat /\ (code + 3 <= Len(data) => (code + 1) + 2 <= Len(data))
    BY <1>1, <1>2
  <2> QED
    BY <1>1, <2>1, Big16Type
<1>4. PICK marker : marker = Byte(data, code)
  OBVIOUS
<1>5. PICK size : size = Big16(data, code + 1)
  OBVIOUS
<1>6. (code + 1) + 2 > n <=> ~(code + 3 <= n)
  BY <1>2
<1>7. ScanTurn(f, data, pos) =
        IF code >= n THEN Bad("no frame")
        ELSE IF marker \in Standalone THEN f[code + 1]
        ELSE IF marker \in EndsHeader \/ (code + 1) + 2 > n THEN Bad("no frame")
        ELSE IF size < 2 THEN Bad("segment length")
        ELSE IF (code + 1) + size > n THEN Bad("no frame")
        ELSE IF marker \in SofMarkers THEN Frame(data, code + 1)
        ELSE f[(code + 1) + size]
  BY <1>1, <1>4, <1>5 DEF ScanTurn, NextSegment
<1>8. Whole(data, code) <=> /\ code < n /\ marker \notin Standalone \cup EndsHeader
                            /\ code + 3 <= n /\ size >= 2 /\ (code + 1) + size <= n
  BY <1>1, <1>4, <1>5 DEF Whole, NextSegment
<1>13. Short(data, code) <=> /\ code < n /\ marker \notin Standalone \cup EndsHeader
                             /\ code + 3 <= n /\ size < 2
  BY <1>1, <1>4, <1>5 DEF Short
<1>9. CASE code >= n
  <2>1. ScanTurn(f, data, pos) = Bad("no frame")
    BY <1>7, <1>9
  <2>2. ~GoesOn(data, code) /\ ~Whole(data, code) /\ ~Short(data, code)
    BY <1>1, <1>2, <1>8, <1>9, <1>13 DEF GoesOn
  <2> QED
    BY <2>1, <2>2
<1>10. CASE code < n /\ marker \in Standalone
  <2>1. ScanTurn(f, data, pos) = f[code + 1]
    <3>1. ~(code >= n)
      BY <1>2, <1>10
    <3> QED
      BY <1>7, <1>10, <3>1, Zenon
  <2>2. GoesOn(data, code) /\ Goal(data, code) = code + 1 /\ ~Whole(data, code)
    BY <1>1, <1>4, <1>8, <1>10 DEF GoesOn, Goal
  <2>3. code + 1 \in (pos + 1)..n
    BY <1>2, <1>10
  <2> QED
    BY <1>1, <2>1, <2>2, <2>3
<1>11. CASE code < n /\ marker \notin Standalone
  <2>1. GoesOn(data, code) <=> Whole(data, code) /\ marker \notin SofMarkers
    BY <1>1, <1>4, <1>11 DEF GoesOn
  <2>2. Goal(data, code) = (code + 1) + size
    BY <1>4, <1>5, <1>11 DEF Goal, NextSegment
  <2>3. ~(code >= n)
    BY <1>2, <1>11
  <2>4. CASE ~Whole(data, code)
    <3>1. CASE marker \in EndsHeader \/ ~(code + 3 <= n)
      <4>1. ~Short(data, code)
        BY <1>13, <3>1
      <4>2. ScanTurn(f, data, pos) = Bad("no frame")
        BY <1>6, <1>7, <1>11, <2>3, <3>1
      <4> QED
        BY <2>1, <2>4, <4>1, <4>2
    <3>2. CASE marker \notin EndsHeader /\ code + 3 <= n
      <4>1. size \in Nat
        BY <1>3, <1>5, <3>2
      <4>2. size < 2 \/ (code + 1) + size > n
        BY <1>2, <1>8, <1>11, <2>4, <3>2, <4>1
      <4>3. Short(data, code) <=> size < 2
        BY <1>11, <1>13, <3>2
      <4>4. ScanTurn(f, data, pos) =
              IF size < 2 THEN Bad("segment length") ELSE Bad("no frame")
        BY <1>6, <1>7, <1>11, <2>3, <3>2, <4>2
      <4> QED
        BY <2>1, <2>4, <4>3, <4>4
    <3> QED
      BY <3>1, <3>2
  <2>5. CASE Whole(data, code)
    <3>1. code + 3 <= n /\ size >= 2 /\ (code + 1) + size <= n /\ marker \notin EndsHeader
      BY <1>8, <2>5
    <3>2. size \in Nat
      BY <1>3, <1>5, <3>1
    <3>3. ~(size < 2) /\ ~((code + 1) + size > n) /\ (code + 1) + size \in (pos + 1)..n
      BY <1>2, <1>11, <3>1, <3>2
    <3>4. ScanTurn(f, data, pos) =
            IF marker \in SofMarkers THEN Frame(data, code + 1) ELSE f[(code + 1) + size]
      BY <1>6, <1>7, <1>11, <2>3, <3>1, <3>3
    <3> QED
      BY <1>1, <1>4, <2>1, <2>2, <2>5, <3>3, <3>4
  <2> QED
    BY <2>4, <2>5
<1>12. code >= n \/ (code < n /\ marker \in Standalone) \/ (code < n /\ marker \notin Standalone)
  BY <1>2
<1> QED
  BY <1>9, <1>10, <1>11, <1>12, Zenon

\* The scan is well defined: every turn that goes on goes on further behind.
LEMMA ScanWalks ==
  ASSUME NEW data \in Seq(Bytes)
  PROVE  \E f : /\ \A pos \in 0..(Len(data) + 1) : f[pos] = ScanTurn(f, data, pos)
                /\ ScanJpeg(data) = f[2]
<1> DEFINE positions == 0..(Len(data) + 1)
           code(pos) == Code(data, pos)
           goes == [pos \in positions |-> GoesOn(data, code(pos))]
           goal == [pos \in positions |-> Goal(data, code(pos))]
           stop(pos) == IF Whole(data, code(pos)) THEN Frame(data, code(pos) + 1)
                        ELSE IF Short(data, code(pos)) THEN Bad("segment length")
                        ELSE Bad("no frame")
           verdict == [pos \in positions |-> stop(pos)]
<1>1. PICK n \in Nat : n = Len(data) + 1
  OBVIOUS
<1>2. ASSUME NEW f, NEW pos \in positions
      PROVE  /\ ScanTurn(f, data, pos) = IF goes[pos] THEN f[goal[pos]] ELSE verdict[pos]
             /\ goes[pos] => goal[pos] \in (pos + 1)..n
  <2>1. PICK c : c = Code(data, pos)
    OBVIOUS
  <2>2. goes[pos] = GoesOn(data, c) /\ goal[pos] = Goal(data, c)
    BY <2>1
  <2>3. verdict[pos] = IF Whole(data, c) THEN Frame(data, c + 1)
                       ELSE IF Short(data, c) THEN Bad("segment length") ELSE Bad("no frame")
    BY <2>1
  <2>4. /\ GoesOn(data, c) => /\ ScanTurn(f, data, pos) = f[Goal(data, c)]
                              /\ Goal(data, c) \in (pos + 1)..Len(data)
        /\ ~GoesOn(data, c) /\ ~Whole(data, c) =>
             ScanTurn(f, data, pos) =
               IF Short(data, c) THEN Bad("segment length") ELSE Bad("no frame")
        /\ Whole(data, c) /\ Byte(data, c) \in SofMarkers =>
             ScanTurn(f, data, pos) = Frame(data, c + 1)
    BY <2>1, ScanTurns
  <2>5. Whole(data, c) /\ ~GoesOn(data, c) => Byte(data, c) \in SofMarkers
    BY DEF GoesOn
  <2>6. GoesOn(data, c) => Goal(data, c) \in (pos + 1)..n
    BY <1>1, <2>4
  <2> HIDE DEF goes, goal, verdict
  <2>7. CASE GoesOn(data, c)
    BY <2>2, <2>4, <2>6, <2>7, Zenon
  <2>8. CASE ~GoesOn(data, c)
    BY <2>2, <2>3, <2>4, <2>5, <2>8, Zenon
  <2> QED
    BY <2>7, <2>8
<1>3. positions = 0..n
  BY <1>1
<1>4. \E f : Walks(f, n, goes, goal, verdict)
  <2> HIDE DEF goes, goal, verdict
  <2>1. \A pos \in 0..n : goes[pos] => goal[pos] \in (pos + 1)..n
    BY <1>2, <1>3
  <2> QED
    BY <2>1, WalkEnds
<1>5. \E f : f = [pos \in 0..(Len(data) + 1) |-> ScanTurn(f, data, pos)]
  <2>1. PICK f : f = [pos \in 0..n |-> IF goes[pos] THEN f[goal[pos]] ELSE verdict[pos]]
    BY <1>4 DEF Walks
  <2>2. \A pos \in 0..n :
          ScanTurn(f, data, pos) = IF goes[pos] THEN f[goal[pos]] ELSE verdict[pos]
    BY <1>2, <1>3
  <2> HIDE DEF goes, goal, verdict
  <2>3. f = [pos \in 0..n |-> ScanTurn(f, data, pos)]
    BY <2>1, <2>2
  <2> QED
    BY <1>1, <2>3
<1>6. PICK g : /\ g = CHOOSE f : f = [pos \in 0..(Len(data) + 1) |-> ScanTurn(f, data, pos)]
               /\ ScanJpeg(data) = g[2]
  BY DEF ScanJpeg
<1>7. g = [pos \in 0..(Len(data) + 1) |-> ScanTurn(g, data, pos)]
  BY <1>5, <1>6
<1> QED
  BY <1>6, <1>7

\* What holds at a position whenever it holds at all positions behind holds everywhere.
LEMMA CountDown ==
  ASSUME NEW n \in Nat, NEW T,
         \A pos \in 0..n : (\A q \in (pos + 1)..n : q \in T) => pos \in T
  PROVE  \A pos \in 0..n : pos \in T
<1> DEFINE bad == {m \in 0..n : n - m \notin T}
<1>1. bad \in SUBSET Nat
  OBVIOUS
<1>2. \A m \in 0..n : m \in bad <=> n - m \notin T
  OBVIOUS
<1>3. ASSUME bad # {} PROVE FALSE
  <2> HIDE DEF bad
  <2>1. PICK m : m = First(bad)
    OBVIOUS
  <2>2. m \in bad /\ \A k \in bad : m <= k
    BY <1>1, <1>3, <2>1, FirstIsFirst
  <2>3. m \in 0..n
    BY <2>2 DEF bad
  <2>4. ASSUME NEW q \in (n - m + 1)..n PROVE q \in T
    <3>1. n - q \in 0..n /\ n - q < m /\ n - (n - q) = q
      BY <2>3, <2>4
    <3>2. n - q \notin bad
      BY <2>2, <2>3, <3>1
    <3> QED
      BY <1>2, <3>1, <3>2
  <2>5. n - m \in 0..n
    BY <2>3
  <2>6. n - m \in T
    BY <2>4, <2>5
  <2> QED
    BY <1>2, <2>2, <2>3, <2>6
<1>4. ASSUME NEW pos \in 0..n PROVE pos \in T
  <2>1. n - pos \in 0..n /\ n - (n - pos) = pos
    OBVIOUS
  <2>2. n - pos \notin bad
    BY <1>3
  <2> QED
    BY <1>2, <2>1, <2>2
<1> QED
  BY <1>4

\* The first bytes of a file.
Cut(data, n, part) ==
  /\ part \in Seq(Bytes) /\ Len(part) = n
  /\ \A i \in 0..(n - 1) : Byte(part, i) = Byte(data, i)

LEMMA CutIs ==
  ASSUME NEW data \in Seq(Bytes), NEW n \in 0..Len(data)
  PROVE  Cut(data, n, SubSeq(data, 1, n))
<1>1. PICK part : part = SubSeq(data, 1, n)
  OBVIOUS
<1>2. /\ part \in Seq(Bytes) /\ Len(part) = n
      /\ \A i \in 1..n : part[i] = data[i]
  BY <1>1
<1>3. \A i \in 0..(n - 1) : part[i + 1] = data[i + 1]
  BY <1>2
<1> QED
  BY <1>1, <1>2, <1>3 DEF Cut, Byte

LEMMA SkipCut ==
  ASSUME NEW data \in Seq(Bytes), NEW n \in 0..Len(data), NEW part, Cut(data, n, part),
         NEW pos \in Nat, pos <= n + 1, NEW b \in BOOLEAN,
         NEW there, there = SkipTo(data, pos, b), NEW here, here = SkipTo(part, pos, b)
  PROVE  here = IF there < n THEN there ELSE n
<1>1. part \in Seq(Bytes) /\ Len(part) = n /\ n \in Nat /\ Len(data) \in Nat /\ n <= Len(data)
  BY DEF Cut
<1>2. \A i \in 0..(n - 1) : Byte(part, i) = Byte(data, i)
  BY DEF Cut
<1>3. /\ there \in 0..Len(data)
      /\ there < Len(data) => pos <= there /\ (Byte(data, there) = 255) = b
      /\ \A i \in pos..(Len(data) - 1) : (Byte(data, i) = 255) = b => there <= i
  <2>1. pos <= Len(data) + 1
    BY <1>1
  <2> QED
    BY <2>1, SkipToType
<1>4. /\ here \in 0..Len(part)
      /\ here < Len(part) => pos <= here /\ (Byte(part, here) = 255) = b
      /\ \A i \in pos..(Len(part) - 1) : (Byte(part, i) = 255) = b => here <= i
  <2>1. pos <= Len(part) + 1
    BY <1>1
  <2> QED
    BY <1>1, <2>1, SkipToType
<1>5. there < n => here <= there
  <2>1. SUFFICES ASSUME there < n PROVE here <= there
    OBVIOUS
  <2>2. there \in pos..(n - 1) /\ there \in 0..(n - 1)
    BY <1>1, <1>3, <2>1
  <2>3. Byte(part, there) = Byte(data, there)
    BY <1>2, <2>2
  <2>4. (Byte(data, there) = 255) = b
    BY <1>1, <1>3, <2>1
  <2> QED
    BY <1>1, <1>4, <2>2, <2>3, <2>4
<1>6. here < n => there <= here
  <2>1. SUFFICES ASSUME here < n PROVE there <= here
    OBVIOUS
  <2>2. here \in pos..(Len(data) - 1) /\ here \in 0..(n - 1)
    BY <1>1, <1>4, <2>1
  <2>3. Byte(part, here) = Byte(data, here)
    BY <1>2, <2>2
  <2>4. (Byte(part, here) = 255) = b
    BY <1>1, <1>4, <2>1
  <2> QED
    BY <1>3, <2>2, <2>3, <2>4
<1> QED
  BY <1>1, <1>3, <1>4, <1>5, <1>6

LEMMA CodeCut ==
  ASSUME NEW data \in Seq(Bytes), NEW n \in 0..Len(data), NEW part, Cut(data, n, part),
         NEW pos \in 0..(n + 1),
         NEW there, there = Code(data, pos), NEW here, here = Code(part, pos)
  PROVE  here = IF there < n THEN there ELSE n
<1>1. part \in Seq(Bytes) /\ Len(part) = n /\ n \in Nat /\ Len(data) \in Nat /\ n <= Len(data)
  BY DEF Cut
<1>2. PICK yes \in BOOLEAN : yes = TRUE
  OBVIOUS
<1>3. PICK no \in BOOLEAN : no = FALSE
  OBVIOUS
<1>4. PICK fill : fill = SkipTo(data, pos, yes)
  OBVIOUS
<1>5. PICK less : less = SkipTo(part, pos, yes)
  OBVIOUS
<1>6. there = SkipTo(data, fill, no) /\ here = SkipTo(part, less, no)
  BY <1>2, <1>3, <1>4, <1>5 DEF Code
<1>7. pos \in Nat /\ pos <= n + 1 /\ pos <= Len(data) + 1
  BY <1>1
<1>8. less = IF fill < n THEN fill ELSE n
  BY <1>4, <1>5, <1>7, SkipCut
<1>9. fill \in 0..Len(data)
  BY <1>4, <1>7, SkipToType
<1>10. CASE fill < n
  <2>1. here = SkipTo(part, fill, no)
    BY <1>6, <1>8, <1>10
  <2>2. fill \in Nat /\ fill <= n + 1
    BY <1>1, <1>9, <1>10
  <2> QED
    BY <1>6, <2>1, <2>2, SkipCut
<1>11. CASE ~(fill < n)
  <2>1. fill \in Nat /\ fill <= Len(data) + 1
    BY <1>1, <1>9
  <2>2. there \in 0..Len(data) /\ (there < Len(data) => fill <= there)
    BY <1>6, <2>1, SkipToType
  <2>3. ~(there < n)
    BY <1>1, <1>9, <1>11, <2>2
  <2>4. here = SkipTo(part, n, no)
    BY <1>6, <1>8, <1>11
  <2>5. n <= Len(part) + 1
    BY <1>1
  <2>6. here \in 0..Len(part) /\ (here < Len(part) => n <= here)
    BY <1>1, <2>4, <2>5, SkipToType
  <2> QED
    BY <1>1, <2>3, <2>6
<1> QED
  BY <1>10, <1>11

LEMMA Big16Cut ==
  ASSUME NEW data, NEW n \in Nat, NEW part, Cut(data, n, part), NEW at \in Nat, at + 2 <= n
  PROVE  Big16(part, at) = Big16(data, at)
<1>1. at \in 0..(n - 1) /\ at + 1 \in 0..(n - 1)
  OBVIOUS
<1>2. Byte(part, at) = Byte(data, at) /\ Byte(part, at + 1) = Byte(data, at + 1)
  BY <1>1 DEF Cut
<1> QED
  BY <1>2 DEF Big16

\* A file that is cut off is scanned as the whole one, until its end is an error.
LEMMA TurnCut ==
  ASSUME NEW data \in Seq(Bytes), NEW n \in 0..Len(data), NEW part, Cut(data, n, part),
         NEW pos \in 0..(n + 1), NEW f, NEW g
  PROVE  \/ ScanTurn(f, part, pos).format = "error"
         \/ ScanTurn(f, part, pos) = ScanTurn(g, data, pos)
         \/ \E q \in (pos + 1)..n :
              ScanTurn(f, part, pos) = f[q] /\ ScanTurn(g, data, pos) = g[q]
<1>1. part \in Seq(Bytes) /\ Len(part) = n /\ n \in Nat /\ Len(data) \in Nat /\ n <= Len(data)
  BY DEF Cut
<1>2. PICK c : c = Code(part, pos)
  OBVIOUS
<1>3. c \in 0..n
  BY <1>1, <1>2, CodeType
<1>4. c < n => c = Code(data, pos)
  <2>1. PICK there : there = Code(data, pos)
    OBVIOUS
  <2>2. c = IF there < n THEN there ELSE n
    BY <1>2, <2>1, CodeCut
  <2> QED
    BY <1>1, <1>3, <2>1, <2>2
<1>5. /\ GoesOn(part, c) => /\ ScanTurn(f, part, pos) = f[Goal(part, c)]
                            /\ Goal(part, c) \in (pos + 1)..Len(part)
      /\ ~GoesOn(part, c) /\ ~Whole(part, c) =>
           ScanTurn(f, part, pos) =
             IF Short(part, c) THEN Bad("segment length") ELSE Bad("no frame")
      /\ Whole(part, c) /\ Byte(part, c) \in SofMarkers =>
           ScanTurn(f, part, pos) = Frame(part, c + 1)
  BY <1>1, <1>2, ScanTurns
<1>6. pos \in 0..(Len(data) + 1)
  BY <1>1
<1>7. c < n => /\ GoesOn(data, c) => ScanTurn(g, data, pos) = g[Goal(data, c)]
               /\ Whole(data, c) /\ Byte(data, c) \in SofMarkers =>
                    ScanTurn(g, data, pos) = Frame(data, c + 1)
  BY <1>4, <1>6, ScanTurns
<1>8. Bad("segment length").format = "error" /\ Bad("no frame").format = "error"
  BY DEF Bad
<1>9. CASE ~GoesOn(part, c) /\ ~Whole(part, c)
  BY <1>5, <1>8, <1>9
<1>10. CASE GoesOn(part, c) \/ Whole(part, c)
  <2>1. c < n
    BY <1>1, <1>10 DEF GoesOn, Whole
  <2>2. Byte(part, c) = Byte(data, c)
    BY <1>3, <2>1 DEF Cut
  <2>3. c < Len(data)
    BY <1>1, <1>3, <2>1
  <2>4. ASSUME Whole(part, c)
        PROVE  Whole(data, c) /\ NextSegment(part, c + 1) = NextSegment(data, c + 1)
    <3>1. c + 1 \in Nat /\ (c + 1) + 2 <= n
      BY <1>1, <1>3, <2>4 DEF Whole
    <3>2. Big16(part, c + 1) = Big16(data, c + 1)
      BY <1>1, <3>1, Big16Cut
    <3>3. Big16(part, c + 1) \in Nat
      BY <1>1, <3>1, Big16Type
    <3>4. NextSegment(part, c + 1) = NextSegment(data, c + 1)
      BY <3>2 DEF NextSegment
    <3>5. NextSegment(part, c + 1) \in Nat /\ NextSegment(part, c + 1) <= n
      BY <1>1, <1>3, <2>4, <3>3 DEF Whole, NextSegment
    <3>6. NextSegment(data, c + 1) <= Len(data)
      BY <1>1, <3>4, <3>5
    <3>7. c + 3 <= Len(data)
      BY <1>1, <1>3, <3>1
    <3> QED
      BY <2>2, <2>3, <2>4, <3>2, <3>4, <3>6, <3>7 DEF Whole
  <2>5. CASE GoesOn(part, c)
    <3>1. GoesOn(data, c)
      BY <2>2, <2>3, <2>4, <2>5 DEF GoesOn
    <3>2. Goal(part, c) = Goal(data, c)
      BY <2>2, <2>4, <2>5 DEF GoesOn, Goal
    <3>3. Goal(part, c) \in (pos + 1)..n
      BY <1>1, <1>5, <2>5
    <3>4. ScanTurn(f, part, pos) = f[Goal(part, c)] /\ ScanTurn(g, data, pos) = g[Goal(part, c)]
      BY <1>5, <1>7, <2>1, <2>5, <3>1, <3>2
    <3> QED
      BY <3>3, <3>4
  <2>6. CASE ~GoesOn(part, c)
    <3>1. Whole(part, c) /\ Byte(part, c) \in SofMarkers
      BY <1>10, <2>6 DEF GoesOn
    <3>2. ScanTurn(f, part, pos) = Frame(part, c + 1)
      BY <1>5, <3>1
    <3>3. ScanTurn(g, data, pos) = Frame(data, c + 1)
      BY <1>7, <2>1, <2>2, <2>4, <3>1
    <3>4. CASE (c + 1) + 2 + 6 > n
      <4>1. Frame(part, c + 1).format = "error"
        BY <1>1, <3>4 DEF Frame, Bad
      <4> QED
        BY <3>2, <4>1
    <3>5. CASE ~((c + 1) + 2 + 6 > n)
      <4>1. ~((c + 1) + 2 + 6 > Len(data))
        BY <1>1, <1>3, <3>5
      <4>2. /\ (c + 1) + 5 \in Nat /\ (c + 1) + 5 + 2 <= n
            /\ (c + 1) + 3 \in Nat /\ (c + 1) + 3 + 2 <= n
            /\ (c + 1) + 7 \in 0..(n - 1)
        BY <1>1, <1>3, <3>5
      <4>3. Big16(part, (c + 1) + 5) = Big16(data, (c + 1) + 5)
        BY <1>1, <4>2, Big16Cut
      <4>4. Big16(part, (c + 1) + 3) = Big16(data, (c + 1) + 3)
        BY <1>1, <4>2, Big16Cut
      <4>5. Byte(part, (c + 1) + 7) = Byte(data, (c + 1) + 7)
        BY <4>2 DEF Cut
      <4>6. Frame(part, c + 1) = Frame(data, c + 1)
        BY <1>1, <3>5, <4>1, <4>3, <4>4, <4>5 DEF Frame
      <4> QED
        BY <3>2, <3>3, <4>6
    <3> QED
      BY <3>4, <3>5
  <2> QED
    BY <2>5, <2>6
<1> QED
  BY <1>9, <1>10

LEMMA ScanCut ==
  ASSUME NEW data \in Seq(Bytes), Len(data) >= 1, NEW n \in 1..Len(data), NEW part,
         Cut(data, n, part)
  PROVE  ScanJpeg(part).format = "error" \/ ScanJpeg(part) = ScanJpeg(data)
<1>1. part \in Seq(Bytes) /\ Len(part) = n /\ n \in Nat /\ Len(data) \in Nat /\ n <= Len(data)
  BY DEF Cut
<1>2. PICK f : /\ \A pos \in 0..(Len(part) + 1) : f[pos] = ScanTurn(f, part, pos)
               /\ ScanJpeg(part) = f[2]
  BY <1>1, ScanWalks
<1>3. PICK g : /\ \A pos \in 0..(Len(data) + 1) : g[pos] = ScanTurn(g, data, pos)
               /\ ScanJpeg(data) = g[2]
  BY ScanWalks
<1> DEFINE T == {pos \in 0..(n + 1) : f[pos].format = "error" \/ f[pos] = g[pos]}
<1>4. ASSUME NEW pos \in 0..(n + 1), \A q \in (pos + 1)..(n + 1) : q \in T
      PROVE  pos \in T
  <2>1. pos \in 0..(Len(part) + 1) /\ pos \in 0..(Len(data) + 1)
    BY <1>1
  <2>2. f[pos] = ScanTurn(f, part, pos) /\ g[pos] = ScanTurn(g, data, pos)
    BY <1>2, <1>3, <2>1
  <2>3. \/ ScanTurn(f, part, pos).format = "error"
        \/ ScanTurn(f, part, pos) = ScanTurn(g, data, pos)
        \/ \E q \in (pos + 1)..n :
             ScanTurn(f, part, pos) = f[q] /\ ScanTurn(g, data, pos) = g[q]
    <3>1. n \in 0..Len(data)
      BY <1>1
    <3> QED
      BY <3>1, TurnCut
  <2>4. ASSUME NEW q \in (pos + 1)..n PROVE f[q].format = "error" \/ f[q] = g[q]
    <3>1. q \in (pos + 1)..(n + 1)
      BY <1>1
    <3> QED
      BY <1>4, <3>1
  <2> QED
    BY <2>2, <2>3, <2>4
<1>5. n + 1 \in Nat /\ 2 \in 0..(n + 1)
  OBVIOUS
<1>6. 2 \in T
  <2> HIDE DEF T
  <2> QED
    BY <1>4, <1>5, CountDown
<1> QED
  BY <1>2, <1>3, <1>6

\* at[i] bytes come before the piece i.
Places(at, pieces) ==
  /\ at[1] = 0 /\ at[Len(pieces) + 1] = Len(FlattenSeq(pieces))
  /\ \A i \in 1..Len(pieces) :
       /\ at[i] \in Nat /\ at[i + 1] = at[i] + Len(pieces[i])
       /\ at[i + 1] <= Len(FlattenSeq(pieces))
       /\ \A j \in 1..Len(pieces[i]) : FlattenSeq(pieces)[at[i] + j] = pieces[i][j]

LEMMA PlacesExist ==
  ASSUME NEW S, NEW pieces \in Seq(Seq(S))
  PROVE  \E at : Places(at, pieces)
<1> DEFINE T == {p \in Seq(Seq(S)) : \E at : Places(at, p)}
<1>1. <<>> \in T
  <2>1. Len(<<>>) = 0
    BY EmptySeq
  <2>2. FlattenSeq(<<>>) = <<>>
    BY <2>1 DEF FlattenSeq
  <2>3. Places([i \in 1..1 |-> 0], <<>>)
    BY <2>2, EmptySeq DEF Places
  <2> QED
    BY <2>3, EmptySeq
<1>2. ASSUME NEW p \in Seq(Seq(S)), NEW c \in Seq(S), p \in T
      PROVE  Append(p, c) \in T
  <2>1. PICK at : Places(at, p)
    BY <1>2
  <2>2. PICK q : q = Append(p, c)
    OBVIOUS
  <2>3. PICK m \in Nat : m = Len(p)
    OBVIOUS
  <2>4. q \in Seq(Seq(S)) /\ Len(q) = m + 1 /\ q[m + 1] = c /\ \A i \in 1..m : q[i] = p[i]
    BY <2>2, <2>3
  <2>5. PICK old \in Seq(S) : old = FlattenSeq(p)
    BY FlattenType
  <2>6. PICK new : new = FlattenSeq(q)
    OBVIOUS
  <2>7. new = old \o c
    BY <2>2, <2>5, <2>6, FlattenAppend
  <2>8. PICK k \in Nat, l \in Nat : k = Len(old) /\ l = Len(c)
    OBVIOUS
  <2>9. /\ Len(new) = k + l
        /\ \A j \in 1..k : new[j] = old[j]
        /\ \A j \in 1..l : new[k + j] = c[j]
    BY <2>7, <2>8, ConcatProperties
  <2>10. /\ at[1] = 0 /\ at[m + 1] = k
         /\ \A i \in 1..m :
              /\ at[i] \in Nat /\ at[i + 1] = at[i] + Len(p[i]) /\ at[i + 1] <= k
              /\ \A j \in 1..Len(p[i]) : old[at[i] + j] = p[i][j]
    BY <2>1, <2>3, <2>5, <2>8 DEF Places
  <2> DEFINE and == [i \in 1..(m + 2) |-> IF i <= m + 1 THEN at[i] ELSE k + l]
  <2>11. (\A i \in 1..(m + 1) : and[i] = at[i]) /\ and[m + 2] = k + l
    OBVIOUS
  <2> HIDE DEF and
  <2>12. and[1] = 0 /\ and[(m + 1) + 1] = k + l
    <3>1. 1 \in 1..(m + 1) /\ (m + 1) + 1 = m + 2
      OBVIOUS
    <3> QED
      BY <2>10, <2>11, <3>1
  <2>13. ASSUME NEW i \in 1..(m + 1)
         PROVE  /\ and[i] \in Nat /\ and[i + 1] = and[i] + Len(q[i]) /\ and[i + 1] <= k + l
                /\ \A j \in 1..Len(q[i]) : new[and[i] + j] = q[i][j]
    <3>1. CASE i \in 1..m
      <4>1. i + 1 \in 1..(m + 1)
        BY <3>1
      <4>2. and[i] = at[i] /\ and[i + 1] = at[i + 1] /\ q[i] = p[i]
        BY <2>4, <2>11, <3>1, <4>1
      <4>3. Len(p[i]) \in Nat
        BY <3>1, <2>3
      <4>4. /\ at[i] \in Nat /\ at[i + 1] = at[i] + Len(p[i]) /\ at[i + 1] <= k
            /\ \A j \in 1..Len(p[i]) : old[at[i] + j] = p[i][j]
        BY <2>10, <3>1
      <4>5. ASSUME NEW j \in 1..Len(p[i]) PROVE new[at[i] + j] = p[i][j]
        <5>1. at[i] + j \in 1..k
          BY <4>3, <4>4
        <5> QED
          BY <2>9, <4>4, <5>1
      <4> QED
        BY <4>2, <4>3, <4>4, <4>5
    <3>2. CASE i = m + 1
      <4>1. and[i] = k /\ and[i + 1] = k + l /\ q[i] = c
        BY <2>4, <2>10, <2>11, <3>2
      <4> QED
        BY <2>8, <2>9, <4>1
    <3> QED
      BY <3>1, <3>2
  <2>14. Places(and, q)
    BY <2>4, <2>6, <2>9, <2>12, <2>13 DEF Places
  <2> QED
    BY <2>2, <2>4, <2>14
<1> HIDE DEF T
<1>3. \A p \in Seq(Seq(S)) : p \in T
  BY <1>1, <1>2, GrowUp
<1> QED
  BY <1>3 DEF T

\* The segments of a JPEG file: their lengths fit into two bytes, and a frame header holds the
\* numbers that it is there for.
TwoByteNumbers == 0..65535

JpegSegments ==
  {s \in [fill : Nat, marker : 1..254, body : Seq(Bytes)] :
     /\ Len(s.body) + 2 \in TwoByteNumbers
     /\ s.marker \in FrameMarkers => Len(s.body) >= 6}

LEMMA TwoBytesSay ==
  ASSUME NEW number \in TwoByteNumbers
  PROVE  /\ TwoBytes(number) \in Seq(Bytes) /\ Len(TwoBytes(number)) = 2
         /\ 256 * TwoBytes(number)[1] + TwoBytes(number)[2] = number
<1>0. number \in Nat /\ number <= 65535
  BY DEF TwoByteNumbers
<1>1. /\ number \div 256 \in Int /\ number % 256 \in 0..255
      /\ number = 256 * (number \div 256) + (number % 256)
  BY <1>0, Division
<1>2. PICK high \in Int, low \in 0..255 : high = number \div 256 /\ low = number % 256
  BY <1>1
<1>3. high \in 0..255
  BY <1>0, <1>1, <1>2
<1>4. TwoBytes(number) = <<high, low>>
  BY <1>2 DEF TwoBytes
<1> QED
  BY <1>1, <1>2, <1>3, <1>4 DEF Bytes

LEMMA SegmentSays ==
  ASSUME NEW s \in JpegSegments, NEW bytes, bytes = SegmentBytes(s)
  PROVE  /\ bytes \in Seq(Bytes)
         /\ \A i \in 1..(s.fill + 1) : bytes[i] = 255
         /\ bytes[s.fill + 2] = s.marker
         /\ s.marker \in Standalone => Len(bytes) = s.fill + 2
         /\ s.marker \notin Standalone =>
              /\ Len(bytes) = s.fill + 4 + Len(s.body)
              /\ 256 * bytes[s.fill + 3] + bytes[s.fill + 4] = Len(s.body) + 2
              /\ \A j \in 1..Len(s.body) : bytes[s.fill + 4 + j] = s.body[j]
<1>1. /\ s.fill \in Nat /\ s.marker \in 1..254 /\ s.body \in Seq(Bytes)
      /\ Len(s.body) + 2 \in TwoByteNumbers
  BY DEF JpegSegments
<1>2. PICK fill \in Nat : fill = s.fill
  BY <1>1
<1>3. PICK marker \in 1..254 : marker = s.marker
  BY <1>1
<1>4. PICK body \in Seq(Bytes) : body = s.body
  BY <1>1
<1>5. PICK m \in Nat : m = Len(body) /\ m + 2 \in TwoByteNumbers
  BY <1>1, <1>4
<1> DEFINE ff == [i \in 1..fill |-> 255]
<1>6. ff \in Seq(Bytes) /\ Len(ff) = fill /\ \A i \in 1..fill : ff[i] = 255
  BY DEF Bytes
<1> HIDE DEF ff
<1>7. PICK two : two = <<255, marker>>
  OBVIOUS
<1>8. two \in Seq(Bytes) /\ Len(two) = 2 /\ two[1] = 255 /\ two[2] = marker
  BY <1>7 DEF Bytes
<1>9. PICK head : head = ff \o two
  OBVIOUS
<1>10. /\ head \in Seq(Bytes) /\ Len(head) = fill + 2
       /\ \A i \in 1..(fill + 1) : head[i] = 255
       /\ head[fill + 2] = marker
  <2>1. /\ head \in Seq(Bytes) /\ Len(head) = fill + 2
        /\ \A i \in 1..fill : head[i] = ff[i]
        /\ \A i \in 1..2 : head[fill + i] = two[i]
    <3>1. ff \in Seq(Bytes)
      BY <1>6
    <3>2. two \in Seq(Bytes)
      BY <1>8
    <3>3. /\ head \in Seq(Bytes) /\ Len(head) = Len(ff) + Len(two)
          /\ \A i \in 1..Len(ff) : head[i] = ff[i]
          /\ \A i \in 1..Len(two) : head[Len(ff) + i] = two[i]
      BY <1>9, <3>1, <3>2, ConcatPlaces
    <3> QED
      BY <1>6, <1>8, <3>3
  <2>2. head[fill + 1] = 255 /\ head[fill + 2] = marker
    BY <1>8, <2>1
  <2>3. ASSUME NEW i \in 1..(fill + 1) PROVE head[i] = 255
    <3>1. i \in 1..fill \/ i = fill + 1
      OBVIOUS
    <3> QED
      BY <1>6, <2>1, <2>2, <3>1
  <2> QED
    BY <2>1, <2>2, <2>3
<1>11. CASE marker \in Standalone
  <2>1. bytes = head \o <<>>
    BY <1>2, <1>3, <1>7, <1>9, <1>11 DEF SegmentBytes, ff
  <2>2. bytes = head
    BY <1>10, <2>1
  <2> QED
    BY <1>2, <1>3, <1>10, <1>11, <2>2
<1>12. CASE marker \notin Standalone
  <2>1. PICK size : size = TwoBytes(m + 2)
    OBVIOUS
  <2>2. /\ size \in Seq(Bytes) /\ Len(size) = 2
        /\ 256 * size[1] + size[2] = m + 2
    BY <1>5, <2>1, TwoBytesSay
  <2>3. PICK tail : tail = size \o body
    OBVIOUS
  <2>4. /\ tail \in Seq(Bytes) /\ Len(tail) = 2 + m
        /\ tail[1] = size[1] /\ tail[2] = size[2]
        /\ \A j \in 1..m : tail[2 + j] = body[j]
    <3>1. size \in Seq(Bytes)
      BY <2>2
    <3>2. /\ tail \in Seq(Bytes) /\ Len(tail) = Len(size) + Len(body)
          /\ \A i \in 1..Len(size) : tail[i] = size[i]
          /\ \A i \in 1..Len(body) : tail[Len(size) + i] = body[i]
      BY <2>3, <3>1, ConcatPlaces
    <3> QED
      BY <1>5, <2>2, <3>2
  <2>5. bytes = head \o tail
    BY <1>2, <1>3, <1>4, <1>5, <1>7, <1>9, <1>12, <2>1, <2>3 DEF SegmentBytes, ff
  <2>6. /\ bytes \in Seq(Bytes) /\ Len(bytes) = (fill + 2) + (2 + m)
        /\ \A i \in 1..(fill + 2) : bytes[i] = head[i]
        /\ \A i \in 1..(2 + m) : bytes[(fill + 2) + i] = tail[i]
    <3>1. head \in Seq(Bytes)
      BY <1>10
    <3>2. tail \in Seq(Bytes)
      BY <2>4
    <3>3. /\ bytes \in Seq(Bytes) /\ Len(bytes) = Len(head) + Len(tail)
          /\ \A i \in 1..Len(head) : bytes[i] = head[i]
          /\ \A i \in 1..Len(tail) : bytes[Len(head) + i] = tail[i]
      BY <2>5, <3>1, <3>2, ConcatPlaces
    <3> QED
      BY <1>10, <2>4, <3>3
  <2>7. bytes[fill + 3] = size[1] /\ bytes[fill + 4] = size[2]
    <3>1. 1 \in 1..(2 + m) /\ 2 \in 1..(2 + m) /\ (fill + 2) + 1 = fill + 3 /\ (fill + 2) + 2 = fill + 4
      OBVIOUS
    <3> QED
      BY <2>4, <2>6, <3>1
  <2>8. ASSUME NEW j \in 1..m PROVE bytes[fill + 4 + j] = body[j]
    <3>1. 2 + j \in 1..(2 + m) /\ (fill + 2) + (2 + j) = fill + 4 + j
      OBVIOUS
    <3> QED
      BY <2>4, <2>6, <3>1
  <2>9. \A i \in 1..(fill + 1) : bytes[i] = 255
    BY <1>10, <2>6
  <2>10. bytes[fill + 2] = marker
    BY <1>10, <2>6
  <2>11. Len(bytes) = fill + 4 + m
    BY <2>6
  <2> QED
    BY <1>2, <1>3, <1>4, <1>5, <1>12, <2>2, <2>6, <2>7, <2>8, <2>9, <2>10, <2>11
<1> QED
  BY <1>11, <1>12

\* The bytes of a piece in a file.
Holds(data, pos, piece) ==
  /\ pos + Len(piece) <= Len(data)
  /\ \A j \in 1..Len(piece) : data[pos + j] = piece[j]

LEMMA HoldsByte ==
  ASSUME NEW data, NEW pos \in Nat, NEW piece, Holds(data, pos, piece),
         NEW k \in Nat, k + 1 <= Len(piece), Len(piece) \in Nat
  PROVE  Byte(data, pos + k) = piece[k + 1]
<1>1. k + 1 \in 1..Len(piece) /\ pos + (k + 1) = (pos + k) + 1
  OBVIOUS
<1>2. data[pos + (k + 1)] = piece[k + 1]
  BY <1>1 DEF Holds
<1> QED
  BY <1>1, <1>2 DEF Byte

\* The marker of the segment that comes next.
LEMMA SegmentCode ==
  ASSUME NEW data \in Seq(Bytes), NEW pos \in Nat, NEW s \in JpegSegments,
         Holds(data, pos, SegmentBytes(s))
  PROVE  Code(data, pos) = pos + s.fill + 1 /\ Byte(data, pos + s.fill + 1) = s.marker
<1>1. PICK piece \in Seq(Bytes) : piece = SegmentBytes(s)
  BY SegmentSays
<1>2. PICK fill \in Nat, marker \in 1..254 : fill = s.fill /\ marker = s.marker
  BY DEF JpegSegments
<1>3. PICK l \in Nat : l = Len(piece)
  OBVIOUS
<1>4. /\ \A i \in 1..(fill + 1) : piece[i] = 255
      /\ piece[fill + 2] = marker
  BY <1>1, <1>2, SegmentSays
<1>5. fill + 2 <= l
  <2>1. /\ s.marker \in Standalone => Len(piece) = s.fill + 2
        /\ s.marker \notin Standalone => Len(piece) = s.fill + 4 + Len(s.body)
    BY <1>1, SegmentSays
  <2>2. Len(s.body) \in Nat
    BY DEF JpegSegments
  <2> QED
    BY <1>2, <1>3, <2>1, <2>2
<1>6. PICK n \in Nat : n = Len(data) /\ pos + l <= n
  BY <1>1, <1>3 DEF Holds
<1>7. ASSUME NEW k \in 0..(fill + 1) PROVE Byte(data, pos + k) = piece[k + 1]
  <2>1. k \in Nat /\ k + 1 <= Len(piece) /\ Len(piece) \in Nat
    BY <1>3, <1>5
  <2>2. Holds(data, pos, piece)
    BY <1>1
  <2> QED
    BY <2>1, <2>2, HoldsByte
<1>8. ASSUME NEW k \in 0..fill PROVE Byte(data, pos + k) = 255
  <2>1. k + 1 \in 1..(fill + 1) /\ k \in 0..(fill + 1)
    OBVIOUS
  <2> QED
    BY <1>4, <1>7, <2>1
<1>9. Byte(data, pos + fill + 1) = marker
  <2>1. PICK k \in Nat : k = fill + 1
    OBVIOUS
  <2>2. k \in 0..(fill + 1) /\ pos + k = pos + fill + 1 /\ k + 1 = fill + 2
    BY <2>1
  <2>3. Byte(data, pos + k) = piece[k + 1]
    BY <1>7, <2>2
  <2> QED
    BY <1>4, <2>2, <2>3
<1>10. PICK yes \in BOOLEAN : yes = TRUE
  OBVIOUS
<1>11. PICK no \in BOOLEAN : no = FALSE
  OBVIOUS
<1>12. PICK first : first = SkipTo(data, pos, yes)
  OBVIOUS
<1>13. first = pos
  <2>1. pos + 0 = pos /\ 0 \in 0..fill
    OBVIOUS
  <2>2. Byte(data, pos) = 255
    BY <1>8, <2>1
  <2>3. pos <= Len(data) + 1 /\ pos \in pos..(Len(data) - 1)
    BY <1>5, <1>6
  <2>4. /\ first \in 0..Len(data)
        /\ first < Len(data) => pos <= first /\ (Byte(data, first) = 255) = yes
        /\ \A i \in pos..(Len(data) - 1) : (Byte(data, i) = 255) = yes => first <= i
    BY <1>12, <2>3, SkipToType
  <2>5. (Byte(data, pos) = 255) = yes
    BY <1>10, <2>2
  <2>6. first <= pos
    BY <2>3, <2>4, <2>5
  <2>7. first < Len(data)
    BY <1>5, <1>6, <2>4, <2>6
  <2> QED
    BY <2>4, <2>6, <2>7
<1>14. PICK code : code = SkipTo(data, pos, no)
  OBVIOUS
<1>15. code = pos + fill + 1
  <2>1. PICK i \in Nat : i = pos + fill + 1
    OBVIOUS
  <2>2. pos <= Len(data) + 1 /\ i \in pos..(Len(data) - 1)
    BY <1>5, <1>6, <2>1
  <2>3. \A j \in pos..(Len(data) - 1) :
          /\ (Byte(data, j) = 255) = no
          /\ \A k \in pos..(j - 1) : (Byte(data, k) = 255) # no
          => code = j
    BY <1>14, <2>2, SkipToType
  <2>4. (Byte(data, i) = 255) = no
    <3>1. Byte(data, i) # 255
      BY <1>9, <2>1
    <3> QED
      BY <1>11, <3>1
  <2>5. ASSUME NEW k \in pos..(i - 1) PROVE (Byte(data, k) = 255) # no
    <3>1. k - pos \in 0..fill /\ pos + (k - pos) = k
      BY <2>1
    <3>2. Byte(data, k) = 255
      BY <1>8, <3>1
    <3> QED
      BY <1>11, <3>2
  <2> QED
    BY <2>1, <2>2, <2>3, <2>4, <2>5
<1>16. Code(data, pos) = code
  BY <1>10, <1>11, <1>12, <1>13, <1>14 DEF Code
<1> QED
  BY <1>2, <1>9, <1>15, <1>16

\* The turn of the scan at a segment: it measures a frame header, gives up at the image data,
\* and goes on behind any other segment, whatever bytes it has.
LEMMA SegmentTurn ==
  ASSUME NEW data \in Seq(Bytes), NEW pos \in Nat, NEW s \in JpegSegments,
         Holds(data, pos, SegmentBytes(s)), NEW f, NEW turn, turn = ScanTurn(f, data, pos)
  PROVE  /\ s.marker \in FrameMarkers =>
              turn = Image("jpeg", 256 * s.body[4] + s.body[5], 256 * s.body[2] + s.body[3],
                           s.body[6])
         /\ s.marker = 218 => turn.format = "error"
         /\ s.marker \notin FrameMarkers \cup {218} =>
              turn = f[pos + Len(SegmentBytes(s))]
<1>1. PICK piece \in Seq(Bytes) : piece = SegmentBytes(s)
  BY SegmentSays
<1>2. PICK fill \in Nat, marker \in 1..254, body \in Seq(Bytes) :
         fill = s.fill /\ marker = s.marker /\ body = s.body
  BY DEF JpegSegments
<1>3. PICK l \in Nat, m \in Nat : l = Len(piece) /\ m = Len(body)
  OBVIOUS
<1>4. PICK n \in Nat : n = Len(data) /\ pos + l <= n
  BY <1>1, <1>3 DEF Holds
<1>5. PICK code \in Nat : code = pos + fill + 1
  OBVIOUS
<1>6. code = Code(data, pos) /\ Byte(data, code) = marker
  BY <1>2, <1>5, SegmentCode
<1>7. /\ marker \in Standalone => l = fill + 2
      /\ marker \notin Standalone =>
           /\ l = fill + 4 + m
           /\ 256 * piece[fill + 3] + piece[fill + 4] = m + 2
           /\ \A j \in 1..m : piece[fill + 4 + j] = body[j]
  <2>1. /\ s.marker \in Standalone => Len(piece) = s.fill + 2
        /\ s.marker \notin Standalone =>
             /\ Len(piece) = s.fill + 4 + Len(s.body)
             /\ 256 * piece[s.fill + 3] + piece[s.fill + 4] = Len(s.body) + 2
             /\ \A j \in 1..Len(s.body) : piece[s.fill + 4 + j] = s.body[j]
    BY <1>1, SegmentSays
  <2> QED
    BY <1>2, <1>3, <2>1
<1>8. code < n
  BY <1>4, <1>5, <1>7
<1>9. pos \in 0..(Len(data) + 1)
  BY <1>4
<1>10. /\ GoesOn(data, code) => turn = f[Goal(data, code)]
       /\ ~GoesOn(data, code) /\ ~Whole(data, code) =>
            turn = IF Short(data, code) THEN Bad("segment length") ELSE Bad("no frame")
       /\ Whole(data, code) /\ Byte(data, code) \in SofMarkers => turn = Frame(data, code + 1)
  BY <1>6, <1>9, ScanTurns
<1>11. SofMarkers = FrameMarkers
  BY DEF SofMarkers, FrameMarkers
<1>12. /\ 218 \in EndsHeader /\ 218 \notin Standalone
       /\ \A x \in EndsHeader : x \in Standalone \/ x = 218
       /\ \A x \in FrameMarkers : x \notin Standalone /\ x \notin EndsHeader /\ x # 218
  BY DEF EndsHeader, Standalone, FrameMarkers
<1>13. CASE marker \in Standalone
  <2>1. GoesOn(data, code) /\ Goal(data, code) = code + 1
    BY <1>4, <1>6, <1>8, <1>13 DEF GoesOn, Goal
  <2>2. code + 1 = pos + l
    BY <1>5, <1>7, <1>13
  <2>3. marker \notin FrameMarkers /\ marker # 218
    BY <1>12, <1>13
  <2> QED
    BY <1>1, <1>2, <1>3, <1>10, <2>1, <2>2, <2>3
<1>14. CASE marker = 218
  <2>1. ~GoesOn(data, code) /\ ~Whole(data, code)
    BY <1>6, <1>12, <1>14 DEF GoesOn, Whole
  <2>2. Bad("segment length").format = "error" /\ Bad("no frame").format = "error"
    BY DEF Bad
  <2>4. turn.format = "error"
    BY <1>10, <2>1, <2>2
  <2>3. marker \notin FrameMarkers
    BY <1>12, <1>14
  <2> QED
    BY <1>2, <1>14, <2>3, <2>4
<1>15. CASE marker \notin Standalone /\ marker # 218
  <2>1. ASSUME NEW k \in 0..(l - 1) PROVE Byte(data, pos + k) = piece[k + 1]
    <3>1. k \in Nat /\ k + 1 <= Len(piece) /\ Len(piece) \in Nat
      BY <1>3
    <3>2. Holds(data, pos, piece)
      BY <1>1
    <3> QED
      BY <3>1, <3>2, HoldsByte
  <2>2. l = fill + 4 + m
    BY <1>7, <1>15
  <2>3. /\ fill + 2 \in 0..(l - 1) /\ pos + (fill + 2) = code + 1 /\ (fill + 2) + 1 = fill + 3
        /\ fill + 3 \in 0..(l - 1) /\ pos + (fill + 3) = (code + 1) + 1 /\ (fill + 3) + 1 = fill + 4
    BY <1>5, <2>2
  <2>4. Byte(data, code + 1) = piece[fill + 3] /\ Byte(data, (code + 1) + 1) = piece[fill + 4]
    BY <2>1, <2>3
  <2>5. Big16(data, code + 1) = m + 2
    BY <1>7, <1>15, <2>4 DEF Big16
  <2>6. NextSegment(data, code + 1) = pos + l
    BY <1>5, <2>2, <2>5 DEF NextSegment
  <2>7. Whole(data, code)
    <3>1. code + 3 <= n /\ m + 2 >= 2
      BY <1>4, <1>5, <2>2
    <3>2. marker \notin EndsHeader
      BY <1>12, <1>15
    <3> QED
      BY <1>4, <1>6, <1>8, <1>15, <2>5, <2>6, <3>1, <3>2 DEF Whole
  <2>8. CASE marker \notin FrameMarkers
    <3>1. GoesOn(data, code) /\ Goal(data, code) = pos + l
      BY <1>6, <1>11, <1>15, <2>6, <2>7, <2>8 DEF GoesOn, Goal
    <3> QED
      BY <1>1, <1>2, <1>3, <1>10, <1>15, <2>8, <3>1
  <2>9. CASE marker \in FrameMarkers
    <3>1. turn = Frame(data, code + 1)
      BY <1>6, <1>10, <1>11, <2>7, <2>9
    <3>2. m >= 6
      BY <1>2, <1>3, <2>9 DEF JpegSegments
    <3>3. ASSUME NEW j \in 1..6 PROVE Byte(data, (code + 1) + 1 + j) = body[j]
      <4>1. PICK k \in Nat : k = fill + 3 + j
        OBVIOUS
      <4>2. /\ k \in 0..(l - 1) /\ pos + k = (code + 1) + 1 + j /\ k + 1 = fill + 4 + j
            /\ j \in 1..m
        BY <1>5, <2>2, <3>2, <4>1
      <4>3. Byte(data, pos + k) = piece[k + 1]
        BY <2>1, <4>2
      <4>4. piece[fill + 4 + j] = body[j]
        BY <1>7, <1>15, <4>2
      <4> QED
        BY <4>2, <4>3, <4>4
    <3>4. /\ Byte(data, (code + 1) + 3) = body[2] /\ Byte(data, (code + 1) + 3 + 1) = body[3]
          /\ Byte(data, (code + 1) + 5) = body[4] /\ Byte(data, (code + 1) + 5 + 1) = body[5]
          /\ Byte(data, (code + 1) + 7) = body[6]
      <4>1. /\ (code + 1) + 1 + 2 = (code + 1) + 3 /\ (code + 1) + 1 + 3 = (code + 1) + 3 + 1
            /\ (code + 1) + 1 + 4 = (code + 1) + 5 /\ (code + 1) + 1 + 5 = (code + 1) + 5 + 1
            /\ (code + 1) + 1 + 6 = (code + 1) + 7
        OBVIOUS
      <4>2. /\ Byte(data, (code + 1) + 1 + 2) = body[2] /\ Byte(data, (code + 1) + 1 + 3) = body[3]
            /\ Byte(data, (code + 1) + 1 + 4) = body[4] /\ Byte(data, (code + 1) + 1 + 5) = body[5]
            /\ Byte(data, (code + 1) + 1 + 6) = body[6]
        BY <3>3
      <4> QED
        BY <4>1, <4>2
    <3>5. ~((code + 1) + 2 + 6 > Len(data))
      BY <1>4, <1>5, <2>2, <3>2
    <3>6. Frame(data, code + 1) =
            Image("jpeg", 256 * body[4] + body[5], 256 * body[2] + body[3], body[6])
      BY <3>4, <3>5 DEF Frame, Big16
    <3>7. marker # 218
      BY <1>15
    <3> QED
      BY <1>2, <2>9, <3>1, <3>6, <3>7
  <2> QED
    BY <2>8, <2>9
<1> QED
  BY <1>13, <1>14, <1>15

\* The frame headers from the segment i on that no other one and no image data come before.
FramesFrom(segments, i) ==
  {j \in i..Len(segments) :
     /\ segments[j].marker \in FrameMarkers
     /\ \A k \in i..(j - 1) : segments[k].marker \notin FrameMarkers \cup {218}}

Measured(s) ==
  Image("jpeg", 256 * s.body[4] + s.body[5], 256 * s.body[2] + s.body[3], s.body[6])

LEMMA FramesFromNext ==
  ASSUME NEW segments, Len(segments) \in Nat, NEW i \in 1..Len(segments)
  PROVE  /\ segments[i].marker \in FrameMarkers => FramesFrom(segments, i) = {i}
         /\ segments[i].marker = 218 => FramesFrom(segments, i) = {}
         /\ segments[i].marker \notin FrameMarkers \cup {218} =>
              FramesFrom(segments, i) = FramesFrom(segments, i + 1)
<1>1. PICK m \in Nat : m = Len(segments)
  OBVIOUS
<1> DEFINE frame(j) == segments[j].marker \in FrameMarkers
           passed(j) == segments[j].marker \notin FrameMarkers \cup {218}
<1>2. \A j : j \in FramesFrom(segments, i) <=>
               j \in i..m /\ frame(j) /\ \A k \in i..(j - 1) : passed(k)
  BY <1>1 DEF FramesFrom
<1>3. \A j : j \in FramesFrom(segments, i + 1) <=>
               j \in (i + 1)..m /\ frame(j) /\ \A k \in (i + 1)..(j - 1) : passed(k)
  BY <1>1 DEF FramesFrom
<1>4. /\ segments[i].marker \in FrameMarkers => frame(i) /\ ~passed(i)
      /\ segments[i].marker = 218 => ~frame(i) /\ ~passed(i)
      /\ segments[i].marker \notin FrameMarkers \cup {218} => ~frame(i) /\ passed(i)
  BY DEF FrameMarkers
<1> HIDE DEF frame, passed
<1>5. ASSUME ~passed(i), NEW j \in FramesFrom(segments, i) PROVE j = i
  <2>1. j \in i..m /\ \A k \in i..(j - 1) : passed(k)
    BY <1>2, <1>5
  <2>2. ~(i < j)
    <3>1. i < j => i \in i..(j - 1)
      BY <2>1
    <3> QED
      BY <1>5, <2>1, <3>1
  <2> QED
    BY <2>1, <2>2
<1>6. CASE segments[i].marker \in FrameMarkers
  <2>1. i \in i..m /\ \A k \in i..(i - 1) : passed(k)
    BY <1>1
  <2>2. i \in FramesFrom(segments, i)
    BY <1>2, <1>4, <1>6, <2>1
  <2>3. FramesFrom(segments, i) = {i}
    BY <1>4, <1>5, <1>6, <2>2
  <2> QED
    BY <1>6, <2>3 DEF FrameMarkers
<1>7. CASE segments[i].marker = 218
  <2>1. i \notin FramesFrom(segments, i)
    BY <1>2, <1>4, <1>7
  <2>2. FramesFrom(segments, i) = {}
    BY <1>4, <1>5, <1>7, <2>1
  <2> QED
    BY <1>7, <2>2 DEF FrameMarkers
<1>8. CASE segments[i].marker \notin FrameMarkers \cup {218}
  <2>1. ~frame(i) /\ passed(i)
    BY <1>4, <1>8
  <2>2. ASSUME NEW j \in FramesFrom(segments, i) PROVE j \in FramesFrom(segments, i + 1)
    <3>1. j \in i..m /\ frame(j) /\ \A k \in i..(j - 1) : passed(k)
      BY <1>2, <2>2
    <3>2. j # i
      BY <2>1, <3>1
    <3>3. j \in (i + 1)..m
      BY <3>1, <3>2
    <3>4. \A k \in (i + 1)..(j - 1) : passed(k)
      <4>1. \A k \in (i + 1)..(j - 1) : k \in i..(j - 1)
        BY <3>1
      <4> QED
        BY <3>1, <4>1
    <3> QED
      BY <1>3, <3>1, <3>3, <3>4
  <2>3. ASSUME NEW j \in FramesFrom(segments, i + 1) PROVE j \in FramesFrom(segments, i)
    <3>1. j \in (i + 1)..m /\ frame(j) /\ \A k \in (i + 1)..(j - 1) : passed(k)
      BY <1>3, <2>3
    <3>2. j \in i..m
      BY <3>1
    <3>3. ASSUME NEW k \in i..(j - 1) PROVE passed(k)
      <4>1. k = i \/ k \in (i + 1)..(j - 1)
        BY <3>1
      <4> QED
        BY <2>1, <3>1, <4>1
    <3> QED
      BY <1>2, <3>1, <3>2, <3>3
  <2>4. FramesFrom(segments, i) = FramesFrom(segments, i + 1)
    BY <2>2, <2>3
  <2> QED
    BY <1>8, <2>4
<1> QED
  BY <1>6, <1>7, <1>8

LEMMA FirstFrameIs ==
  ASSUME NEW segments \in Seq(JpegSegments), EndsWithImage(segments),
         NEW frame, frame = FirstFrame(segments)
  PROVE  \/ FramesFrom(segments, 1) = {} /\ frame.format = "error"
         \/ \E j \in FramesFrom(segments, 1) :
              frame = Measured(segments[j]) /\ frame.format # "error"
<1> DEFINE frames == {i \in DOMAIN segments :
                        /\ segments[i].marker \in FrameMarkers
                        /\ \A j \in 1..(i-1) : segments[j].marker \notin FrameMarkers \cup {217, 218}}
<1>1. frames = FramesFrom(segments, 1)
  <2>1. PICK m \in Nat : m = Len(segments) /\ DOMAIN segments = 1..m
    OBVIOUS
  <2>2. FramesFrom(segments, 1) =
          {j \in 1..m : /\ segments[j].marker \in FrameMarkers
                        /\ \A k \in 1..(j-1) : segments[k].marker \notin FrameMarkers \cup {218}}
    BY <2>1 DEF FramesFrom
  <2>3. ASSUME NEW i \in 1..m, segments[i].marker \in FrameMarkers, NEW j \in 1..(i-1)
        PROVE  segments[j].marker # 217
    <3>1. j \in DOMAIN segments /\ i \in DOMAIN segments /\ j < i
      BY <2>1, <2>3
    <3> QED
      BY <2>3, <3>1 DEF EndsWithImage
  <2>4. ASSUME NEW i \in frames PROVE i \in FramesFrom(segments, 1)
    BY <2>1, <2>2, <2>4
  <2>5. ASSUME NEW i \in FramesFrom(segments, 1) PROVE i \in frames
    <3>1. /\ i \in 1..m /\ segments[i].marker \in FrameMarkers
          /\ \A k \in 1..(i-1) : segments[k].marker \notin FrameMarkers \cup {218}
      BY <2>2, <2>5
    <3>2. \A k \in 1..(i-1) : segments[k].marker \notin FrameMarkers \cup {217, 218}
      BY <2>3, <3>1
    <3> QED
      BY <2>1, <3>1, <3>2
  <2> QED
    BY <2>4, <2>5
<1>2. CASE frames = {}
  <2>1. frame = Bad("none")
    BY <1>2 DEF FirstFrame
  <2> QED
    BY <1>1, <1>2, <2>1 DEF Bad
<1>3. CASE frames # {}
  <2>1. PICK j : j = CHOOSE i \in frames : TRUE
    OBVIOUS
  <2>2. j \in frames
    BY <1>3, <2>1
  <2>3. frame = Measured(segments[j])
    BY <1>3, <2>1 DEF FirstFrame, Measured
  <2>4. frame.format # "error"
    BY <2>3 DEF Measured, Image
  <2> QED
    BY <1>1, <2>2, <2>3, <2>4
<1> QED
  BY <1>2, <1>3

\* The bytes of a file, with the segment i from the offset 2 + at[i] on.
IsJpeg(data, at, segments) ==
  /\ data \in Seq(Bytes) /\ Len(data) >= 2 /\ data[1] = 255 /\ data[2] = 216
  /\ at[1] = 0 /\ 2 + at[Len(segments) + 1] = Len(data)
  /\ \A i \in 1..Len(segments) :
       /\ at[i] \in Nat
       /\ at[i + 1] = at[i] + Len(SegmentBytes(segments[i]))
       /\ Holds(data, 2 + at[i], SegmentBytes(segments[i]))

LEMMA JpegIs ==
  ASSUME NEW segments \in Seq(JpegSegments)
  PROVE  \E at : IsJpeg(JpegBytes(segments), at, segments)
<1>1. PICK m \in Nat : m = Len(segments) /\ DOMAIN segments = 1..m
  OBVIOUS
<1>2. PICK pieces : pieces = [i \in DOMAIN segments |-> SegmentBytes(segments[i])]
  OBVIOUS
<1>3. ASSUME NEW i \in 1..m PROVE SegmentBytes(segments[i]) \in Seq(Bytes)
  <2>1. segments[i] \in JpegSegments
    BY <1>1
  <2> QED
    BY <2>1, SegmentSays
<1>4. /\ pieces \in Seq(Seq(Bytes)) /\ Len(pieces) = m
      /\ \A i \in 1..m : pieces[i] = SegmentBytes(segments[i])
  BY <1>1, <1>2, <1>3
<1>5. PICK flat \in Seq(Bytes) : flat = FlattenSeq(pieces)
  BY <1>4, FlattenType
<1>6. PICK start : start = <<255, 216>>
  OBVIOUS
<1>7. start \in Seq(Bytes) /\ Len(start) = 2 /\ start[1] = 255 /\ start[2] = 216
  BY <1>6 DEF Bytes
<1>8. PICK data : data = start \o flat
  OBVIOUS
<1>9. data = JpegBytes(segments)
  BY <1>2, <1>5, <1>6, <1>8 DEF JpegBytes
<1>10. PICK k \in Nat : k = Len(flat)
  OBVIOUS
<1>11. /\ data \in Seq(Bytes) /\ Len(data) = 2 + k
       /\ data[1] = 255 /\ data[2] = 216
       /\ \A i \in 1..k : data[2 + i] = flat[i]
  <2>1. start \in Seq(Bytes)
    BY <1>7
  <2>2. /\ data \in Seq(Bytes) /\ Len(data) = Len(start) + Len(flat)
        /\ \A i \in 1..Len(start) : data[i] = start[i]
        /\ \A i \in 1..Len(flat) : data[Len(start) + i] = flat[i]
    BY <1>8, <2>1, ConcatPlaces
  <2> QED
    BY <1>7, <1>10, <2>2
<1>12. PICK at : Places(at, pieces)
  BY <1>4, PlacesExist
<1>13. /\ at[1] = 0 /\ at[m + 1] = k
       /\ \A i \in 1..m :
            /\ at[i] \in Nat /\ at[i + 1] = at[i] + Len(pieces[i]) /\ at[i + 1] <= k
            /\ \A j \in 1..Len(pieces[i]) : flat[at[i] + j] = pieces[i][j]
  BY <1>4, <1>5, <1>10, <1>12 DEF Places
<1>14. ASSUME NEW i \in 1..m
       PROVE  /\ at[i] \in Nat
              /\ at[i + 1] = at[i] + Len(SegmentBytes(segments[i]))
              /\ Holds(data, 2 + at[i], SegmentBytes(segments[i]))
  <2>1. PICK piece \in Seq(Bytes) : piece = SegmentBytes(segments[i]) /\ piece = pieces[i]
    BY <1>3, <1>4
  <2>2. PICK l \in Nat : l = Len(piece)
    OBVIOUS
  <2>3. PICK p \in Nat : p = at[i]
    BY <1>13
  <2>4. /\ at[i + 1] = p + l /\ p + l <= k
        /\ \A j \in 1..l : flat[p + j] = piece[j]
    BY <1>13, <2>1, <2>2, <2>3
  <2>5. ASSUME NEW j \in 1..l PROVE data[(2 + p) + j] = piece[j]
    <3>1. p + j \in 1..k /\ 2 + (p + j) = (2 + p) + j
      BY <2>4
    <3> QED
      BY <1>11, <2>4, <3>1
  <2>6. (2 + p) + l <= Len(data)
    BY <1>11, <2>4
  <2>7. Holds(data, 2 + p, piece)
    BY <2>2, <2>5, <2>6 DEF Holds
  <2> QED
    BY <2>1, <2>2, <2>3, <2>4, <2>7
<1>15. 2 + at[m + 1] = Len(data) /\ Len(data) >= 2
  BY <1>11, <1>13
<1>16. IsJpeg(data, at, segments)
  BY <1>1, <1>11, <1>13, <1>14, <1>15 DEF IsJpeg
<1> QED
  BY <1>9, <1>16

\* The scan finds the first frame header.
LEMMA JpegScanned ==
  ASSUME NEW segments \in Seq(JpegSegments), NEW data, data = JpegBytes(segments)
  PROVE  /\ data \in Seq(Bytes) /\ Len(data) >= 2 /\ data[1] = 255 /\ data[2] = 216
         /\ FramesFrom(segments, 1) = {} => ScanJpeg(data).format = "error"
         /\ \A j \in FramesFrom(segments, 1) : ScanJpeg(data) = Measured(segments[j])
<1>1. PICK at : IsJpeg(data, at, segments)
  BY JpegIs
<1>2. data \in Seq(Bytes) /\ Len(data) >= 2 /\ data[1] = 255 /\ data[2] = 216
  BY <1>1 DEF IsJpeg
<1>3. PICK m \in Nat : m = Len(segments)
  OBVIOUS
<1>4. /\ at[1] = 0 /\ 2 + at[m + 1] = Len(data)
      /\ \A i \in 1..m :
           /\ at[i] \in Nat
           /\ at[i + 1] = at[i] + Len(SegmentBytes(segments[i]))
           /\ Holds(data, 2 + at[i], SegmentBytes(segments[i]))
  BY <1>1, <1>3 DEF IsJpeg
<1>5. PICK f : /\ \A pos \in 0..(Len(data) + 1) : f[pos] = ScanTurn(f, data, pos)
               /\ ScanJpeg(data) = f[2]
  BY <1>2, ScanWalks
<1> DEFINE Found(i) ==
             /\ FramesFrom(segments, i) = {} => f[2 + at[i]].format = "error"
             /\ \A j \in FramesFrom(segments, i) : f[2 + at[i]] = Measured(segments[j])
<1>6. ASSUME NEW i \in 1..m, Found(i + 1) PROVE Found(i)
  <2>1. PICK s \in JpegSegments : s = segments[i]
    BY <1>3
  <2>2. PICK pos \in Nat : pos = 2 + at[i]
    <3>1. at[i] \in Nat
      BY <1>4
    <3>2. 2 + at[i] \in Nat
      BY <3>1
    <3> QED
      BY <3>2
  <2>3. Holds(data, pos, SegmentBytes(s)) /\ 2 + at[i + 1] = pos + Len(SegmentBytes(s))
    <3>1. Len(SegmentBytes(s)) \in Nat
      BY SegmentSays
    <3>2. at[i] \in Nat /\ at[i + 1] = at[i] + Len(SegmentBytes(s))
      BY <1>4, <2>1
    <3>3. Holds(data, pos, SegmentBytes(s))
      BY <1>4, <2>1, <2>2
    <3> QED
      BY <2>2, <3>1, <3>2, <3>3
  <2>4. PICK turn : turn = ScanTurn(f, data, pos)
    OBVIOUS
  <2>5. f[2 + at[i]] = turn
    <3>1. Len(SegmentBytes(s)) \in Nat /\ Len(data) \in Nat
      BY <1>2, SegmentSays
    <3>2. pos + Len(SegmentBytes(s)) <= Len(data)
      BY <2>3 DEF Holds
    <3>3. pos \in 0..(Len(data) + 1)
      BY <3>1, <3>2
    <3> QED
      BY <1>5, <2>2, <2>4, <3>3
  <2>6. /\ s.marker \in FrameMarkers => turn = Measured(s)
        /\ s.marker = 218 => turn.format = "error"
        /\ s.marker \notin FrameMarkers \cup {218} =>
             turn = f[pos + Len(SegmentBytes(s))]
    BY <1>2, <2>3, <2>4, SegmentTurn DEF Measured
  <2>7. /\ s.marker \in FrameMarkers => FramesFrom(segments, i) = {i}
        /\ s.marker = 218 => FramesFrom(segments, i) = {}
        /\ s.marker \notin FrameMarkers \cup {218} =>
             FramesFrom(segments, i) = FramesFrom(segments, i + 1)
    BY <1>3, <2>1, FramesFromNext
  <2>8. CASE s.marker \in FrameMarkers
    BY <2>1, <2>5, <2>6, <2>7, <2>8
  <2>9. CASE s.marker = 218
    BY <2>5, <2>6, <2>7, <2>9
  <2>10. CASE s.marker \notin FrameMarkers \cup {218}
    <3>1. f[2 + at[i]] = f[2 + at[i + 1]]
      BY <2>3, <2>5, <2>6, <2>10
    <3> QED
      BY <1>6, <2>7, <2>10, <3>1
  <2> QED
    BY <2>8, <2>9, <2>10
<1>7. Found(m + 1)
  <2>1. PICK pos \in Nat : pos = 2 + at[m + 1] /\ pos = Len(data)
    BY <1>2, <1>4
  <2>2. PICK code : code = Code(data, pos)
    OBVIOUS
  <2>3. pos \in 0..(Len(data) + 1)
    BY <2>1
  <2>4. code \in 0..Len(data) /\ (code < Len(data) => pos < code)
    BY <1>2, <2>2, <2>3, CodeType
  <2>5. ~(code < Len(data))
    BY <2>1, <2>4
  <2>6. ~GoesOn(data, code) /\ ~Whole(data, code)
    BY <2>5 DEF GoesOn, Whole
  <2>7. f[pos] = IF Short(data, code) THEN Bad("segment length") ELSE Bad("no frame")
    <3>1. f[pos] = ScanTurn(f, data, pos)
      BY <1>5, <2>3
    <3>2. data \in Seq(Bytes)
      BY <1>2
    <3>3. ~GoesOn(data, code) /\ ~Whole(data, code) =>
            ScanTurn(f, data, pos) =
              IF Short(data, code) THEN Bad("segment length") ELSE Bad("no frame")
      BY <2>2, <2>3, <3>2, ScanTurns
    <3> QED
      BY <2>6, <3>1, <3>3
  <2>8. Bad("segment length").format = "error" /\ Bad("no frame").format = "error"
    BY DEF Bad
  <2>9. f[2 + at[m + 1]].format = "error"
    BY <2>1, <2>7, <2>8
  <2>10. FramesFrom(segments, m + 1) = {}
    BY <1>3 DEF FramesFrom
  <2> QED
    BY <2>9, <2>10
<1> DEFINE T == {k \in 0..m : Found(m + 1 - k)}
<1>8. m \in T
  <2> HIDE DEF Found
  <2>1. 0 \in T
    <3>1. m + 1 - 0 = m + 1
      OBVIOUS
    <3> QED
      BY <1>7, <3>1
  <2>2. ASSUME NEW k \in 0..(m - 1), k \in T PROVE k + 1 \in T
    <3>1. m - k \in 1..m /\ m + 1 - k = (m - k) + 1 /\ m + 1 - (k + 1) = m - k
      OBVIOUS
    <3>2. Found((m - k) + 1)
      BY <2>2, <3>1
    <3>3. Found(m - k)
      BY <1>6, <3>1, <3>2
    <3> QED
      BY <3>1, <3>3
  <2> HIDE DEF T
  <2> QED
    BY <2>1, <2>2, CountUp
<1>9. Found(1)
  <2> HIDE DEF Found
  <2>1. m + 1 - m = 1
    OBVIOUS
  <2> QED
    BY <1>8, <2>1
<1>10. 2 + at[1] = 2
  BY <1>4
<1> QED
  BY <1>2, <1>5, <1>9, <1>10

LEMMA StartIsJpeg ==
  ASSUME NEW data \in Seq(Bytes), Len(data) >= 8, data[1] = 255, data[2] = 216
  PROVE  ProbeImage(data) = ScanJpeg(data)
<1>1. ~StartsWith(data, PngSignature)
  BY DEF StartsWith, PngSignature
<1>2. StartsWith(data, <<255, 216>>)
  BY DEF StartsWith
<1>3. ~(Len(data) < 8)
  OBVIOUS
<1> QED
  BY <1>1, <1>2, <1>3 DEF ProbeImage

\* probe_image reports for every JPEG file without a frame header after the end of its image,
\* whatever its segments and however many, the size in the frame header that a decoder would use,
\* and an error where the scan or the end of the image comes before one; and for such a file that
\* is cut off anywhere the same size or an error (_probe_jpeg).
THEOREM JpegsAreAlwaysMeasured ==
  ASSUME NEW segments \in Seq(JpegSegments), EndsWithImage(segments)
  PROVE  ProbeFindsFrame(segments) /\ TruncationNeverLies(segments)
<1>1. PICK data : data = JpegBytes(segments)
  OBVIOUS
<1>2. /\ data \in Seq(Bytes) /\ Len(data) >= 2 /\ data[1] = 255 /\ data[2] = 216
      /\ FramesFrom(segments, 1) = {} => ScanJpeg(data).format = "error"
      /\ \A j \in FramesFrom(segments, 1) : ScanJpeg(data) = Measured(segments[j])
  BY <1>1, JpegScanned
<1>3. PICK frame : frame = FirstFrame(segments)
  OBVIOUS
<1>4. \/ FramesFrom(segments, 1) = {} /\ frame.format = "error"
      \/ \E j \in FramesFrom(segments, 1) :
           frame = Measured(segments[j]) /\ frame.format # "error"
  BY <1>3, FirstFrameIs
<1>5. IF frame.format = "error" THEN ScanJpeg(data).format = "error" ELSE ScanJpeg(data) = frame
  BY <1>2, <1>4
<1>6. ProbeFindsFrame(segments)
  <2>1. Len(data) >= 8 => ProbeImage(data) = ScanJpeg(data)
    BY <1>2, StartIsJpeg
  <2> QED
    BY <1>1, <1>3, <1>5, <2>1 DEF ProbeFindsFrame
<1>7. ASSUME NEW n \in 0..Len(data), NEW part, part = SubSeq(data, 1, n)
      PROVE  ProbeImage(part).format = "error" \/ ProbeImage(part) = frame
  <2>1. Cut(data, n, part)
    BY <1>2, <1>7, CutIs
  <2>2. part \in Seq(Bytes) /\ Len(part) = n /\ n \in Nat
    BY <1>7, <2>1 DEF Cut
  <2>3. CASE n < 8
    <3>1. ProbeImage(part) = Bad("too small")
      BY <2>2, <2>3 DEF ProbeImage
    <3>2. Bad("too small").format = "error"
      BY DEF Bad
    <3> QED
      BY <3>1, <3>2
  <2>4. CASE n >= 8
    <3>1. part[1] = 255 /\ part[2] = 216
      BY <1>2, <1>7, <2>4
    <3>2. ProbeImage(part) = ScanJpeg(part)
      BY <2>2, <2>4, <3>1, StartIsJpeg
    <3>3. Len(data) >= 1 /\ n \in 1..Len(data)
      BY <1>2, <2>4
    <3>4. ScanJpeg(part).format = "error" \/ ScanJpeg(part) = ScanJpeg(data)
      BY <1>2, <2>1, <3>3, ScanCut
    <3> QED
      BY <1>5, <3>2, <3>4
  <2> QED
    BY <2>2, <2>3, <2>4
<1>8. TruncationNeverLies(segments)
  BY <1>1, <1>3, <1>7 DEF TruncationNeverLies
<1> QED
  BY <1>6, <1>8

\* Probes tell the size of the image, or that they cannot, in every state whose input is a JPEG
\* file, unless a frame header follows the end of the image: the invariant of the run, whose
\* files have three segments (probe_image).
THEOREM ProbesAlwaysTellTheSize ==
  ASSUME input.of = "jpeg" => input.segments \in Seq(JpegSegments)
  PROVE  ProbesTellTheSize
BY JpegsAreAlwaysMeasured DEF ProbesTellTheSize, FramesAreFound, TruncationsNeverLie
-----------------------------------------------------------------------------
(* Texts of which each piece is one element or nothing. *)

\* u is put together from the pieces at the places at.
Picks(pieces, u, at) ==
  /\ \A k \in DOMAIN u :
       at[k] \in DOMAIN pieces /\ pieces[at[k]] # <<>> /\ pieces[at[k]][1] = u[k]
  /\ \A k, l \in DOMAIN u : k < l => at[k] < at[l]
  /\ \A i \in DOMAIN pieces : pieces[i] # <<>> => \E k \in DOMAIN u : at[k] = i

LEMMA PicksSame ==
  ASSUME NEW m \in Nat, NEW p, NEW q, NEW u, NEW at, Picks(p, u, at),
         DOMAIN p = 1..m, DOMAIN q = 1..(m + 1), \A i \in 1..m : q[i] = p[i], q[m + 1] = <<>>
  PROVE  Picks(q, u, at)
<1>1. \A k \in DOMAIN u : at[k] \in DOMAIN q /\ q[at[k]] # <<>> /\ q[at[k]][1] = u[k]
  <2> TAKE k \in DOMAIN u
  <2>1. at[k] \in 1..m /\ p[at[k]] # <<>> /\ p[at[k]][1] = u[k]
    BY DEF Picks
  <2>2. at[k] \in 1..(m + 1) /\ q[at[k]] = p[at[k]]
    BY <2>1
  <2> QED
    BY <2>1, <2>2
<1>2. ASSUME NEW i \in DOMAIN q, q[i] # <<>> PROVE \E k \in DOMAIN u : at[k] = i
  <2>1. i \in 1..m
    BY <1>2
  <2>2. i \in DOMAIN p /\ p[i] # <<>>
    BY <1>2, <2>1
  <2> QED
    BY <2>2 DEF Picks
<1>3. \A k, l \in DOMAIN u : k < l => at[k] < at[l]
  BY DEF Picks
<1> QED
  BY <1>1, <1>2, <1>3 DEF Picks

\* long goes on with c after the n elements of short.
Longer(n, short, long, c) == (\A i \in 1..n : long[i] = short[i]) /\ long[n + 1] = c

LEMMA PicksOneMore ==
  ASSUME NEW m \in Nat, NEW n \in Nat, NEW p, NEW q, NEW u, NEW v, NEW at, NEW new, NEW x,
         Picks(p, u, at), DOMAIN p = 1..m, DOMAIN q = 1..(m + 1), Longer(m, p, q, <<x>>),
         DOMAIN u = 1..n, DOMAIN v = 1..(n + 1), Longer(n, u, v, x), Longer(n, at, new, m + 1)
  PROVE  Picks(q, v, new)
<1> USE DEF Longer
<1>1. \A k \in 1..n : at[k] \in 1..m /\ p[at[k]] # <<>> /\ p[at[k]][1] = u[k]
  BY DEF Picks
<1>2. \A k, l \in 1..n : k < l => at[k] < at[l]
  BY DEF Picks
<1>3. ASSUME NEW k \in 1..(n + 1)
      PROVE  new[k] \in 1..(m + 1) /\ q[new[k]] # <<>> /\ q[new[k]][1] = v[k]
  <2>1. CASE k \in 1..n
    <3>1. new[k] \in 1..m /\ p[new[k]] # <<>> /\ p[new[k]][1] = v[k]
      BY <1>1, <2>1
    <3>2. q[new[k]] = p[new[k]]
      BY <3>1
    <3> QED
      BY <3>1, <3>2
  <2>2. CASE k = n + 1
    <3>1. q[new[k]] = <<x>> /\ v[k] = x /\ new[k] = m + 1
      BY <2>2
    <3> QED
      BY <3>1
  <2> QED
    BY <2>1, <2>2
<1>4. ASSUME NEW k \in 1..(n + 1), NEW l \in 1..(n + 1), k < l PROVE new[k] < new[l]
  <2>1. k \in 1..n
    BY <1>4
  <2>2. CASE l \in 1..n
    BY <1>2, <1>4, <2>1, <2>2
  <2>3. CASE l = n + 1
    BY <1>1, <2>1, <2>3
  <2> QED
    BY <2>2, <2>3
<1>5. ASSUME NEW i \in 1..(m + 1), q[i] # <<>> PROVE \E k \in 1..(n + 1) : new[k] = i
  <2>1. CASE i = m + 1
    BY <2>1
  <2>2. CASE i \in 1..m
    <3>1. i \in DOMAIN p /\ p[i] # <<>>
      BY <1>5, <2>2
    <3>2. PICK k \in 1..n : at[k] = i
      BY <3>1 DEF Picks
    <3>3. k \in 1..(n + 1) /\ new[k] = i
      BY <3>2
    <3> QED
      BY <3>3
  <2> QED
    BY <2>1, <2>2
<1> QED
  BY <1>3, <1>4, <1>5 DEF Picks

\* What a place may give: one element, or nothing.
OneOrNone(S) == {<<>>} \cup {<<x>> : x \in S}

LEMMA PiecesArePicked ==
  ASSUME NEW S, NEW pieces \in Seq(OneOrNone(S))
  PROVE  /\ FlattenSeq(pieces) \in Seq(S)
         /\ \E at : Picks(pieces, FlattenSeq(pieces), at)
<1> DEFINE T == {p \in Seq(OneOrNone(S)) :
                   FlattenSeq(p) \in Seq(S) /\ \E at : Picks(p, FlattenSeq(p), at)}
<1>0. OneOrNone(S) \subseteq Seq(S)
  <2>1. <<>> \in Seq(S) /\ \A x \in S : <<x>> \in Seq(S)
    OBVIOUS
  <2> QED
    BY <2>1, Zenon DEF OneOrNone
<1>1. <<>> \in T
  <2>1. FlattenSeq(<<>>) = <<>>
    BY DEF FlattenSeq
  <2>2. Picks(<<>>, <<>>, <<>>)
    BY DEF Picks
  <2>3. <<>> \in Seq(OneOrNone(S)) /\ <<>> \in Seq(S)
    OBVIOUS
  <2> QED
    BY <2>1, <2>2, <2>3
<1>2. ASSUME NEW p \in Seq(OneOrNone(S)), NEW c \in OneOrNone(S), p \in T
      PROVE  Append(p, c) \in T
  <2>1. PICK q, u, v : q = Append(p, c) /\ u = FlattenSeq(p) /\ v = FlattenSeq(q)
    OBVIOUS
  <2>2. PICK at : Picks(p, u, at)
    BY <1>2, <2>1
  <2>3. u \in Seq(S)
    BY <1>2, <2>1
  <2>4. PICK m \in Nat : m = Len(p)
    OBVIOUS
  <2>5. /\ q \in Seq(OneOrNone(S)) /\ DOMAIN p = 1..m /\ DOMAIN q = 1..(m + 1)
        /\ \A i \in 1..m : q[i] = p[i]
        /\ q[m + 1] = c
    BY <2>1, <2>4, Appended
  <2>6. v = u \o c
    <3>1. p \in Seq(Seq(S)) /\ c \in Seq(S)
      BY <1>0
    <3> QED
      BY <2>1, <3>1, FlattenAppend
  <2>7. CASE c = <<>>
    <3>1. v = u
      BY <2>3, <2>6, <2>7
    <3>2. Picks(q, u, at)
      BY <2>2, <2>5, <2>7, PicksSame
    <3> QED
      BY <2>1, <2>3, <2>5, <3>1, <3>2
  <2>8. ASSUME NEW x \in S, c = <<x>> PROVE q \in T
    <3>1. v = Append(u, x)
      BY <2>3, <2>6, <2>8
    <3>2. PICK n \in Nat : n = Len(u)
      BY <2>3
    <3>3. /\ v \in Seq(S) /\ DOMAIN u = 1..n /\ DOMAIN v = 1..(n + 1)
          /\ Longer(n, u, v, x)
      BY <2>3, <3>1, <3>2, Appended DEF Longer
    <3>4. PICK new : new = [k \in 1..(n + 1) |-> IF k <= n THEN at[k] ELSE m + 1]
      OBVIOUS
    <3>5. Longer(n, at, new, m + 1)
      BY <3>4 DEF Longer
    <3>6. Picks(q, v, new)
      <4>1. Longer(m, p, q, <<x>>)
        BY <2>5, <2>8 DEF Longer
      <4> QED
        BY <2>2, <2>5, <3>3, <3>5, <4>1, PicksOneMore, Zenon
    <3> QED
      BY <2>1, <2>5, <3>3, <3>6
  <2> QED
    BY <2>1, <2>7, <2>8 DEF OneOrNone
<1>3. \A p \in Seq(OneOrNone(S)) : p \in T
  <2> HIDE DEF T
  <2> QED
    BY <1>1, <1>2, GrowUp
<1> QED
  BY <1>3
-----------------------------------------------------------------------------
(* The summary of a list of detections. *)

IsNew(values, i) == values[i] # Nothing /\ \A j \in 1..(i - 1) : values[j] # values[i]
NewPiece(values, i) == IF IsNew(values, i) THEN <<values[i]>> ELSE <<>>

\* The elements of u are those of values that are new where they stand.
NewOnes(values, u, at) ==
  /\ \A k \in DOMAIN u : /\ at[k] \in DOMAIN values
                         /\ IsNew(values, at[k])
                         /\ values[at[k]] = u[k]
  /\ \A k, l \in DOMAIN u : k < l => at[k] < at[l]
  /\ \A i \in DOMAIN values : IsNew(values, i) => \E k \in DOMAIN u : at[k] = i

LEMMA UniqueSays ==
  ASSUME NEW S, NEW values \in Seq(S)
  PROVE  /\ OrderedUnique(values) \in Seq(S)
         /\ \E at : NewOnes(values, OrderedUnique(values), at)
<1>1. PICK pieces : pieces = [i \in DOMAIN values |-> NewPiece(values, i)]
  OBVIOUS
<1>2. OrderedUnique(values) = FlattenSeq(pieces)
  BY <1>1 DEF OrderedUnique, NewPiece, IsNew
<1>3. PICK n \in Nat : n = Len(values)
  OBVIOUS
<1>4. DOMAIN values = 1..n /\ \A i \in 1..n : values[i] \in S
  BY <1>3
<1>5. \A i \in 1..n : pieces[i] = NewPiece(values, i)
  BY <1>1, <1>4
<1>6. \A i \in 1..n : pieces[i] \in OneOrNone(S)
  BY <1>4, <1>5 DEF NewPiece, OneOrNone
<1>7. pieces \in Seq(OneOrNone(S)) /\ DOMAIN pieces = 1..n
  BY <1>1, <1>4, <1>6
<1>8. PICK u : u = FlattenSeq(pieces)
  OBVIOUS
<1>9. u \in Seq(S) /\ \E at : Picks(pieces, u, at)
  BY <1>7, <1>8, PiecesArePicked
<1>10. PICK at : Picks(pieces, u, at)
  BY <1>9
<1>11. ASSUME NEW k \in DOMAIN u
       PROVE  at[k] \in DOMAIN values /\ IsNew(values, at[k]) /\ values[at[k]] = u[k]
  <2>1. at[k] \in 1..n /\ pieces[at[k]] # <<>> /\ pieces[at[k]][1] = u[k]
    BY <1>7, <1>10 DEF Picks
  <2>2. pieces[at[k]] = NewPiece(values, at[k])
    BY <1>5, <2>1
  <2> QED
    BY <1>4, <2>1, <2>2 DEF NewPiece
<1>12. ASSUME NEW i \in DOMAIN values, IsNew(values, i) PROVE \E k \in DOMAIN u : at[k] = i
  <2>1. pieces[i] = <<values[i]>>
    BY <1>4, <1>5, <1>12 DEF NewPiece
  <2>2. i \in DOMAIN pieces /\ pieces[i] # <<>>
    BY <1>4, <1>7, <2>1
  <2> QED
    BY <1>10, <2>2 DEF Picks
<1>13. \A k, l \in DOMAIN u : k < l => at[k] < at[l]
  BY <1>10 DEF Picks
<1>14. NewOnes(values, u, at)
  BY <1>11, <1>12, <1>13 DEF NewOnes
<1> QED
  BY <1>2, <1>8, <1>9, <1>14

(***************************************************************************)
(* The summary of a detection names every class, once, in the order in     *)
(* which they first appear (_ordered_unique), for any number of objects.   *)
(***************************************************************************)
THEOREM SummariesAlwaysNameClasses ==
  ASSUME NEW S, NEW objects \in Seq(S)
  PROVE  SummaryNamesClasses(objects)
<1>1. PICK n \in Nat : n = Len(objects)
  OBVIOUS
<1>2. PICK values : values = [i \in DOMAIN objects |-> objects[i].class]
  OBVIOUS
<1>3. PICK u : u = ObjectSummary(objects).classes
  OBVIOUS
<1> DEFINE Classes == {objects[i].class : i \in DOMAIN objects}
<1>4. DOMAIN objects = 1..n /\ DOMAIN values = 1..n /\ \A i \in 1..n : values[i] = objects[i].class
  BY <1>1, <1>2
<1>5. values \in Seq(Classes)
  BY <1>2, <1>4
<1>6. u = OrderedUnique(values)
  BY <1>2, <1>3 DEF ObjectSummary
<1>7. u \in Seq(Classes) /\ \E at : NewOnes(values, u, at)
  BY <1>5, <1>6, UniqueSays
<1>8. PICK at : NewOnes(values, u, at)
  BY <1>7
<1>9. \A k \in DOMAIN u : at[k] \in 1..n /\ IsNew(values, at[k]) /\ values[at[k]] = u[k]
  BY <1>4, <1>8 DEF NewOnes
<1>10. ASSUME NEW i \in 1..n, values[i] # Nothing
       PROVE  \E k \in DOMAIN u : u[k] = values[i]
  <2> DEFINE same == {j \in 1..n : values[j] = values[i]}
  <2>1. First(same) \in same /\ \A j \in same : First(same) <= j
    <3>1. same \in SUBSET Nat /\ same # {}
      OBVIOUS
    <3> HIDE DEF same
    <3> QED
      BY <3>1, FirstIsFirst
  <2>2. PICK f : f = First(same)
    OBVIOUS
  <2>3. f \in 1..n /\ values[f] = values[i] /\ \A j \in 1..(f - 1) : values[j] # values[f]
    <3>1. f \in 1..n /\ values[f] = values[i]
      BY <2>1, <2>2
    <3>2. \A j \in 1..n : values[j] = values[i] => f <= j
      BY <2>1, <2>2
    <3>3. \A j \in 1..(f - 1) : j \in 1..n /\ ~(f <= j)
      BY <3>1
    <3> QED
      BY <3>1, <3>2, <3>3
  <2>4. IsNew(values, f)
    BY <1>10, <2>3 DEF IsNew
  <2>5. PICK k \in DOMAIN u : at[k] = f
    BY <1>4, <1>8, <2>3, <2>4 DEF NewOnes
  <2> QED
    BY <1>9, <2>3, <2>5
<1>11. ToSet(u) = Classes \ {Nothing}
  <2>1. ToSet(u) = {u[k] : k \in DOMAIN u}
    BY <1>7 DEF ToSet
  <2>2. \A k \in DOMAIN u : u[k] \in Classes \ {Nothing}
    BY <1>4, <1>9 DEF IsNew
  <2>3. \A i \in DOMAIN objects : objects[i].class # Nothing => \E k \in DOMAIN u : u[k] = objects[i].class
    BY <1>4, <1>10
  <2> QED
    BY <2>1, <2>2, <2>3
<1> DEFINE first(c) == CHOOSE i \in DOMAIN objects :
                         objects[i].class = c /\ \A j \in 1..(i-1) : objects[j].class # c
<1>12. ASSUME NEW k \in DOMAIN u PROVE first(u[k]) = at[k]
  <2>1. PICK c, i : c = u[k] /\ i = at[k]
    OBVIOUS
  <2>2. i \in 1..n /\ values[i] = c /\ \A j \in 1..(i - 1) : values[j] # c
    BY <1>9, <2>1 DEF IsNew
  <2>3. i \in DOMAIN objects /\ objects[i].class = c /\ \A j \in 1..(i - 1) : objects[j].class # c
    <3>1. \A j \in 1..(i - 1) : j \in 1..n
      BY <1>4, <2>2
    <3> QED
      BY <1>4, <2>2, <3>1
  <2>4. ASSUME NEW j \in DOMAIN objects, objects[j].class = c,
               \A l \in 1..(j - 1) : objects[l].class # c
        PROVE  j = i
    <3>1. j \in 1..n /\ i \in 1..n
      BY <1>4, <2>2
    <3>2. ~(i < j)
      BY <2>3, <2>4, <3>1
    <3>3. ~(j < i)
      BY <2>3, <2>4, <3>1
    <3> QED
      BY <3>1, <3>2, <3>3
  <2>5. first(c) = i
    BY <2>3, <2>4
  <2> QED
    BY <2>1, <2>5
<1>13. \A k, l \in DOMAIN u : k < l => first(u[k]) < first(u[l])
  <2>1. \A k, l \in DOMAIN u : k < l => at[k] < at[l]
    BY <1>8 DEF NewOnes
  <2> HIDE DEF first
  <2> QED
    BY <1>12, <2>1
<1> QED
  BY <1>3, <1>11, <1>13 DEF SummaryNamesClasses
-----------------------------------------------------------------------------
(* The answer in the output of the one-shot demo. *)

LEMMA GreatestInRange ==
  ASSUME NEW n \in Nat, NEW T \in SUBSET (1..n), T # {}
  PROVE  \E i \in T : \A j \in T : j <= i
<1> DEFINE away == {n - i : i \in T}
<1>1. away \in SUBSET Nat /\ away # {}
  <2>1. \A i \in T : i \in 1..n
    OBVIOUS
  <2>2. \A i \in T : n - i \in Nat
    BY <2>1
  <2> QED
    BY <2>2
<1>2. First(away) \in away /\ \A j \in away : First(away) <= j
  <2> HIDE DEF away
  <2> QED
    BY <1>1, FirstIsFirst
<1>3. PICK i \in T : First(away) = n - i
  BY <1>2
<1>4. \A j \in T : n - i <= n - j
  BY <1>2, <1>3
<1>5. \A j \in T : j <= i
  BY <1>4
<1> QED
  BY <1>5

\* A text from its first to its last solid character.
Span(s, i, j) ==
  /\ i \in DOMAIN s /\ j \in DOMAIN s /\ i <= j
  /\ s[i] \notin Blank /\ s[j] \notin Blank
  /\ \A k \in DOMAIN s : s[k] \notin Blank => i <= k /\ k <= j

LEMMA StripIsSpan ==
  ASSUME NEW s, NEW i, NEW j, NEW n \in Nat, DOMAIN s = 1..n, Span(s, i, j)
  PROVE  Strip(s) = SubSeq(s, i, j)
<1>1. PICK solid : solid = {k \in DOMAIN s : s[k] \notin Blank}
  OBVIOUS
<1>2. i \in solid /\ j \in solid /\ \A k \in solid : i <= k /\ k <= j
  BY <1>1 DEF Span
<1>3. solid \subseteq 1..n
  BY <1>1
<1>4. \A x \in solid : (\A k \in solid : x <= k) => x = i
  BY <1>2, <1>3
<1>5. \A x \in solid : (\A k \in solid : k <= x) => x = j
  BY <1>2, <1>3
<1>6. (CHOOSE x \in solid : \A k \in solid : x <= k) = i
  BY <1>2, <1>4
<1>7. (CHOOSE x \in solid : \A k \in solid : k <= x) = j
  BY <1>2, <1>5
<1>8. solid # {}
  BY <1>2
<1> QED
  BY <1>1, <1>6, <1>7, <1>8 DEF Strip

LEMMA StripOfBlanks ==
  ASSUME NEW s, \A k \in DOMAIN s : s[k] \in Blank
  PROVE  Strip(s) = <<>>
BY DEF Strip

LEMMA SpanExists ==
  ASSUME NEW s, NEW n \in Nat, DOMAIN s = 1..n, NEW x \in DOMAIN s, s[x] \notin Blank
  PROVE  \E i, j : Span(s, i, j)
<1> DEFINE solid == {k \in 1..n : s[k] \notin Blank}
<1>1. solid \in SUBSET (1..n) /\ solid # {}
  OBVIOUS
<1>2. First(solid) \in solid /\ \A k \in solid : First(solid) <= k
  <2>1. solid \in SUBSET Nat
    OBVIOUS
  <2> HIDE DEF solid
  <2> QED
    BY <1>1, <2>1, FirstIsFirst
<1>3. PICK j \in solid : \A k \in solid : k <= j
  <2> HIDE DEF solid
  <2> QED
    BY <1>1, GreatestInRange
<1>4. PICK i : i = First(solid)
  OBVIOUS
<1>5. i \in solid /\ j \in solid /\ \A k \in solid : i <= k /\ k <= j
  BY <1>2, <1>3, <1>4
<1>6. Span(s, i, j)
  BY <1>5 DEF Span
<1> QED
  BY <1>6

\* A blank at the end is stripped.
LEMMA StripForgetsBlank ==
  ASSUME NEW S, NEW s \in Seq(S), NEW b \in S, b \in Blank
  PROVE  Strip(Append(s, b)) = Strip(s)
<1>1. PICK n \in Nat : n = Len(s)
  OBVIOUS
<1>2. PICK t : t = Append(s, b)
  OBVIOUS
<1>3. /\ DOMAIN s = 1..n /\ DOMAIN t = 1..(n + 1)
      /\ \A k \in 1..n : t[k] = s[k]
      /\ t[n + 1] \in Blank
  BY <1>1, <1>2, Appended
<1>4. CASE \A k \in DOMAIN s : s[k] \in Blank
  <2>1. \A k \in DOMAIN t : t[k] \in Blank
    BY <1>3, <1>4
  <2>2. Strip(t) = <<>> /\ Strip(s) = <<>>
    BY <1>4, <2>1, StripOfBlanks
  <2> QED
    BY <1>2, <2>2
<1>5. CASE \E k \in DOMAIN s : s[k] \notin Blank
  <2>1. PICK i, j : Span(s, i, j)
    BY <1>3, <1>5, SpanExists
  <2>2. i \in 1..n /\ j \in 1..n
    BY <1>3, <2>1 DEF Span
  <2>3. Span(t, i, j)
    <3>1. \A k \in 1..(n + 1) : t[k] \notin Blank => k \in 1..n /\ s[k] \notin Blank
      BY <1>3
    <3>2. t[i] = s[i] /\ t[j] = s[j] /\ i \in 1..(n + 1) /\ j \in 1..(n + 1)
      BY <1>3, <2>2
    <3> QED
      BY <1>3, <2>1, <3>1, <3>2 DEF Span
  <2>4. Strip(s) = SubSeq(s, i, j)
    BY <1>3, <2>1, StripIsSpan
  <2>5. Strip(t) = SubSeq(t, i, j)
    BY <1>3, <2>3, StripIsSpan
  <2>6. SubSeq(t, i, j) = SubSeq(s, i, j)
    <3>1. SubSeq(t, i, j) = [k \in 1..((j - i) + 1) |-> t[(i + k) - 1]]
      BY <1>3, <2>2
    <3>2. SubSeq(s, i, j) = [k \in 1..((j - i) + 1) |-> s[(i + k) - 1]]
      BY <1>3, <2>2
    <3>3. \A k \in 1..((j - i) + 1) : t[(i + k) - 1] = s[(i + k) - 1]
      <4>1. \A k \in 1..((j - i) + 1) : (i + k) - 1 \in 1..n
        BY <2>2
      <4> QED
        BY <1>3, <4>1
    <3> QED
      BY <3>1, <3>2, <3>3
  <2> QED
    BY <1>2, <2>4, <2>5, <2>6
<1> QED
  BY <1>4, <1>5

UncolouredPiece(c) == IF c = "e" THEN <<>> ELSE <<c>>

LEMMA UncolouredAppend ==
  ASSUME NEW S, NEW s \in Seq(S), NEW c \in S
  PROVE  /\ Uncoloured(s) \in Seq(S)
         /\ Uncoloured(Append(s, c)) = Uncoloured(s) \o UncolouredPiece(c)
<1>1. PICK n \in Nat : n = Len(s)
  OBVIOUS
<1>2. PICK t : t = Append(s, c)
  OBVIOUS
<1>3. /\ DOMAIN s = 1..n /\ DOMAIN t = 1..(n + 1)
      /\ \A k \in 1..n : t[k] = s[k]
      /\ t[n + 1] = c
      /\ t \in Seq(S)
  BY <1>1, <1>2, Appended
<1>4. PICK short, long : /\ short = [k \in 1..n |-> UncolouredPiece(s[k])]
                         /\ long = [k \in 1..(n + 1) |-> UncolouredPiece(t[k])]
  OBVIOUS
<1>5. /\ Uncoloured(s) = FlattenSeq(short)
      /\ Uncoloured(t) = FlattenSeq(long)
  BY <1>3, <1>4 DEF Uncoloured, UncolouredPiece
<1>6. \A x \in S : UncolouredPiece(x) \in Seq(S)
  <2>1. <<>> \in Seq(S) /\ \A x \in S : <<x>> \in Seq(S)
    OBVIOUS
  <2> QED
    BY <2>1 DEF UncolouredPiece
<1>7. (\A k \in 1..n : s[k] \in S) /\ (\A k \in 1..(n + 1) : t[k] \in S)
  BY <1>1, <1>3
<1>8. short \in Seq(Seq(S)) /\ long \in Seq(Seq(S)) /\ Len(short) = n /\ Len(long) = n + 1
  BY <1>4, <1>6, <1>7
<1>9. (\A i \in 1..n : long[i] = short[i]) /\ long[n + 1] = UncolouredPiece(c)
  BY <1>3, <1>4
<1>10. FlattenSeq(long) = FlattenSeq(short) \o UncolouredPiece(c)
  BY <1>8, <1>9, PiecesGrow
<1>11. FlattenSeq(short) \in Seq(S)
  BY <1>8, FlattenType
<1> QED
  BY <1>2, <1>5, <1>10, <1>11

\* What is told of a text does not depend on the blanks it ends in.
LEMMA CleanForgetsBlank ==
  ASSUME NEW S, NEW s \in Seq(S), NEW b \in S, b \in Blank
  PROVE  Strip(Uncoloured(Append(s, b))) = Strip(Uncoloured(s))
<1>1. Uncoloured(s) \in Seq(S)
  BY UncolouredAppend
<1>2. Uncoloured(Append(s, b)) = Uncoloured(s) \o UncolouredPiece(b)
  BY UncolouredAppend
<1>3. UncolouredPiece(b) = <<b>>
  BY DEF UncolouredPiece, Blank
<1>4. Uncoloured(s) \o <<b>> = Append(Uncoloured(s), b)
  BY <1>1
<1>5. Strip(Append(Uncoloured(s), b)) = Strip(Uncoloured(s))
  BY <1>1, StripForgetsBlank
<1> QED
  BY <1>2, <1>3, <1>4, <1>5

LEMMA CleanForgetsBlanks ==
  ASSUME NEW S, NEW out \in Seq(S), NEW a \in 1..Len(out), NEW l \in a..Len(out),
         NEW e \in l..Len(out), \A k \in (l + 1)..e : out[k] \in Blank
  PROVE  Strip(Uncoloured(SubSeq(out, a, e))) = Strip(Uncoloured(SubSeq(out, a, l)))
<1> DEFINE Clean(m) == Strip(Uncoloured(SubSeq(out, a, m)))
           T == {d \in 0..(e - l) : Clean(l + d) = Clean(l)}
<1>1. PICK n \in Nat : n = Len(out)
  OBVIOUS
<1>2. a \in Nat /\ l \in Nat /\ e \in Nat /\ 1 <= a /\ a <= l /\ l <= e /\ e <= n
  BY <1>1
<1>3. 0 \in T
  BY <1>2
<1>4. ASSUME NEW d \in 0..((e - l) - 1), d \in T PROVE d + 1 \in T
  <2>1. PICK m \in Nat : m = l + d /\ m + 1 = l + (d + 1) /\ a <= m /\ m + 1 <= n /\ m + 1 \in (l + 1)..e
    BY <1>2
  <2>2. /\ SubSeq(out, a, m) \in Seq(S) /\ out[m + 1] \in S
        /\ SubSeq(out, a, m + 1) = Append(SubSeq(out, a, m), out[m + 1])
    <3>1. m + 1 \in 1..Len(out)
      BY <1>1, <1>2, <2>1
    <3>2. out[m + 1] \in S
      BY <3>1, ElementOfSeq
    <3>3. SubSeq(out, a, m) \in Seq(S)
      BY <1>1, <1>2, <2>1
    <3>4. SubSeq(out, a, m + 1) = Append(SubSeq(out, a, m), out[m + 1])
      BY <1>1, <1>2, <2>1
    <3> QED
      BY <3>2, <3>3, <3>4
  <2>3. out[m + 1] \in Blank
    BY <2>1
  <2>4. Clean(m + 1) = Clean(m)
    <3>1. PICK s, b : s = SubSeq(out, a, m) /\ b = out[m + 1]
      OBVIOUS
    <3>2. s \in Seq(S) /\ b \in S /\ b \in Blank
      BY <2>2, <2>3, <3>1
    <3>3. Strip(Uncoloured(Append(s, b))) = Strip(Uncoloured(s))
      BY <3>2, CleanForgetsBlank
    <3> QED
      BY <2>2, <3>1, <3>3
  <2>5. Clean(l + d) = Clean(l)
    BY <1>4
  <2>6. d + 1 \in 0..(e - l)
    BY <1>2
  <2> QED
    BY <2>1, <2>4, <2>5, <2>6
<1>5. e - l \in T
  <2>1. e - l \in Nat
    BY <1>2
  <2> HIDE DEF T
  <2> QED
    BY <1>3, <1>4, <2>1, CountUp
<1>6. l + (e - l) = e
  BY <1>2
<1> QED
  BY <1>5, <1>6

LEMMA LeastIs ==
  ASSUME NEW T \in SUBSET Nat, NEW x \in T, \A i \in T : x <= i, NEW default
  PROVE  LeastOf(T, default) = x
<1>1. \A y \in T : (\A i \in T : y <= i) => y = x
  <2>1. \A y \in T : y \in Nat
    OBVIOUS
  <2> QED
    BY <2>1
<1> QED
  BY <1>1 DEF LeastOf

LEMMA LeastExists ==
  ASSUME NEW T \in SUBSET Nat, T # {}, NEW default
  PROVE  LeastOf(T, default) \in T /\ \A i \in T : LeastOf(T, default) <= i
<1>1. First(T) \in T /\ \A i \in T : First(T) <= i
  BY FirstIsFirst
<1>2. LeastOf(T, default) = First(T)
  BY <1>1, LeastIs
<1> QED
  BY <1>1, <1>2

\* A line end at i, behind which only white space comes before the User: at j.
PromptBehind(out, i, j) == out[i] = "n" /\ out[j] = "U" /\ \A k \in (i + 1)..(j - 1) : out[k] \in Blank

\* The turn behind the Answer: at start, which ends before p and is solid from a to l.
TurnBehind(out, start, p, a, l) ==
  /\ a \in (start + 1)..(p - 1) /\ l \in a..(p - 1)
  /\ out[a] \notin Blank /\ out[l] \notin Blank
  /\ \A k \in (start + 1)..(p - 1) : out[k] \notin Blank => a <= k /\ k <= l

\* The end of the turn that _extract_answer finds is behind its last solid character and not
\* behind the next prompt.
LEMMA EndIsBehind ==
  ASSUME NEW n \in Nat, NEW out, DOMAIN out = 1..n, NEW start \in 1..n, NEW p \in 1..(n + 1),
         NEW a, NEW l, TurnBehind(out, start, p, a, l),
         \A i \in (start + 1)..n : \A j \in (i + 1)..n : PromptBehind(out, i, j) => p <= j,
         p # n + 1 => \E i \in (start + 1)..(p - 1) : PromptBehind(out, i, p),
         NEW ends, ends = {i \in a..n : \E j \in (i + 1)..n : PromptBehind(out, i, j)},
         NEW e, e = LeastOf(ends, n + 1)
  PROVE  e \in Nat /\ l < e /\ e <= p /\ \A k \in (l + 1)..(e - 1) : out[k] \in Blank
<1>1. /\ start + 1 <= a /\ a <= l /\ l < p /\ a \in Nat /\ l \in Nat /\ p <= n + 1
      /\ out[a] \notin Blank /\ out[l] \notin Blank
  BY DEF TurnBehind
<1>2. \A k \in (l + 1)..(p - 1) : out[k] \in Blank
  <2> TAKE k \in (l + 1)..(p - 1)
  <2>1. k \in (start + 1)..(p - 1) /\ ~(k <= l)
    BY <1>1
  <2> QED
    BY <2>1 DEF TurnBehind
<1>3. ASSUME NEW i \in ends PROVE l < i
  <2>1. PICK j \in (i + 1)..n : PromptBehind(out, i, j)
    OBVIOUS
  <2>2. i \in (start + 1)..n
    BY <1>1
  <2>3. p <= j
    BY <2>1, <2>2
  <2>4. i # l
    BY <1>1, <2>1 DEF PromptBehind, Blank
  <2>5. ~(i < l)
    <3>1. SUFFICES ASSUME i < l PROVE FALSE
      OBVIOUS
    <3>2. l \in (i + 1)..(j - 1)
      BY <1>1, <2>2, <2>3, <3>1
    <3> QED
      BY <1>1, <2>1, <3>2 DEF PromptBehind
  <2> QED
    BY <1>1, <2>2, <2>4, <2>5
<1>4. e \in Nat /\ l < e /\ e <= p
  <2>1. CASE p = n + 1
    <3>1. CASE ends = {}
      <4>1. e = n + 1
        BY <3>1 DEF LeastOf
      <4> QED
        BY <1>1, <2>1, <4>1
    <3>2. CASE ends # {}
      <4>1. ends \in SUBSET Nat
        BY <1>1
      <4>2. e \in ends
        BY <3>2, <4>1, LeastExists
      <4>3. e \in a..n
        BY <4>2
      <4> QED
        BY <1>1, <1>3, <2>1, <4>2, <4>3
    <3> QED
      BY <3>1, <3>2
  <2>2. CASE p # n + 1
    <3>1. PICK i \in (start + 1)..(p - 1) : PromptBehind(out, i, p)
      BY <2>2
    <3>2. a <= i
      <4>1. SUFFICES ASSUME i < a PROVE FALSE
        BY <1>1
      <4>2. a \in (i + 1)..(p - 1)
        BY <1>1, <4>1
      <4> QED
        BY <1>1, <3>1, <4>2 DEF PromptBehind
    <3>3. i \in ends
      <4>1. p \in (i + 1)..n /\ i \in a..n
        BY <1>1, <2>2, <3>2
      <4> QED
        BY <3>1, <4>1
    <3>4. ends \in SUBSET Nat
      BY <1>1
    <3>5. e \in ends /\ e <= i
      <4>1. ends # {}
        BY <3>3
      <4> QED
        BY <3>3, <3>4, <4>1, LeastExists
    <3>6. e \in Nat /\ l < e
      BY <1>3, <3>4, <3>5
    <3> QED
      BY <1>1, <3>5, <3>6
  <2> QED
    BY <2>1, <2>2
<1>5. \A k \in (l + 1)..(e - 1) : k \in (l + 1)..(p - 1)
  BY <1>1, <1>4
<1> QED
  BY <1>2, <1>4, <1>5

\* A text that is not blank is solid from one character to another.
LEMMA TurnIs ==
  ASSUME NEW S, NEW out \in Seq(S), NEW start \in 1..Len(out), NEW p \in (start + 1)..(Len(out) + 1),
         Strip(SubSeq(out, start + 1, p - 1)) # <<>>
  PROVE  \E a, l : /\ TurnBehind(out, start, p, a, l)
                   /\ Strip(SubSeq(out, start + 1, p - 1)) = SubSeq(out, a, l)
<1>1. PICK n \in Nat : n = Len(out)
  OBVIOUS
<1>2. PICK t : t = SubSeq(out, start + 1, p - 1)
  OBVIOUS
<1>3. PICK m \in Nat : m = (p - 1) - start
  OBVIOUS
<1>4. t \in Seq(S) /\ DOMAIN t = 1..m /\ \A k \in 1..m : t[k] = out[start + k]
  <2>1. t = [k \in 1..m |-> out[start + k]]
    BY <1>2, <1>3
  <2>2. t \in Seq(S)
    BY <1>1, <1>2
  <2> QED
    BY <2>1, <2>2
<1>5. PICK x \in DOMAIN t : t[x] \notin Blank
  <2>1. ~(\A k \in DOMAIN t : t[k] \in Blank)
    BY <1>2, StripOfBlanks
  <2> QED
    BY <2>1
<1>6. PICK i, j : Span(t, i, j)
  BY <1>4, <1>5, SpanExists
<1>7. Strip(t) = SubSeq(t, i, j)
  BY <1>4, <1>6, StripIsSpan
<1>8. PICK a, l : a = start + i /\ l = start + j
  OBVIOUS
<1>9. /\ i \in 1..m /\ j \in 1..m /\ i <= j
      /\ t[i] \notin Blank /\ t[j] \notin Blank
      /\ \A k \in 1..m : t[k] \notin Blank => i <= k /\ k <= j
  BY <1>4, <1>6 DEF Span
<1>10. /\ a \in (start + 1)..(p - 1) /\ l \in a..(p - 1)
       /\ out[a] \notin Blank /\ out[l] \notin Blank
  BY <1>3, <1>4, <1>8, <1>9
<1>11. ASSUME NEW k \in (start + 1)..(p - 1), out[k] \notin Blank PROVE a <= k /\ k <= l
  <2>1. PICK q \in 1..m : k = start + q
    <3>1. k - start \in 1..m /\ k = start + (k - start)
      BY <1>3
    <3> QED
      BY <3>1
  <2>2. t[q] \notin Blank
    BY <1>4, <1>11, <2>1
  <2>3. i <= q /\ q <= j
    BY <1>9, <2>2
  <2> QED
    BY <1>8, <1>9, <2>1, <2>3
<1>12. TurnBehind(out, start, p, a, l)
  BY <1>10, <1>11 DEF TurnBehind
<1>13. SubSeq(t, i, j) = SubSeq(out, a, l)
  <2>1. SubSeq(t, i, j) = [k \in 1..((j - i) + 1) |-> t[(i + k) - 1]]
    BY <1>4, <1>9
  <2>2. SubSeq(out, a, l) = [k \in 1..((l - a) + 1) |-> out[(a + k) - 1]]
    BY <1>1, <1>8, <1>9
  <2>3. (l - a) + 1 = (j - i) + 1
    BY <1>8, <1>9
  <2>4. \A k \in 1..((j - i) + 1) : t[(i + k) - 1] = out[(a + k) - 1]
    <3> TAKE k \in 1..((j - i) + 1)
    <3>1. (i + k) - 1 \in 1..m /\ start + ((i + k) - 1) = (a + k) - 1
      BY <1>8, <1>9
    <3> QED
      BY <1>4, <3>1
  <2> QED
    BY <2>1, <2>2, <2>3, <2>4
<1> QED
  BY <1>2, <1>7, <1>12, <1>13

PromptsBehind(out, start) ==
  {i \in (start + 1)..Len(out) : \E n \in (start + 1)..(i - 1) : PromptBehind(out, n, i)}

LEMMA SameEnds ==
  ASSUME NEW out, NEW i, NEW n \in Nat, Len(out) = n, i \in Nat
  PROVE  EndsAnswer(out, i) <=> \E j \in (i + 1)..n : PromptBehind(out, i, j)
BY DEF EndsAnswer, PromptBehind

LEMMA SamePrompts ==
  ASSUME NEW out, NEW start \in Nat, Len(out) \in Nat
  PROVE  PromptsBehind(out, start)
           = {i \in (start + 1)..Len(out) :
                /\ out[i] = "U"
                /\ \E n \in (start + 1)..(i - 1) :
                     out[n] = "n" /\ {out[k] : k \in n..(i - 1)} \subseteq Blank}
<1>1. ASSUME NEW i \in (start + 1)..Len(out), NEW n \in (start + 1)..(i - 1), out[n] = "n"
      PROVE  (\A k \in (n + 1)..(i - 1) : out[k] \in Blank)
               <=> {out[k] : k \in n..(i - 1)} \subseteq Blank
  <2>1. out[n] \in Blank
    BY <1>1 DEF Blank
  <2>2. \A k \in n..(i - 1) : k = n \/ k \in (n + 1)..(i - 1)
    OBVIOUS
  <2>3. \A k \in (n + 1)..(i - 1) : k \in n..(i - 1)
    OBVIOUS
  <2> QED
    BY <2>1, <2>2, <2>3
<1>2. ASSUME NEW i \in (start + 1)..Len(out)
      PROVE  (\E n \in (start + 1)..(i - 1) : PromptBehind(out, n, i))
               <=> /\ out[i] = "U"
                   /\ \E n \in (start + 1)..(i - 1) :
                        out[n] = "n" /\ {out[k] : k \in n..(i - 1)} \subseteq Blank
  BY <1>1, Zenon DEF PromptBehind
<1> QED
  BY <1>2, Zenon DEF PromptsBehind

(***************************************************************************)
(* _extract_answer returns the turn that follows the first Answer: without *)
(* escapes, if it holds anything, for outputs of any length.               *)
(***************************************************************************)
THEOREM AnswerIsAlwaysTheTurn ==
  ASSUME NEW S, NEW out \in Seq(S)
  PROVE  AnswerIsTheTurn(out)
<1>1. PICK n \in Nat : n = Len(out) /\ DOMAIN out = 1..n
  OBVIOUS
<1>2. ASSUME NEW start \in 1..n, out[start] = "A", \A i \in 1..(start - 1) : out[i] # "A",
             NEW p, p = LeastOf(PromptsBehind(out, start), n + 1),
             NEW turn, turn = Strip(SubSeq(out, start + 1, p - 1)), turn # <<>>,
             NEW clean, clean = Strip(Uncoloured(turn))
      PROVE  ExtractAnswer(out) = IF clean = <<>> THEN Failed ELSE clean
  <2> DEFINE prompts == PromptsBehind(out, start)
  <2>1. prompts \in SUBSET Nat /\ \A i \in prompts : i \in (start + 2)..n
    BY <1>1 DEF PromptsBehind
  <2>2. \A i \in (start + 1)..n : \A j \in (i + 1)..n : PromptBehind(out, i, j) => j \in prompts
    BY <1>1 DEF PromptsBehind
  <2>3. /\ p \in (start + 1)..(n + 1)
        /\ \A i \in prompts : p <= i
        /\ p # n + 1 => p \in prompts
    <3>1. CASE prompts = {}
      <4>1. p = n + 1
        BY <1>2, <3>1 DEF LeastOf
      <4> QED
        BY <3>1, <4>1
    <3>2. CASE prompts # {}
      <4>1. p \in prompts /\ \A i \in prompts : p <= i
        BY <1>2, <2>1, <3>2, LeastExists
      <4>2. p \in (start + 2)..n
        BY <2>1, <4>1
      <4> QED
        BY <4>1, <4>2
    <3> QED
      BY <3>1, <3>2
  <2>4. p # n + 1 => \E i \in (start + 1)..(p - 1) : PromptBehind(out, i, p)
    BY <2>3 DEF PromptsBehind
  <2>5. \A i \in (start + 1)..n : \A j \in (i + 1)..n : PromptBehind(out, i, j) => p <= j
    BY <2>2, <2>3
  <2> HIDE DEF prompts
  <2>6. PICK a, l : TurnBehind(out, start, p, a, l) /\ turn = SubSeq(out, a, l)
    BY <1>1, <1>2, <2>3, TurnIs
  <2>7. /\ start + 1 <= a /\ a <= l /\ l < p /\ p <= n + 1 /\ a \in Nat /\ l \in Nat /\ p \in Nat
        /\ out[a] \notin Blank
    BY <2>3, <2>6 DEF TurnBehind
  <2>8. LeastOf({i \in DOMAIN out : out[i] = "A"}, 0) = start
    <3> DEFINE starts == {i \in DOMAIN out : out[i] = "A"}
    <3>1. starts \in SUBSET Nat /\ start \in starts /\ \A i \in starts : start <= i
      <4>1. \A i \in 1..n : out[i] = "A" => ~(i \in 1..(start - 1))
        BY <1>2
      <4>2. \A i \in 1..n : ~(i \in 1..(start - 1)) => start <= i
        OBVIOUS
      <4> QED
        BY <1>1, <1>2, <4>1, <4>2
    <3> HIDE DEF starts
    <3>2. LeastOf(starts, 0) = start
      BY <3>1, LeastIs
    <3> QED
      BY <3>2 DEF starts
  <2>9. LeastOf({i \in (start + 1)..n : out[i] \notin Blank}, n + 1) = a
    <3> DEFINE solid == {i \in (start + 1)..n : out[i] \notin Blank}
    <3>1. solid \in SUBSET Nat
      OBVIOUS
    <3>2. a \in solid
      BY <2>7
    <3>3. ASSUME NEW i \in solid PROVE a <= i
      <4>1. CASE i < p
        <5>1. i \in (start + 1)..(p - 1) /\ out[i] \notin Blank
          BY <2>7, <4>1
        <5> QED
          BY <2>6, <5>1 DEF TurnBehind
      <4>2. CASE p <= i
        BY <2>7, <4>2
      <4> QED
        BY <2>7, <4>1, <4>2
    <3> HIDE DEF solid
    <3>4. LeastOf(solid, n + 1) = a
      BY <3>1, <3>2, <3>3, LeastIs
    <3> QED
      BY <3>4 DEF solid
  <2>10. PICK ends : ends = {i \in a..n : \E j \in (i + 1)..n : PromptBehind(out, i, j)}
    OBVIOUS
  <2>11. {i \in a..n : EndsAnswer(out, i)} = ends
    <3>1. \A i \in a..n : EndsAnswer(out, i) <=> \E j \in (i + 1)..n : PromptBehind(out, i, j)
      BY <1>1, <2>7, SameEnds
    <3> QED
      BY <2>10, <3>1
  <2>12. PICK e : e = LeastOf(ends, n + 1)
    OBVIOUS
  <2>13. e \in Nat /\ l < e /\ e <= p /\ \A k \in (l + 1)..(e - 1) : out[k] \in Blank
    <3>1. p \in 1..(n + 1)
      BY <2>3
    <3> QED
      BY <1>1, <2>4, <2>5, <2>6, <2>10, <2>12, <3>1, EndIsBehind
  <2>14. PICK d \in Nat : d = e - 1 /\ l <= d /\ d <= n
    BY <2>7, <2>13
  <2>15. Strip(Uncoloured(SubSeq(out, a, d))) = clean
    <3>1. a \in 1..Len(out) /\ l \in a..Len(out) /\ d \in l..Len(out)
      BY <1>1, <2>7, <2>14
    <3>2. \A k \in (l + 1)..d : out[k] \in Blank
      BY <2>13, <2>14
    <3>3. Strip(Uncoloured(SubSeq(out, a, d))) = Strip(Uncoloured(SubSeq(out, a, l)))
      BY <3>1, <3>2, CleanForgetsBlanks
    <3> QED
      BY <1>2, <2>6, <3>3
  <2>16. {i \in DOMAIN out : out[i] = "A"} # {}
    BY <1>1, <1>2
  <2>17. /\ LeastOf({i \in (start + 1)..Len(out) : out[i] \notin Blank}, Len(out) + 1) = a
         /\ LeastOf({i \in a..Len(out) : EndsAnswer(out, i)}, Len(out) + 1) = e
    BY <1>1, <2>9, <2>11, <2>12
  <2> QED
    BY <2>8, <2>14, <2>15, <2>16, <2>17, Zenon DEF ExtractAnswer
<1>3. ASSUME NEW start \in DOMAIN out, out[start] = "A", \A i \in 1..(start - 1) : out[i] # "A"
      PROVE  LET prompts == {i \in (start + 1)..Len(out) :
                        /\ out[i] = "U"
                        /\ \E k \in (start + 1)..(i - 1) :
                             out[k] = "n" /\ {out[j] : j \in k..(i - 1)} \subseteq Blank}
                 turn == Strip(SubSeq(out, start + 1, LeastOf(prompts, Len(out) + 1) - 1))
                 clean == Strip(Uncoloured(turn))
             IN  turn # <<>> => ExtractAnswer(out) = IF clean = <<>> THEN Failed ELSE clean
  <2>1. start \in 1..n /\ start \in Nat
    BY <1>1
  <2>2. {i \in (start + 1)..Len(out) :
                        /\ out[i] = "U"
                        /\ \E k \in (start + 1)..(i - 1) :
                             out[k] = "n" /\ {out[j] : j \in k..(i - 1)} \subseteq Blank}
          = PromptsBehind(out, start)
    BY <1>1, <2>1, SamePrompts
  <2>3. PICK p : p = LeastOf(PromptsBehind(out, start), n + 1)
    OBVIOUS
  <2>4. PICK turn : turn = Strip(SubSeq(out, start + 1, p - 1))
    OBVIOUS
  <2>5. PICK clean : clean = Strip(Uncoloured(turn))
    OBVIOUS
  <2>6. turn # <<>> => ExtractAnswer(out) = IF clean = <<>> THEN Failed ELSE clean
    BY <1>2, <1>3, <2>1, <2>3, <2>4, <2>5
  <2> QED
    BY <1>1, <2>2, <2>3, <2>4, <2>5, <2>6, Zenon
<1> QED
  BY <1>3 DEF AnswerIsTheTurn

\* /v1/infer tells the classes and the answer of what its backend gave it, in every state whose
\* input is such a thing: the invariant of the run (make_object_detection_adapter_result,
\* _extract_answer).
THEOREM AnswersAlwaysTell ==
  ASSUME NEW S,
         input.of = "objects" => input.objects \in Seq(S),
         input.of = "output" => input.out \in Seq(S)
  PROVE  AnswersTell
BY SummariesAlwaysNameClasses, AnswerIsAlwaysTheTurn
   DEF AnswersTell, SummariesNameClasses, AnswersAreTheTurn
-----------------------------------------------------------------------------
(* What /v1/infer hands on. *)

\* The defects of a request, one by one.
LEMMA DefectsAre ==
  ASSUME NEW req \in UnifiedInferRequest
  PROVE  /\ "missing_task" \in Defects(req) <=> req.task = ""
         /\ "unsupported_task" \in Defects(req)
              <=> req.task \notin VisionTasks \cup TextGenerationTasks \cup VLMTasks \cup {""}
         /\ "invalid_unified_vision_input" \in Defects(req)
              <=> req.task \in VisionTasks /\ req.imagePath # "given"
         /\ "unified_stream_not_supported" \in Defects(req)
              <=> req.task \in TextGenerationTasks /\ req.stream
         /\ "invalid_unified_text_input" \in Defects(req)
              <=> req.task \in TextGenerationTasks /\ ~HasMessages(req)
         /\ "invalid_unified_text_payload" \in Defects(req)
              <=> req.task \in TextGenerationTasks /\ req.numbers # "good"
         /\ "invalid_vlm_input" \in Defects(req)
              <=> req.task \in VLMTasks /\ (~HasImage(req) \/ VlmPrompt(req) = "none")
         /\ "invalid_parameter" \in Defects(req)
              <=> req.task \in VisionTasks \cup VLMTasks /\ req.numbers = "bad"
         /\ "none" \in Defects(req)
              <=> \/ req.task \in VisionTasks /\ req.numbers \in {"outside", "infinite"}
                  \/ req.task \in VLMTasks /\ req.numbers = "infinite"
         /\ Defects(req) \subseteq
              {"missing_task", "unsupported_task", "invalid_unified_vision_input",
               "unified_stream_not_supported", "invalid_unified_text_input",
               "invalid_unified_text_payload", "invalid_vlm_input", "invalid_parameter",
               "none"}
<1>1. PICK w : w = Wrong(req)
  OBVIOUS
<1>2. DOMAIN w = {"missing_task", "unsupported_task", "invalid_unified_vision_input",
                  "unified_stream_not_supported", "invalid_unified_text_input",
                  "invalid_unified_text_payload", "invalid_vlm_input", "invalid_parameter",
                  "none"}
  BY <1>1 DEF Wrong
<1>3. \A code : code \in Defects(req) <=> code \in DOMAIN w /\ w[code]
  BY <1>1 DEF Defects
<1>4. HasMessages(req) <=> \E f \in {"messages", "text"} \cup
                                    IF req.text = "absent" THEN {"prompt"} ELSE {} :
                             req[f] = "given"
  BY DEF HasMessages
<1>5. HasImage(req) <=> \E f \in {"imagePath", "image"} : req[f] = "given"
  BY DEF HasImage
<1>6. VlmPrompt(req) = "none"
        <=> /\ req.task = "visual-question-answering"
            /\ ~\E f \in {"prompt", "text", "question"} : req[f] = "given"
  BY DEF VlmPrompt
<1>7. w["missing_task"] <=> req.task = ""
  BY <1>1, Zenon DEF Wrong
<1>8. w["unsupported_task"]
        <=> req.task \notin VisionTasks \cup TextGenerationTasks \cup VLMTasks \cup {""}
  BY <1>1 DEF Wrong
<1>9. w["invalid_unified_vision_input"] <=> req.task \in VisionTasks /\ req.imagePath # "given"
  BY <1>1 DEF Wrong
<1>10. w["unified_stream_not_supported"] <=> req.task \in TextGenerationTasks /\ req.stream
  BY <1>1 DEF Wrong
<1>11. w["invalid_unified_text_input"] <=> req.task \in TextGenerationTasks /\ ~HasMessages(req)
  BY <1>1, <1>4 DEF Wrong
<1>12. w["invalid_unified_text_payload"] <=> req.task \in TextGenerationTasks /\ req.numbers # "good"
  BY <1>1 DEF Wrong
<1>13. w["invalid_vlm_input"]
         <=> req.task \in VLMTasks /\ (~HasImage(req) \/ VlmPrompt(req) = "none")
  BY <1>1, <1>5, <1>6 DEF Wrong
<1>14. w["invalid_parameter"] <=> req.task \in VisionTasks \cup VLMTasks /\ req.numbers = "bad"
  BY <1>1 DEF Wrong
<1>15. w["none"] <=> \/ req.task \in VisionTasks /\ req.numbers \in {"outside", "infinite"}
                     \/ req.task \in VLMTasks /\ req.numbers = "infinite"
  BY <1>1 DEF Wrong
<1> QED
  BY <1>2, <1>3, <1>7, <1>8, <1>9, <1>10, <1>11, <1>12, <1>13, <1>14, <1>15

LEMMA HandlersAlwaysGet ==
  ASSUME NEW req \in UnifiedInferRequest
  PROVE  HandlersGetWhatTheyNeed(req)
<1>1. req.numbers \in {"good", "bad", "outside", "infinite"}
  BY DEF UnifiedInferRequest, Numbers
<1>2. PICK d : d = Dispatch(req)
  OBVIOUS
<1>3. PICK defects : defects = Defects(req)
  OBVIOUS
<1>4. PICK handler : handler = IF req.task \in VisionTasks THEN "vision"
                               ELSE IF req.task \in TextGenerationTasks THEN "text" ELSE "vlm"
  OBVIOUS
<1>5. SUFFICES \/ defects = {} /\ d = Goes(handler)
               \/ \E code \in defects \ {"none"} : d = Invalid(code)
               \/ defects = {"none"} /\ d = Refused(500, "none")
  BY <1>2, <1>3, <1>4, Zenon DEF HandlersGetWhatTheyNeed
<1>6. CASE req.task \in VisionTasks
  <2>1. d = DispatchObjectDetection(req) /\ handler = "vision"
    BY <1>2, <1>4, <1>6 DEF Dispatch, VisionTasks
  <2>2. req.task \notin TextGenerationTasks \cup VLMTasks \cup {""}
    BY <1>6 DEF VisionTasks, TextGenerationTasks, VLMTasks
  <2>3. /\ "invalid_unified_vision_input" \in defects <=> req.imagePath # "given"
        /\ "invalid_parameter" \in defects <=> req.numbers = "bad"
        /\ "none" \in defects <=> req.numbers \in {"outside", "infinite"}
        /\ defects \subseteq {"invalid_unified_vision_input", "invalid_parameter", "none"}
    BY <1>3, <1>6, <2>2, DefectsAre
  <2> QED
    BY <1>1, <2>1, <2>3 DEF DispatchObjectDetection
<1>7. CASE req.task \in TextGenerationTasks
  <2>1. d = DispatchTextGeneration(req) /\ handler = "text"
    BY <1>2, <1>4, <1>7 DEF Dispatch, VisionTasks, TextGenerationTasks
  <2>2. req.task \notin VisionTasks \cup VLMTasks \cup {""}
    BY <1>7 DEF VisionTasks, TextGenerationTasks, VLMTasks
  <2>3. /\ "unified_stream_not_supported" \in defects <=> req.stream
        /\ "invalid_unified_text_input" \in defects <=> ~HasMessages(req)
        /\ "invalid_unified_text_payload" \in defects <=> req.numbers # "good"
        /\ defects \subseteq {"unified_stream_not_supported", "invalid_unified_text_input",
                              "invalid_unified_text_payload"}
    BY <1>3, <1>7, <2>2, DefectsAre
  <2> QED
    BY <2>1, <2>3 DEF DispatchTextGeneration
<1>8. CASE req.task \in VLMTasks
  <2>1. d = DispatchVlm(req) /\ handler = "vlm"
    BY <1>2, <1>4, <1>8 DEF Dispatch, VisionTasks, TextGenerationTasks, VLMTasks
  <2>2. req.task \notin VisionTasks \cup TextGenerationTasks \cup {""}
    BY <1>8 DEF VisionTasks, TextGenerationTasks, VLMTasks
  <2>3. /\ "invalid_vlm_input" \in defects <=> ~HasImage(req) \/ VlmPrompt(req) = "none"
        /\ "invalid_parameter" \in defects <=> req.numbers = "bad"
        /\ "none" \in defects <=> req.numbers = "infinite"
        /\ defects \subseteq {"invalid_vlm_input", "invalid_parameter", "none"}
    BY <1>3, <1>8, <2>2, DefectsAre
  <2> QED
    BY <2>1, <2>3 DEF DispatchVlm
<1>9. CASE req.task \notin VisionTasks \cup TextGenerationTasks \cup VLMTasks
  <2>1. \/ req.task = "" /\ d = Invalid("missing_task")
        \/ req.task # "" /\ d = Invalid("unsupported_task")
    BY <1>2, <1>9 DEF Dispatch
  <2>2. \/ req.task = "" /\ "missing_task" \in defects
        \/ req.task # "" /\ "unsupported_task" \in defects
    BY <1>3, <1>9, DefectsAre
  <2> QED
    BY <2>1, <2>2
<1> QED
  BY <1>6, <1>7, <1>8, <1>9

\* A request to /v1/infer that has all its task's handler needs is handed to that handler, and
\* any other is refused for something that is wrong with it, whatever fields it has
\* (unified_infer and its dispatchers).
THEOREM RequestsAreAlwaysComplete ==
  ASSUME input.of = "request" => input.req \in UnifiedInferRequest
  PROVE  RequestsAreComplete
BY HandlersAlwaysGet DEF RequestsAreComplete
-----------------------------------------------------------------------------
(***************************************************************************)
(* The registry.  Its texts are Names, among them the words that the code  *)
(* puts in; Nil is neither one of them nor a record.                       *)
(***************************************************************************)

VariantIds == {VariantId["all_npu"], VariantId["hybrid"]}

Entries(Names, Files) ==
  [key : Names \cup {Nil}, id : Names \cup {Nil}, name : Names \cup {Nil},
   task : Names \cup {Nil}, recommended : BOOLEAN, file : Files, runtimeFile : Files]

StatusItems(Files) == {Nil} \cup [recommended : BOOLEAN, file : Files]

Models(Names, Files) ==
  [id : Names, name : Names, task : Names, recommended : BOOLEAN, file : Files]

Registries(Names, Files) ==
  [status : [all_npu : StatusItems(Files), hybrid : StatusItems(Files)],
   models : Seq(Entries(Names, Files))]

Apart(Names, Files) ==
  /\ VariantIds \cup {"llm", "unknown"} \subseteq Names
  /\ Nil \notin Names
  /\ Nil \notin Entries(Names, Files) /\ Nil \notin Models(Names, Files)

\* The models an item of the file may stand for.
OldModels(Names, Files) == {m \in Models(Names, Files) : m.task = "llm"}
MadeOf(raw, i, m) == GenericModels(raw.models[i]) = <<m>>
NewModels(raw, Names, Files) ==
  {m \in Models(Names, Files) : \E i \in DOMAIN raw.models : MadeOf(raw, i, m)}

LEMMA StatusParsed ==
  ASSUME NEW Names, NEW Files, Apart(Names, Files), NEW raw \in Registries(Names, Files)
  PROVE  ParseStatus(raw) \in Seq(OldModels(Names, Files))
<1>1. PICK old : old = OldModels(Names, Files)
  OBVIOUS
<1>2. ASSUME NEW item \in StatusItems(Files), NEW id \in VariantIds
      PROVE  StatusModels(item, id) \in OneOrNone(old)
  <2>1. CASE item = Nil
    BY <2>1 DEF StatusModels, OneOrNone
  <2>2. CASE item # Nil
    <3>1. item \in [recommended : BOOLEAN, file : Files]
      BY <2>2 DEF StatusItems
    <3>2. PICK m : m = [id |-> id, name |-> id, task |-> "llm", recommended |-> item.recommended,
                        file |-> item.file]
      OBVIOUS
    <3>3. m \in old
      <4>1. id \in Names /\ "llm" \in Names
        BY DEF Apart
      <4> QED
        BY <1>1, <3>1, <3>2, <4>1 DEF OldModels, Models
    <3>4. StatusModels(item, id) = <<m>>
      BY <2>2, <3>2 DEF StatusModels
    <3> QED
      BY <3>3, <3>4 DEF OneOrNone
  <2> QED
    BY <2>1, <2>2
<1>3. PICK pieces : pieces = [i \in DOMAIN Variants |->
                               StatusModels(raw.status[Variants[i]], VariantId[Variants[i]])]
  OBVIOUS
<1>4. DOMAIN Variants = 1..2 /\ Variants[1] = "all_npu" /\ Variants[2] = "hybrid"
  BY DEF Variants
<1>5. raw.status["all_npu"] \in StatusItems(Files) /\ raw.status["hybrid"] \in StatusItems(Files)
  BY DEF Registries
<1>6. pieces[1] \in OneOrNone(old) /\ pieces[2] \in OneOrNone(old)
  BY <1>2, <1>3, <1>4, <1>5 DEF VariantIds
<1>7. pieces \in Seq(OneOrNone(old))
  <2>1. \A i \in 1..2 : pieces[i] \in OneOrNone(old)
    BY <1>6
  <2>2. pieces = [i \in 1..2 |-> pieces[i]]
    BY <1>3, <1>4
  <2> QED
    BY <2>1, <2>2
<1>8. FlattenSeq(pieces) \in Seq(old)
  BY <1>7, PiecesArePicked
<1> QED
  BY <1>1, <1>3, <1>8 DEF ParseStatus

LEMMA OrElseSays ==
  ASSUME NEW value, NEW default
  PROVE  /\ value # Nil => OrElse(value, default) = value
         /\ value = Nil => OrElse(value, default) = default
BY DEF OrElse

LEMMA GenericParsed ==
  ASSUME NEW Names, NEW Files, Apart(Names, Files), NEW raw \in Registries(Names, Files)
  PROVE  ParseGeneric(raw) \in Seq(NewModels(raw, Names, Files))
<1>1. PICK new : new = NewModels(raw, Names, Files)
  OBVIOUS
<1>2. raw.models \in Seq(Entries(Names, Files))
  BY DEF Registries
<1>3. PICK n \in Nat : n = Len(raw.models) /\ DOMAIN raw.models = 1..n
  BY <1>2
<1>4. ASSUME NEW i \in 1..n PROVE GenericModels(raw.models[i]) \in OneOrNone(new)
  <2>1. PICK item \in Entries(Names, Files) : item = raw.models[i]
    BY <1>2, <1>3
  <2>2. CASE EntryKey(item) = Nil
    BY <2>1, <2>2 DEF GenericModels, OneOrNone
  <2>3. CASE EntryKey(item) # Nil
    <3>1. /\ item.key \in Names \cup {Nil} /\ item.id \in Names \cup {Nil}
          /\ item.name \in Names \cup {Nil} /\ item.task \in Names \cup {Nil}
          /\ item.recommended \in BOOLEAN /\ item.file \in Files
      BY <2>1 DEF Entries
    <3>2. EntryKey(item) \in Names
      BY <2>3, <3>1 DEF EntryKey, OrElse
    <3>3. /\ OrElse(item.id, EntryKey(item)) \in Names
          /\ OrElse(item.name, EntryKey(item)) \in Names
          /\ OrElse(item.task, "unknown") \in Names
      <4>1. "unknown" \in Names
        BY DEF Apart
      <4> QED
        BY <3>1, <3>2, <4>1 DEF OrElse
    <3>4. PICK m : m = [id |-> OrElse(item.id, EntryKey(item)),
                        name |-> OrElse(item.name, EntryKey(item)),
                        task |-> OrElse(item.task, "unknown"), recommended |-> item.recommended,
                        file |-> item.file]
      OBVIOUS
    <3>5. m \in Models(Names, Files)
      BY <3>1, <3>3, <3>4 DEF Models
    <3>6. GenericModels(item) = <<m>>
      BY <2>3, <3>4 DEF GenericModels
    <3>7. m \in new
      <4>1. MadeOf(raw, i, m)
        BY <2>1, <3>6 DEF MadeOf
      <4> QED
        BY <1>1, <1>3, <3>5, <4>1 DEF NewModels
    <3> QED
      BY <2>1, <3>6, <3>7 DEF OneOrNone
  <2> QED
    BY <2>2, <2>3
<1>5. PICK pieces : pieces = [i \in DOMAIN raw.models |-> GenericModels(raw.models[i])]
  OBVIOUS
<1>6. pieces \in Seq(OneOrNone(new))
  BY <1>3, <1>4, <1>5
<1>7. FlattenSeq(pieces) \in Seq(new)
  BY <1>6, PiecesArePicked
<1> QED
  BY <1>1, <1>5, <1>7 DEF ParseGeneric

\* The models listed: each once, and each made from an item of the file.
Listed(models, known) ==
  /\ models \in Seq(known)
  /\ \A i, j \in DOMAIN models : i < j => models[i].id # models[j].id

Known(raw, Names, Files) == OldModels(Names, Files) \cup NewModels(raw, Names, Files)

LEMMA ParsedType ==
  ASSUME NEW Names, NEW Files, Apart(Names, Files), NEW raw \in Registries(Names, Files)
  PROVE  Parsed(raw) \in Seq(Known(raw, Names, Files))
<1>1. PICK known : known = Known(raw, Names, Files)
  OBVIOUS
<1>2. OldModels(Names, Files) \subseteq known /\ NewModels(raw, Names, Files) \subseteq known
  BY <1>1 DEF Known
<1>3. ParseStatus(raw) \in Seq(known)
  BY <1>2, StatusParsed
<1>4. ParseGeneric(raw) \in Seq(known)
  BY <1>2, GenericParsed
<1> QED
  BY <1>1, <1>3, <1>4, ConcatProperties DEF Parsed

\* What list_models shows for the i-th entry: nothing, or the last one of its id.
ListPiece(all, i) ==
  IF \E j \in SameId(all, i) : j < i THEN <<>> ELSE <<all[LastOf(all, i)]>>

LEMMA LastOfIs ==
  ASSUME NEW n \in Nat, NEW all, DOMAIN all = 1..n, NEW i \in 1..n
  PROVE  LastOf(all, i) \in 1..n /\ all[LastOf(all, i)].id = all[i].id
<1>1. PICK same : same = SameId(all, i)
  OBVIOUS
<1>2. same \in SUBSET (1..n) /\ same # {} /\ \A j \in same : all[j].id = all[i].id
  BY <1>1 DEF SameId
<1>3. \E j \in same : \A l \in same : l <= j
  BY <1>2, GreatestInRange
<1>4. PICK x : x = CHOOSE j \in same : \A l \in same : l <= j
  OBVIOUS
<1>5. x \in same
  BY <1>3, <1>4
<1>6. LastOf(all, i) = x
  BY <1>1, <1>4 DEF LastOf
<1> QED
  BY <1>1, <1>2, <1>5, <1>6

LEMMA ListIsListed ==
  ASSUME NEW Names, NEW Files, Apart(Names, Files), NEW raw \in Registries(Names, Files)
  PROVE  Listed(ListModels(raw), Known(raw, Names, Files))
<1>1. PICK known, all, u : /\ known = Known(raw, Names, Files)
                           /\ all = Parsed(raw)
                           /\ u = ListModels(raw)
  OBVIOUS
<1>2. all \in Seq(known)
  BY <1>1, ParsedType
<1>3. PICK n \in Nat : n = Len(all) /\ DOMAIN all = 1..n
  BY <1>2
<1>4. \A i \in 1..n : all[i] \in known
  BY <1>2, <1>3, ElementOfSeq
<1>5. PICK pieces : pieces = [i \in DOMAIN all |-> ListPiece(all, i)]
  OBVIOUS
<1>6. u = FlattenSeq(pieces)
  BY <1>1, <1>5 DEF ListModels, LastOfEach, ListPiece
<1>7. \A i \in 1..n : pieces[i] = ListPiece(all, i)
  BY <1>3, <1>5
<1>8. ASSUME NEW i \in 1..n PROVE ListPiece(all, i) \in OneOrNone(known)
  <2>1. PICK m : m = all[LastOf(all, i)]
    OBVIOUS
  <2>2. m \in known
    BY <1>3, <1>4, <2>1, LastOfIs
  <2>3. ListPiece(all, i) = <<>> \/ ListPiece(all, i) = <<m>>
    BY <2>1 DEF ListPiece
  <2> QED
    BY <2>2, <2>3 DEF OneOrNone
<1>9. pieces \in Seq(OneOrNone(known)) /\ DOMAIN pieces = 1..n
  BY <1>3, <1>5, <1>8
<1>10. u \in Seq(known) /\ \E at : Picks(pieces, u, at)
  BY <1>6, <1>9, PiecesArePicked
<1>11. PICK at : Picks(pieces, u, at)
  BY <1>10
<1>12. ASSUME NEW k \in DOMAIN u
       PROVE  /\ at[k] \in 1..n /\ u[k].id = all[at[k]].id
              /\ \A j \in 1..n : j < at[k] => all[j].id # all[at[k]].id
  <2>1. PICK i \in 1..n : i = at[k] /\ pieces[i] # <<>> /\ pieces[i][1] = u[k]
    BY <1>9, <1>11 DEF Picks
  <2>2. pieces[i] = ListPiece(all, i)
    BY <1>7
  <2>3. ~\E j \in SameId(all, i) : j < i
    BY <2>1, <2>2 DEF ListPiece
  <2>4. pieces[i] = <<all[LastOf(all, i)]>>
    BY <2>2, <2>3 DEF ListPiece
  <2>5. u[k] = all[LastOf(all, i)]
    BY <2>1, <2>4
  <2>6. u[k].id = all[i].id
    BY <1>3, <2>5, LastOfIs
  <2>7. \A j \in 1..n : j < i => all[j].id # all[i].id
    BY <1>3, <2>3 DEF SameId
  <2> QED
    BY <2>1, <2>6, <2>7
<1>13. ASSUME NEW k \in DOMAIN u, NEW l \in DOMAIN u, k < l PROVE u[k].id # u[l].id
  <2>1. at[k] < at[l]
    BY <1>11, <1>13 DEF Picks
  <2>2. all[at[k]].id # all[at[l]].id
    BY <1>12, <2>1
  <2> QED
    BY <1>12, <2>2
<1> QED
  BY <1>1, <1>10, <1>13 DEF Listed

\* The first of some places.
FirstAt(u, places, x) ==
  \E i \in places : x = u[i] /\ \A j \in places : i <= j

LEMMA FirstOfSays ==
  ASSUME NEW u, NEW places \in SUBSET Nat
  PROVE  IF places = {} THEN FirstOf(u, places) = Nil ELSE FirstAt(u, places, FirstOf(u, places))
<1>1. CASE places = {}
  BY <1>1 DEF FirstOf
<1>2. CASE places # {}
  <2>1. First(places) \in places /\ \A i \in places : First(places) <= i
    BY <1>2, FirstIsFirst
  <2>2. PICK x : x = CHOOSE i \in places : \A j \in places : i <= j
    OBVIOUS
  <2>3. x \in places /\ \A j \in places : x <= j
    BY <2>1, <2>2
  <2>4. FirstOf(u, places) = u[x]
    BY <1>2, <2>2 DEF FirstOf
  <2> QED
    BY <1>2, <2>3, <2>4 DEF FirstAt
<1> QED
  BY <1>1, <1>2

Bears(m, name) == name \in {m.id, m.name}

\* get_model: no model bears the name, or m is the first one.
Gets(models, name, m) ==
  \/ m = Nil /\ \A i \in DOMAIN models : ~Bears(models[i], name)
  \/ \E i \in DOMAIN models : /\ m = models[i] /\ Bears(m, name)
                              /\ \A j \in DOMAIN models : Bears(models[j], name) => i <= j

LEMMA GetModelGets ==
  ASSUME NEW raw, NEW name, NEW S, NEW models, models = ListModels(raw), models \in Seq(S)
  PROVE  Gets(models, name, GetModel(raw, name))
<1>1. PICK places : places = {i \in DOMAIN models : name \in {models[i].id, models[i].name}}
  OBVIOUS
<1>2. places \in SUBSET Nat
  BY <1>1
<1>3. GetModel(raw, name) = FirstOf(models, places)
  BY <1>1 DEF GetModel
<1>4. PICK m : m = FirstOf(models, places)
  OBVIOUS
<1>5. \A i : i \in places <=> i \in DOMAIN models /\ Bears(models[i], name)
  BY <1>1 DEF Bears
<1>6. CASE places = {}
  BY <1>2, <1>3, <1>5, <1>6, FirstOfSays DEF Gets
<1>7. CASE places # {}
  <2>1. FirstAt(models, places, m)
    BY <1>2, <1>4, <1>7, FirstOfSays
  <2>2. PICK i \in places : m = models[i] /\ \A j \in places : i <= j
    BY <2>1 DEF FirstAt
  <2> QED
    BY <1>3, <1>4, <1>5, <2>2 DEF Gets
<1> QED
  BY <1>6, <1>7

\* get_default_model: there is none of the task, or m is one.
Defaults(models, task, m) ==
  \/ m = Nil /\ \A i \in DOMAIN models : models[i].task # task
  \/ \E i \in DOMAIN models : m = models[i] /\ m.task = task

LEMMA GetDefaultDefaults ==
  ASSUME NEW raw, NEW task, NEW S, NEW models, models = ListModels(raw), models \in Seq(S)
  PROVE  Defaults(models, task, GetDefaultModel(raw, task))
<1>1. PICK candidates : candidates = {i \in DOMAIN models : models[i].task = task}
  OBVIOUS
<1>2. PICK recommended : recommended = {i \in candidates : models[i].recommended}
  OBVIOUS
<1>3. PICK places : places = IF recommended = {} THEN candidates ELSE recommended
  OBVIOUS
<1>4. places \in SUBSET Nat /\ places \subseteq candidates
  BY <1>1, <1>2, <1>3
<1>5. PICK m : m = FirstOf(models, places)
  OBVIOUS
<1>6. GetDefaultModel(raw, task) = m
  BY <1>1, <1>2, <1>3, <1>5 DEF GetDefaultModel
<1>7. CASE places = {}
  <2>1. candidates = {}
    BY <1>3, <1>7
  <2>2. m = Nil
    BY <1>4, <1>5, <1>7, FirstOfSays
  <2> QED
    BY <1>1, <1>6, <2>1, <2>2 DEF Defaults
<1>8. CASE places # {}
  <2>1. FirstAt(models, places, m)
    BY <1>4, <1>5, <1>8, FirstOfSays
  <2>2. PICK i \in places : m = models[i]
    BY <2>1 DEF FirstAt
  <2>3. i \in DOMAIN models /\ models[i].task = task
    BY <1>1, <1>4
  <2> QED
    BY <1>6, <2>2, <2>3 DEF Defaults
<1> QED
  BY <1>7, <1>8
-----------------------------------------------------------------------------
(* What the lookups promise. *)

LEMMA KnownAreModels ==
  ASSUME NEW Names, NEW Files, Apart(Names, Files), NEW raw, NEW models,
         Listed(models, Known(raw, Names, Files)), NEW i \in DOMAIN models
  PROVE  /\ models[i] \in Known(raw, Names, Files)
         /\ models[i] \in Models(Names, Files) /\ models[i] # Nil
         /\ i \in Nat
<1>1. models \in Seq(Known(raw, Names, Files))
  BY DEF Listed
<1>2. models[i] \in Known(raw, Names, Files) /\ i \in Nat
  BY <1>1
<1>3. Known(raw, Names, Files) \subseteq Models(Names, Files)
  BY DEF Known, OldModels, NewModels
<1>4. Nil \notin Models(Names, Files)
  BY DEF Apart
<1> QED
  BY <1>2, <1>3, <1>4

(***************************************************************************)
(* The id under which list_models shows a model leads get_model back to    *)
(* it, whatever the file holds, unless an earlier one has it for its name. *)
(***************************************************************************)
THEOREM IdsAlwaysLeadToModels ==
  ASSUME NEW Names, NEW Files, Apart(Names, Files), NEW raw \in Registries(Names, Files)
  PROVE  IdLeadsToModel(raw)
<1>1. PICK models : models = ListModels(raw)
  OBVIOUS
<1>2. Listed(models, Known(raw, Names, Files))
  BY <1>1, ListIsListed
<1>3. models \in Seq(Known(raw, Names, Files))
  BY <1>2 DEF Listed
<1>4. ASSUME NEW i \in DOMAIN models, NEW m, m = GetModel(raw, models[i].id), m # models[i]
      PROVE  \E j \in 1..(i - 1) : models[j].name = models[i].id
  <2>1. Gets(models, models[i].id, m)
    BY <1>1, <1>3, <1>4, GetModelGets
  <2>2. Bears(models[i], models[i].id)
    BY DEF Bears
  <2>3. PICK k \in DOMAIN models : m = models[k] /\ Bears(m, models[i].id) /\ k <= i
    BY <2>1, <2>2 DEF Gets
  <2>4. k \in 1..(i - 1)
    <3>1. k # i
      BY <1>4, <2>3
    <3>2. k \in Nat /\ i \in Nat /\ 1 <= k
      BY <1>3
    <3> QED
      BY <2>3, <3>1, <3>2
  <2>5. models[k].id # models[i].id
    BY <1>2, <2>4 DEF Listed
  <2>6. models[k].name = models[i].id
    BY <2>3, <2>5 DEF Bears
  <2> QED
    BY <2>4, <2>6
<1> QED
  BY <1>1, <1>4 DEF IdLeadsToModel

LEMMA ResolvedSays ==
  ASSUME NEW m
  PROVE  /\ m.task = "object-detection" => Resolved(m).status = 200 /\ Resolved(m).model = m
         /\ m.task # "object-detection" => Resolved(m).status # 200
BY DEF Resolved

LEMMA NotFoundSays ==
  ASSUME NEW code
  PROVE  NotFound(code).status # 200
BY DEF NotFound

Detects(m) == m.task = "object-detection"

\* What _resolve_vision_model may answer with.
LEMMA ResolveSays ==
  ASSUME NEW Names, NEW Files, Apart(Names, Files), NEW raw \in Registries(Names, Files),
         NEW models, models = ListModels(raw), NEW id, NEW preferred,
         NEW answer, answer = ResolveVisionModel(raw, id, preferred)
  PROVE  /\ answer.status = 200 =>
              /\ \E i \in DOMAIN models : models[i] = answer.model
              /\ Detects(answer.model)
              /\ id # Nil => Bears(answer.model, id)
         /\ id = Nil /\ answer.status # 200 => \A i \in DOMAIN models : ~Detects(models[i])
         /\ \A i \in DOMAIN models :
              /\ id = Nil /\ models[i].id = preferred /\ Detects(models[i])
              /\ \A j \in DOMAIN models : models[j].name = preferred => Detects(models[j])
              => Bears(answer.model, preferred)
<1>1. PICK known : known = Known(raw, Names, Files) /\ Listed(models, known)
  BY ListIsListed
<1>2. models \in Seq(known)
  BY <1>1 DEF Listed
<1>3. PICK named, wanted, byDefault :
        /\ named = GetModel(raw, id)
        /\ wanted = GetModel(raw, preferred)
        /\ byDefault = GetDefaultModel(raw, "object-detection")
  OBVIOUS
<1>4. /\ Gets(models, id, named) /\ Gets(models, preferred, wanted)
      /\ Defaults(models, "object-detection", byDefault)
  BY <1>2, <1>3, GetModelGets, GetDefaultDefaults
<1>5. \A i \in DOMAIN models : models[i] # Nil
  BY <1>1, KnownAreModels
<1>6. answer = IF id # Nil THEN IF named = Nil THEN NotFound("model_not_found") ELSE Resolved(named)
               ELSE IF wanted # Nil /\ Detects(wanted) THEN Resolved(wanted)
               ELSE IF byDefault = Nil THEN NotFound("vision_model_not_configured")
               ELSE Resolved(byDefault)
  BY <1>3 DEF ResolveVisionModel, Detects
<1>7. ASSUME id # Nil
      PROVE  answer.status = 200 => /\ \E i \in DOMAIN models : models[i] = answer.model
                                    /\ Detects(answer.model)
                                    /\ Bears(answer.model, id)
  <2>1. CASE named = Nil
    <3>1. answer = NotFound("model_not_found")
      BY <1>6, <1>7, <2>1
    <3> QED
      BY <3>1, NotFoundSays
  <2>2. CASE named # Nil
    <3>1. answer = Resolved(named)
      BY <1>6, <1>7, <2>2
    <3>2. PICK i \in DOMAIN models : named = models[i] /\ Bears(named, id)
      BY <1>4, <2>2 DEF Gets
    <3>3. answer.status = 200 => answer.model = named /\ Detects(named)
      BY <3>1, ResolvedSays DEF Detects
    <3> QED
      BY <3>2, <3>3
  <2> QED
    BY <2>1, <2>2
<1>8. ASSUME id = Nil, wanted # Nil, Detects(wanted)
      PROVE  /\ answer.status = 200 /\ answer.model = wanted /\ Bears(wanted, preferred)
             /\ \E i \in DOMAIN models : models[i] = wanted
  <2>1. answer = Resolved(wanted)
    BY <1>6, <1>8
  <2>2. PICK i \in DOMAIN models : wanted = models[i] /\ Bears(wanted, preferred)
    BY <1>4, <1>8 DEF Gets
  <2>3. answer.status = 200 /\ answer.model = wanted
    BY <1>8, <2>1, ResolvedSays DEF Detects
  <2> QED
    BY <2>2, <2>3
<1>9. ASSUME id = Nil, ~(wanted # Nil /\ Detects(wanted))
      PROVE  \/ answer.status # 200 /\ \A i \in DOMAIN models : ~Detects(models[i])
             \/ /\ answer.status = 200 /\ Detects(answer.model)
                /\ \E i \in DOMAIN models : models[i] = answer.model
  <2>1. CASE byDefault = Nil
    <3>1. answer = NotFound("vision_model_not_configured")
      BY <1>6, <1>9, <2>1
    <3>2. \A i \in DOMAIN models : ~Detects(models[i])
      BY <1>4, <1>5, <2>1 DEF Defaults, Detects
    <3> QED
      BY <3>1, <3>2, NotFoundSays
  <2>2. CASE byDefault # Nil
    <3>1. answer = Resolved(byDefault)
      BY <1>6, <1>9, <2>2
    <3>2. PICK i \in DOMAIN models : byDefault = models[i] /\ Detects(byDefault)
      BY <1>4, <2>2 DEF Defaults, Detects
    <3>3. answer.status = 200 /\ answer.model = byDefault
      BY <3>1, <3>2, ResolvedSays DEF Detects
    <3> QED
      BY <3>2, <3>3
  <2> QED
    BY <2>1, <2>2
<1>10. ASSUME id = Nil, NEW i \in DOMAIN models, models[i].id = preferred, Detects(models[i]),
              \A j \in DOMAIN models : models[j].name = preferred => Detects(models[j])
       PROVE  Bears(answer.model, preferred)
  <2>1. Bears(models[i], preferred)
    BY <1>10 DEF Bears
  <2>2. PICK k \in DOMAIN models : wanted = models[k] /\ Bears(wanted, preferred)
    BY <1>4, <2>1 DEF Gets
  <2>3. Detects(wanted)
    <3>1. CASE wanted.name = preferred
      BY <1>10, <2>2, <3>1
    <3>2. CASE wanted.id = preferred
      <4>1. i \in Nat /\ k \in Nat
        BY <1>2
      <4>2. ~(i < k) /\ ~(k < i)
        BY <1>1, <1>10, <2>2, <3>2 DEF Listed
      <4>3. i = k
        BY <4>1, <4>2
      <4> QED
        BY <1>10, <2>2, <4>3
    <3> QED
      BY <2>2, <3>1, <3>2 DEF Bears
  <2> QED
    BY <1>5, <1>8, <1>10, <2>2, <2>3
<1> QED
  <2>1. CASE id # Nil
    BY <1>7, <2>1
  <2>2. CASE id = Nil
    BY <1>8, <1>9, <1>10, <2>2
  <2> QED
    BY <2>1, <2>2

(***************************************************************************)
(* Whoever asks for a model by a name is told about one of that name that  *)
(* detects objects, and a request that names none gets one whenever there  *)
(* is one, the preferred one if it can be had (_resolve_vision_model).     *)
(***************************************************************************)
THEOREM AlwaysResolvesToDetector ==
  ASSUME NEW Names, NEW Files, Apart(Names, Files), NEW raw \in Registries(Names, Files),
         NEW id, NEW preferred
  PROVE  ResolvesToDetector(raw, id, preferred)
<1>1. PICK models : models = ListModels(raw)
  OBVIOUS
<1>2. PICK answer : answer = ResolveVisionModel(raw, id, preferred)
  OBVIOUS
<1>3. PICK detectors : detectors = {m \in ToSet(models) : m.task = "object-detection"}
  OBVIOUS
<1>4. ToSet(models) = {models[i] : i \in DOMAIN models}
  BY DEF ToSet
<1>5. \A m : m \in detectors <=> Detects(m) /\ \E i \in DOMAIN models : models[i] = m
  BY <1>3, <1>4 DEF Detects
<1>6. answer.status = 200 => answer.model \in detectors
  BY <1>1, <1>2, <1>5, ResolveSays
<1>7. answer.status = 200 /\ id # Nil => id \in {answer.model.id, answer.model.name}
  BY <1>1, <1>2, ResolveSays DEF Bears
<1>8. id = Nil => ((answer.status = 200) <=> (detectors # {}))
  <2>1. id = Nil /\ answer.status # 200 => \A i \in DOMAIN models : ~Detects(models[i])
    BY <1>1, <1>2, ResolveSays
  <2> QED
    BY <1>5, <1>6, <2>1
<1>9. ASSUME id = Nil, NEW m \in detectors, preferred = m.id,
             \A n \in ToSet(models) \ detectors : n.name # preferred
      PROVE  preferred \in {answer.model.id, answer.model.name}
  <2>1. PICK i \in DOMAIN models : models[i] = m /\ Detects(models[i])
    BY <1>5
  <2>2. ASSUME NEW j \in DOMAIN models, models[j].name = preferred PROVE Detects(models[j])
    BY <1>4, <1>5, <1>9, <2>2
  <2>3. Bears(answer.model, preferred)
    BY <1>1, <1>2, <1>9, <2>1, <2>2, ResolveSays
  <2> QED
    BY <2>3 DEF Bears
<1> QED
  BY <1>1, <1>2, <1>3, <1>6, <1>7, <1>8, <1>9 DEF ResolvesToDetector

\* The names a model made of an item goes by are the item's.
LEMMA MadeOfItsItem ==
  ASSUME NEW Names, NEW Files, Apart(Names, Files), NEW item \in Entries(Names, Files),
         NEW m, GenericModels(item) = <<m>>
  PROVE  /\ m.id = OrElse(item.id, EntryKey(item)) /\ m.file = item.file
         /\ m.id \in Identities(item) /\ m.name \in Identities(item)
         /\ item.key = Nil => m.id \in {OrElse(item.id, item.name), OrElse(item.name, item.id)} \ {Nil}
<1>1. EntryKey(item) # Nil
  <2>1. SUFFICES ASSUME EntryKey(item) = Nil PROVE FALSE
    OBVIOUS
  <2>2. GenericModels(item) = <<>>
    BY <2>1 DEF GenericModels
  <2>3. <<m>> # <<>>
    OBVIOUS
  <2> QED
    BY <2>2, <2>3
<1>2. PICK n : n = [id |-> OrElse(item.id, EntryKey(item)),
                    name |-> OrElse(item.name, EntryKey(item)),
                    task |-> OrElse(item.task, "unknown"), recommended |-> item.recommended,
                    file |-> item.file]
  OBVIOUS
<1>3. GenericModels(item) = <<n>>
  BY <1>1, <1>2 DEF GenericModels
<1>4. m = n
  BY <1>3
<1>5. /\ m.id = OrElse(item.id, EntryKey(item)) /\ m.name = OrElse(item.name, EntryKey(item))
      /\ m.file = item.file
  BY <1>2, <1>4
<1>6. /\ EntryKey(item) \in {item.key, item.id, item.name}
      /\ item.key = Nil => EntryKey(item) = OrElse(item.id, item.name)
  BY DEF EntryKey, OrElse
<1>7. m.id # Nil /\ m.name # Nil
  BY <1>1, <1>5 DEF OrElse
<1>8. m.id \in {item.key, item.id, item.name} /\ m.name \in {item.key, item.id, item.name}
  BY <1>5, <1>6 DEF OrElse
<1>9. item.key = Nil => m.id = OrElse(item.id, item.name)
  BY <1>5, <1>6 DEF OrElse
<1> QED
  BY <1>5, <1>7, <1>8, <1>9 DEF Identities

\* The places _raw_model_config finds an entry at.
EntryPlaces(raw, m) ==
  {i \in DOMAIN raw.models :
     /\ raw.models[i].key = Nil
     /\ {m.id, m.name} \cap
          ({OrElse(raw.models[i].id, raw.models[i].name), OrElse(raw.models[i].name, raw.models[i].id)}
             \ {Nil}) # {}}

LEMMA PlacesOfTheItem ==
  ASSUME NEW Names, NEW Files, Apart(Names, Files), NEW raw \in Registries(Names, Files),
         Unambiguous(raw), NEW i \in DOMAIN raw.models, NEW m, MadeOf(raw, i, m)
  PROVE  EntryPlaces(raw, m) = IF raw.models[i].key = Nil THEN {i} ELSE {}
<1>1. raw.models \in Seq(Entries(Names, Files))
  BY DEF Registries
<1>2. \A k \in DOMAIN raw.models : raw.models[k] \in Entries(Names, Files)
  BY <1>1
<1>3. PICK item \in Entries(Names, Files) : item = raw.models[i]
  BY <1>2
<1>4. /\ m.id \in Identities(item) /\ m.name \in Identities(item)
      /\ item.key = Nil => m.id \in {OrElse(item.id, item.name), OrElse(item.name, item.id)} \ {Nil}
  BY <1>3, MadeOfItsItem DEF MadeOf
<1>5. item.key = Nil => i \in EntryPlaces(raw, m)
  BY <1>3, <1>4 DEF EntryPlaces
<1>6. ASSUME NEW k \in EntryPlaces(raw, m) PROVE k = i /\ item.key = Nil
  <2>1. PICK other : other = raw.models[k]
    OBVIOUS
  <2>2. /\ k \in DOMAIN raw.models /\ other.key = Nil
        /\ {m.id, m.name} \cap
             ({OrElse(other.id, other.name), OrElse(other.name, other.id)} \ {Nil}) # {}
    BY <1>6, <2>1 DEF EntryPlaces
  <2>3. PICK name : /\ name \in {m.id, m.name} /\ name # Nil
                    /\ name \in {OrElse(other.id, other.name), OrElse(other.name, other.id)}
    BY <2>2
  <2>4. name \in Identities(other)
    BY <2>3 DEF OrElse, Identities
  <2>5. name \in Identities(item)
    BY <1>4, <2>3
  <2>6. k = i
    BY <1>3, <2>1, <2>2, <2>4, <2>5 DEF Unambiguous
  <2> QED
    BY <1>3, <2>1, <2>2, <2>6
<1> QED
  <2>1. CASE item.key = Nil
    BY <1>3, <1>5, <1>6, <2>1
  <2>2. CASE item.key # Nil
    BY <1>3, <1>6, <2>2
  <2> QED
    BY <2>1, <2>2

(***************************************************************************)
(* Where every name is some entry's own, the file that _model_path finds   *)
(* in a second search of the YAML is the file of the model of the answer.  *)
(***************************************************************************)
THEOREM FileIsAlwaysOfTheModel ==
  ASSUME NEW Names, NEW Files, Apart(Names, Files), NEW raw \in Registries(Names, Files),
         NEW id, NEW preferred
  PROVE  FileIsOfTheModel(raw, id, preferred)
<1>1. PICK answer : answer = ResolveVisionModel(raw, id, preferred)
  OBVIOUS
<1>2. SUFFICES ASSUME answer.status = 200, Unambiguous(raw)
               PROVE  \E i \in DOMAIN raw.models :
                        /\ answer.model.id = OrElse(raw.models[i].id, EntryKey(raw.models[i]))
                        /\ IF raw.models[i].key = Nil
                           THEN ModelPath(raw, answer.model)
                                  = OrElse(raw.models[i].runtimeFile, raw.models[i].file)
                           ELSE ModelPath(raw, answer.model) = raw.models[i].file
  BY <1>1 DEF FileIsOfTheModel
<1>3. PICK models : models = ListModels(raw)
  OBVIOUS
<1>4. PICK m : m = answer.model
  OBVIOUS
<1>5. Detects(m) /\ \E k \in DOMAIN models : models[k] = m
  BY <1>1, <1>2, <1>3, <1>4, ResolveSays
<1>6. m \in Known(raw, Names, Files)
  BY <1>3, <1>5, ListIsListed, KnownAreModels
<1>7. m \notin OldModels(Names, Files)
  BY <1>5 DEF OldModels, Detects
<1>8. PICK i \in DOMAIN raw.models : MadeOf(raw, i, m)
  BY <1>6, <1>7 DEF Known, NewModels
<1>9. raw.models[i] \in Entries(Names, Files)
  BY DEF Registries
<1>10. PICK item \in Entries(Names, Files) : item = raw.models[i]
  BY <1>9
<1>11. m.id = OrElse(item.id, EntryKey(item)) /\ m.file = item.file
  BY <1>8, <1>10, MadeOfItsItem DEF MadeOf
<1>12. EntryPlaces(raw, m) = IF item.key = Nil THEN {i} ELSE {}
  BY <1>2, <1>8, <1>10, PlacesOfTheItem
<1>13. RawModelConfig(raw, m) = FirstOf(raw.models, EntryPlaces(raw, m))
  BY DEF RawModelConfig, EntryPlaces
<1>14. CASE item.key = Nil
  <2>1. FirstOf(raw.models, {i}) = item
    <3>1. {i} # {} /\ {i} \in SUBSET Nat
      BY DEF Registries
    <3>2. FirstAt(raw.models, {i}, FirstOf(raw.models, {i}))
      BY <3>1, FirstOfSays
    <3> QED
      BY <1>10, <3>2 DEF FirstAt
  <2>2. RawModelConfig(raw, m) = item
    BY <1>12, <1>13, <1>14, <2>1
  <2>3. item # Nil
    BY DEF Apart
  <2>4. ModelPath(raw, m) = OrElse(item.runtimeFile, OrElse(item.file, m.file))
    BY <2>2, <2>3 DEF ModelPath
  <2>5. OrElse(item.file, m.file) = item.file
    BY <1>11 DEF OrElse
  <2> QED
    BY <1>4, <1>10, <1>11, <1>14, <2>4, <2>5
<1>15. CASE item.key # Nil
  <2>1. RawModelConfig(raw, m) = Nil
    BY <1>12, <1>13, <1>15 DEF FirstOf
  <2>2. ModelPath(raw, m) = m.file
    BY <2>1 DEF ModelPath
  <2> QED
    BY <1>4, <1>10, <1>11, <1>15, <2>2
<1> QED
  BY <1>14, <1>15

(***************************************************************************)
(* All the ways a model is looked up lead to the same one, for every file  *)
(* and every request (LookupsLeadToModels).                                *)
(***************************************************************************)
THEOREM LookupsAlwaysLeadToModels ==
  ASSUME NEW Names, NEW Files, Apart(Names, Files),
         input.of = "registry" => input.raw \in Registries(Names, Files)
  PROVE  LookupsLeadToModels
<1>1. CASE input.of = "registry"
  <2>1. PICK raw \in Registries(Names, Files) : raw = input.raw
    BY <1>1
  <2>2. IdLeadsToModel(raw)
    BY IdsAlwaysLeadToModels
  <2>3. ASSUME NEW id \in Ids, NEW preferred \in Ids \ {Nil}
        PROVE  ResolvesToDetector(raw, id, preferred) /\ FileIsOfTheModel(raw, id, preferred)
    BY AlwaysResolvesToDetector, FileIsAlwaysOfTheModel
  <2> QED
    BY <2>1, <2>2, <2>3
      DEF LookupsLeadToModels, IdsLeadToModels, ResolvesToDetectors, FilesAreOfTheModel
<1>2. CASE input.of # "registry"
  BY <1>2 DEF LookupsLeadToModels, IdsLeadToModels, ResolvesToDetectors, FilesAreOfTheModel
<1> QED
  BY <1>1, <1>2
=============================================================================

---------------------------- MODULE MCAlgorithms ----------------------------
(* The functions without state of the registry, the image probe, the YOLO  *)
(* postprocessing and the unified API, each over all of its small inputs:   *)
(* a behaviour picks an input, and every state is one to be looked at.      *)
EXTENDS ModelRegistry, ImageProbe, YoloPostprocess, InferData, PromptText

VARIABLE input

Init == input = [of |-> "nothing"]

Fresh == input.of = "nothing"
-----------------------------------------------------------------------------
(* The registry: a list or a mapping of two entries, whose files are told  *)
(* apart by their place, with and without an entry of the old status block. *)

File(kind, i) == <<kind, i>>
Ids == {Nil, "a", "b"}
Tasks == {"object-detection", "llm"}

Entry(i, key, id, name, task, recommended, runtime) ==
  [key |-> key, id |-> id, name |-> name, task |-> task, recommended |-> recommended,
   file |-> File("model", i), runtimeFile |-> IF runtime THEN File("runtime", i) ELSE Nil]

Status == {Nil, [recommended |-> TRUE, file |-> File("model", 0)]}

PickList ==
  /\ Fresh
  /\ \E id1, name1, id2, name2 \in Ids, task1, task2 \in Tasks, second, runtime \in BOOLEAN :
       input' = [of |-> "registry",
                 raw |-> [status |-> [all_npu |-> Nil, hybrid |-> Nil],
                          models |-> <<Entry(1, Nil, id1, name1, task1, FALSE, runtime),
                                       Entry(2, Nil, id2, name2, task2, second, FALSE)>>]]

PickMapping ==
  /\ Fresh
  /\ \E id1, id2 \in Ids \cup {VariantId["hybrid"]}, status \in Status, task \in Tasks :
       input' = [of |-> "registry",
                 raw |-> [status |-> [all_npu |-> Nil, hybrid |-> status],
                          models |-> <<Entry(1, "a", id1, Nil, task, FALSE, FALSE),
                                       Entry(2, "c", id2, Nil, "object-detection", TRUE, FALSE)>>]]

\* The id under which list_models shows a model leads get_model back to it,
\* with duplicate ids and entries of the old status block too.
IdsLeadToModels == input.of = "registry" => IdLeadsToModel(input.raw)

\* _resolve_vision_model finds an object-detection model whenever there is
\* one to be had, and never another one than was asked for.
ResolvesToDetectors ==
  input.of = "registry" =>
    \A id \in Ids, preferred \in Ids \ {Nil} : ResolvesToDetector(input.raw, id, preferred)

\* The file that _model_path finds by searching the YAML a second time is
\* the file of the model that the answer names.
FilesAreOfTheModel ==
  input.of = "registry" =>
    \A id \in Ids, preferred \in Ids \ {Nil} : FileIsOfTheModel(input.raw, id, preferred)

\* Whichever way a model is looked up - listed and asked for by its id,
\* resolved for a detection, or searched in the YAML for its file - it is the
\* same model, and for a detection a detector if there is one.
LookupsLeadToModels == IdsLeadToModels /\ ResolvesToDetectors /\ FilesAreOfTheModel
-----------------------------------------------------------------------------
(* JPEG files of up to three segments before the end of the image: the     *)
(* frame header, tables, a comment, an application segment that holds a     *)
(* thumbnail with a frame header of its own, fill bytes.                    *)

Segment(fill, marker, body) == [fill |-> fill, marker |-> marker, body |-> body]
Thumbnail == <<255, 216, 255, 192, 0, 8>> \o FrameBody(1, 1, 1) \o <<255, 217>>
Segments ==
  {Segment(fill, marker, FrameBody(300, 9, 3)) : fill \in {0, 2}, marker \in {192, 194}}
    \cup {Segment(0, 225, Thumbnail), Segment(0, 196, FrameBody(2, 2, 1)),
          Segment(1, 254, <<255>>), Segment(0, 208, <<>>), Segment(0, 217, <<>>),
          Segment(0, 218, <<1, 1, 0, 0, 63, 0>>)}

PickJpeg ==
  /\ Fresh
  /\ \E n \in 1..3 : \E segments \in [1..n -> Segments] :
       input' = [of |-> "jpeg", segments |-> segments]

\* _probe_jpeg reports the size in the frame header that a decoder would
\* use, whatever the segments before it hold, and none where the scan or the
\* end of the image comes first: "SOS or EOI before SOF means dimensions were
\* not found".
FramesAreFound == input.of = "jpeg" => ProbeFindsFrame(input.segments)

\* probe_image refuses a file that is cut off, or measures it right: the size
\* of a thumbnail is never reported.
TruncationsNeverLie == input.of = "jpeg" => TruncationNeverLies(input.segments)

\* probe_image tells the size of the image, or that it cannot: neither what a
\* segment holds nor where the bytes end makes it tell another size.  (In a
\* file that has a frame header after the end of its image the probe finds that
\* one, as it skips the end marker with those that have no payload.)
ProbesTellTheSize ==
  input.of = "jpeg" /\ EndsWithImage(input.segments) => FramesAreFound /\ TruncationsNeverLie
-----------------------------------------------------------------------------
(* YOLO outputs: three predictions over four boxes, of which some overlap,  *)
(* with the scores of two classes, in every order the sort may give.        *)

InputWidth == 12
InputHeight == 10
SomeBoxes == {<<4, 4, 4, 4>>, <<6, 4, 4, 4>>, <<8, 4, 4, 4>>, <<12, 8, 8, 8>>}
SomeScores == {<<3, 1>>, <<2, 3>>, <<2, 2>>, <<0, 1>>}
Predictions == [1..3 -> [box : SomeBoxes, classes : SomeScores]]
Orders == {o \in [1..3 -> 1..3] : ToSet(o) = 1..3}
Quarter == [num |-> 1, den |-> 4]

PickPredictions ==
  /\ Fresh
  /\ \E p \in Predictions : \E o \in Orders :
       Ranks(p, o) /\ input' = [of |-> "predictions", predictions |-> p, order |-> o]

\* nms drops a confident prediction only for a better one that is itself
\* kept and overlaps it too much, and keeps no two that overlap too much.
BestAreKept ==
  input.of = "predictions" =>
    KeepsExactlyTheBest(input.predictions, input.order, 2, Quarter, InputWidth, InputHeight)

\* The detections come by falling score, so that the worker's cut drops the
\* worst, and their boxes stay inside the model's input.
KeptAreSortedAndInside ==
  input.of = "predictions" =>
    SortedAndInside(input.predictions, input.order, 2, Quarter, InputWidth, InputHeight)

\* What postprocess_yolo returns, however equal scores are ordered: exactly the
\* confident predictions that no better kept one overlaps, the best first.
DetectionsAreTheBest == BestAreKept /\ KeptAreSortedAndInside

PickSizes ==
  /\ Fresh
  /\ \E phase \in {"18d", "18j"}, width, height \in 1..7, targetW, targetH \in 2..6 :
       input' = [of |-> "sizes", phase |-> phase, width |-> width, height |-> height,
                 targetW |-> targetW, targetH |-> targetH]

\* A preprocess plan covers the model's input exactly, and a letterbox keeps
\* the image's proportions, in spite of the rounding.
PlansFit ==
  input.of = "sizes" =>
    PlanFits(input.phase, input.width, input.height, input.targetW, input.targetH)

\* refine_detection takes boxes back to where they are in the image: boxes
\* that nms told apart in the model's input are told apart there.
WayBackIsTrue ==
  input.of = "sizes" =>
    WayBackKeepsOverlap(<<0, 0, 3, 4>>, <<1, 2, 4, 6>>, Quarter,
                        input.width, input.height, input.targetW, input.targetH)

PickShape ==
  /\ Fresh
  /\ \E n \in {5, 6, 84, 255, 256, 257, 8400}, c \in {5, 6, 84, 256, 257} :
       input' = [of |-> "shape", n |-> n, c |-> c]

\* normalize_yolo_output finds the predictions whichever way round they come,
\* at the limits of what may be a channel dimension too.
LayoutsAreFound == input.of = "shape" => LayoutIsFound(input.n, input.c)

\* From the image to the tensor and back: the plan fits, the output is read
\* the right way round, and boxes come back to their place in the image.
GeometryIsTrue == PlansFit /\ LayoutsAreFound /\ WayBackIsTrue
-----------------------------------------------------------------------------
(* The unified API: every request, short lists of objects, short outputs.   *)

PickRequest ==
  /\ Fresh
  /\ \E req \in UnifiedInferRequest : input' = [of |-> "request", req |-> req]

PickObjects ==
  /\ Fresh
  /\ \E n \in 0..4 : \E classes \in [1..n -> {Nothing, "person", "dog", "car"}] :
       input' = [of |-> "objects",
                 objects |-> [i \in 1..n |-> [class |-> classes[i], space |-> Nothing]]]

PickOutput ==
  /\ Fresh
  /\ \E n \in 0..5 : \E out \in [1..n -> Tokens] : input' = [of |-> "output", out |-> out]

\* A request of /v1/infer gets to the handler of its task exactly if it has
\* all that the handler needs; any other is told something that is wrong with
\* it, unless that is nothing but a number the code lets through to a crash.
RequestsAreComplete == input.of = "request" => HandlersGetWhatTheyNeed(input.req)

\* The adapter's summary names every class once, in the order of appearance.
SummariesNameClasses == input.of = "objects" => SummaryNamesClasses(input.objects)

\* _extract_answer returns the first turn after Answer:, whatever prompts,
\* blanks and escapes surround it.
AnswersAreTheTurn == input.of = "output" => AnswerIsTheTurn(input.out)

\* What /v1/infer tells of a backend's output: of detections every class, of
\* the demo's output the first answer in it and no more.
AnswersTell == SummariesNameClasses /\ AnswersAreTheTurn
-----------------------------------------------------------------------------
(* Short texts of words, a keyword, the image mark and all white space.     *)

Texts(chars, n) == UNION {[1..k -> chars] : k \in 0..n}
Message(role, content) == [role |-> role, content |-> content]

PickMessages ==
  /\ Fresh
  /\ \/ \E asked \in Texts(Content, 4) :
          input' = [of |-> "messages", messages |-> <<Message("user", asked)>>]
     \/ \E told, asked \in Texts(Content, 2) :
          input' = [of |-> "messages",
                    messages |-> <<Message("system", told), Message("user", asked)>>]

PickLine ==
  /\ Fresh
  /\ \E path \in Texts({"w", "s", "t", "n"}, 3), prompt \in Texts(Content, 3) :
       input' = [of |-> "line", path |-> path, prompt |-> prompt]

\* What an LLM worker is sent for a chat is one line, whatever the messages
\* hold: two lines would be two prompts, and answers would change owners.
PromptsAreOneLine == input.of = "messages" => PromptIsOneLine(input.messages)

\* What the Qwen3-VL worker is sent is one line of two fields, whatever path
\* and prompt hold: its protocol has no identifiers to mend a line too many.
RequestLinesHaveTwoFields == input.of = "line" => RequestLineHasTwoFields(input.path, input.prompt)

\* One request, one line: whatever a client puts into its texts, neither LLM
\* worker is sent a second prompt.
LinesAreRequests == PromptsAreOneLine /\ RequestLinesHaveTwoFields

Next ==
  \/ PickMessages \/ PickLine \/ PickList \/ PickMapping \/ PickJpeg \/ PickPredictions \/ PickSizes \/ PickShape
  \/ PickRequest \/ PickObjects \/ PickOutput

Spec == Init /\ [][Next]_input
=============================================================================

------------------------------- MODULE InferData -------------------------------
(***************************************************************************)
(* The decisions of /v1/infer that keep no state: which handler a request  *)
(* goes to or how it is refused (server/api/infer_api.py), how the answers *)
(* of the handlers are summed up (server/runtime/unified_adapters.py), and *)
(* how the answer is found in the output of the one-shot Qwen3-VL demo     *)
(* (server/runtime/qwen3_vl_backend.py).                                   *)
(*                                                                         *)
(* A request is a record: its task, as _normalize_task leaves it, whether  *)
(* it streams, the numbers among its parameters, and whether each field of *)
(* its input is absent, blank (or of another type) or given.               *)
(***************************************************************************)
EXTENDS Naturals, Sequences, SequencesExt

TextGenerationTasks == {"text-generation", "chat-completion"}
VisionTasks == {"object-detection"}
VLMTasks == {"vision-language", "image-captioning", "visual-question-answering",
             "multimodal-chat"}

Field == {"absent", "blank", "given"}
Numbers == {"good", "bad", "outside", "infinite"}   \* outside: out of range

UnifiedInferRequest ==
  [task : TextGenerationTasks \cup VisionTasks \cup VLMTasks \cup {"", "unknown"},
   stream : BOOLEAN, numbers : Numbers, imagePath : Field, image : Field,
   messages : Field, text : Field, prompt : Field, question : Field]

Refused(status, code) == [to |-> "refused", status |-> status, code |-> code]
Goes(route) == [to |-> route, status |-> 0, code |-> "none"]
Invalid(code) == Refused(400, code)

\* _dispatch_object_detection up to the call of vision_detect.  A threshold
\* that VisionDetectRequest rejects ends in an exception that nobody maps.
DispatchObjectDetection(req) ==
  IF req.imagePath # "given" THEN Invalid("invalid_unified_vision_input")
  ELSE IF req.numbers = "bad" THEN Invalid("invalid_parameter")
  ELSE IF req.numbers # "good" THEN Refused(500, "none")
  ELSE Goes("vision")

\* _messages_from_input: a prompt counts only if there is no text at all.
HasMessages(req) ==
  \/ req.messages = "given"
  \/ req.text = "given"
  \/ req.text = "absent" /\ req.prompt = "given"

\* _dispatch_text_generation up to the call of chat_completions.
DispatchTextGeneration(req) ==
  IF req.stream THEN Invalid("unified_stream_not_supported")
  ELSE IF ~HasMessages(req) THEN Invalid("invalid_unified_text_input")
  ELSE IF req.numbers # "good" THEN Invalid("invalid_unified_text_payload")
  ELSE Goes("text")

\* _vlm_image_path_from_request.
HasImage(req) == "given" \in {req.imagePath, req.image}

\* _vlm_prompt_from_request: the field the prompt is taken from.
VlmPrompt(req) ==
  IF req.prompt = "given" THEN "prompt"
  ELSE IF req.text = "given" THEN "text"
  ELSE IF req.question = "given" THEN "question"
  ELSE IF req.task = "visual-question-answering" THEN "none" ELSE "default"

\* Mutant: the numbers are converted by the backend, under its lease.
DispatchVlmLate(req) ==
  IF ~HasImage(req) \/ VlmPrompt(req) = "none" THEN Invalid("invalid_vlm_input")
  ELSE Goes("vlm")

\* _dispatch_vlm up to the call of generate, whose arguments it converts: int of
\* an infinite number (1e400) raises what _int_param does not catch.
DispatchVlm(req) ==
  IF ~HasImage(req) \/ VlmPrompt(req) = "none" THEN Invalid("invalid_vlm_input")
  ELSE IF req.numbers = "bad" THEN Invalid("invalid_parameter")
  ELSE IF req.numbers = "infinite" THEN Refused(500, "none")
  ELSE Goes("vlm")

\* unified_infer; its placeholder branch for VLM tasks is never reached.
Dispatch(req) ==
  IF req.task = "" THEN Invalid("missing_task")
  ELSE IF req.task \in VisionTasks THEN DispatchObjectDetection(req)
  ELSE IF req.task \in TextGenerationTasks THEN DispatchTextGeneration(req)
  ELSE IF req.task \in VLMTasks THEN DispatchVlm(req)
  ELSE Invalid("unsupported_task")
-----------------------------------------------------------------------------
(* Adapters.  An object is a record with its class; Nothing is None.        *)

Nothing == "none"

\* _ordered_unique.
OrderedUnique(values) ==
  LET isNew(i) == values[i] # Nothing /\ \A j \in 1..(i - 1) : values[j] # values[i]
  IN  FlattenSeq([i \in DOMAIN values |-> IF isNew(i) THEN <<values[i]>> ELSE <<>>])

\* make_object_detection_adapter_result: the summary of a list of objects.
ObjectSummary(objects) ==
  [number |-> Len(objects),
   classes |-> OrderedUnique([i \in DOMAIN objects |-> objects[i].class]),
   space |-> IF objects = <<>> \/ objects[1].space = Nothing
             THEN "original_image" ELSE objects[1].space]

-----------------------------------------------------------------------------
(* The output of the one-shot demo, as tokens: "A" is Answer:, "U" is User:,*)
(* "n" a newline, "s" a space, "e" a colour escape, "w" a word.             *)

Tokens == {"A", "U", "n", "s", "e", "w"}
Blank == {"n", "s"}
Failed == <<"failed">>   \* no Answer:, or an empty one

\* Mutant: the next prompt is looked for at the very beginning of a line.
EndsAnswerBare(out, i) == out[i] = "n" /\ i < Len(out) /\ out[i + 1] = "U"

\* \n\s*User: matches at i.
EndsAnswer(out, i) ==
  /\ out[i] = "n"
  /\ \E j \in (i + 1)..Len(out) :
       out[j] = "U" /\ \A k \in (i + 1)..(j - 1) : out[k] \in Blank

Strip(s) ==
  LET solid == {i \in DOMAIN s : s[i] \notin Blank}
  IN  IF solid = {} THEN <<>>
      ELSE SubSeq(s, CHOOSE i \in solid : \A j \in solid : i <= j,
                     CHOOSE i \in solid : \A j \in solid : j <= i)

\* The colour escapes are removed.
Uncoloured(s) == FlattenSeq([i \in DOMAIN s |-> IF s[i] = "e" THEN <<>> ELSE <<s[i]>>])

LeastOf(positions, default) ==
  IF positions = {} THEN default ELSE CHOOSE i \in positions : \A j \in positions : i <= j

\* _extract_answer: from the first solid token after the first Answer: to the
\* first User: that begins a line after that token.
ExtractAnswer(out) ==
  LET starts == {i \in DOMAIN out : out[i] = "A"}
      start == LeastOf(starts, 0)
      from == LeastOf({i \in (start + 1)..Len(out) : out[i] \notin Blank}, Len(out) + 1)
      end == LeastOf({i \in from..Len(out) : EndsAnswer(out, i)}, Len(out) + 1)
      answer == Strip(Uncoloured(SubSeq(out, from, end - 1)))
  IN  IF starts = {} \/ answer = <<>> THEN Failed ELSE answer
-----------------------------------------------------------------------------
(* What is promised.                                                       *)

\* All that is wrong with a request, by what its task's handler needs and in no
\* order: the code of an error for each defect, "none" for the two that the code
\* maps to no error (a threshold beyond what VisionDetectRequest takes, a length
\* without end).  A prompt behind a text that is there but blank is no words
\* (HasMessages).
Wrong(req) ==
  LET vision == req.task \in VisionTasks
      text == req.task \in TextGenerationTasks
      vlm == req.task \in VLMTasks
      words(fields) == \E f \in fields : req[f] = "given"
  IN  [missing_task |-> req.task = "",
       unsupported_task |-> req.task # "" /\ ~(vision \/ text \/ vlm),
       invalid_unified_vision_input |-> vision /\ ~words({"imagePath"}),
       unified_stream_not_supported |-> text /\ req.stream,
       invalid_unified_text_input |->
         text /\ ~words({"messages", "text"} \cup
                        IF req.text = "absent" THEN {"prompt"} ELSE {}),
       invalid_unified_text_payload |-> text /\ req.numbers # "good",
       invalid_vlm_input |->
         vlm /\ \/ ~words({"imagePath", "image"})
                \/ /\ req.task = "visual-question-answering"
                   /\ ~words({"prompt", "text", "question"}),
       invalid_parameter |-> (vision \/ vlm) /\ req.numbers = "bad",
       none |-> \/ vision /\ req.numbers \in {"outside", "infinite"}
                \/ vlm /\ req.numbers = "infinite"]

Defects(req) == {code \in DOMAIN Wrong(req) : Wrong(req)[code]}

\* A request with all that its handler needs reaches that handler, and with it a
\* queue or a lease; any other is refused before, for something that is wrong
\* with it.  It is told what with a 400, unless nothing is wrong but a number that
\* the dispatchers let through to an exception they do not catch.
HandlersGetWhatTheyNeed(req) ==
  LET d == Dispatch(req)
      handler == IF req.task \in VisionTasks THEN "vision"
                 ELSE IF req.task \in TextGenerationTasks THEN "text" ELSE "vlm"
  IN  \/ Defects(req) = {} /\ d = Goes(handler)
      \/ \E code \in Defects(req) \ {"none"} : d = Invalid(code)
      \/ Defects(req) = {"none"} /\ d = Refused(500, "none")

\* The summary names every class among the objects, once, in the order in
\* which they first appear.
SummaryNamesClasses(objects) ==
  LET classes == ObjectSummary(objects).classes
      first(c) == CHOOSE i \in DOMAIN objects :
                    objects[i].class = c /\ \A j \in 1..(i-1) : objects[j].class # c
  IN  /\ ToSet(classes) = {objects[i].class : i \in DOMAIN objects} \ {Nothing}
      /\ \A i, j \in DOMAIN classes : i < j => first(classes[i]) < first(classes[j])

\* The answer is the turn that follows the first Answer:, without escapes, if
\* that turn holds anything at all.  (After an empty turn the pattern has
\* passed the line end before User:, and takes the next turn for the answer.)
AnswerIsTheTurn(out) ==
  \A start \in DOMAIN out :
    out[start] = "A" /\ (\A i \in 1..(start - 1) : out[i] # "A") =>
      LET prompts == {i \in (start + 1)..Len(out) :
                        /\ out[i] = "U"
                        /\ \E n \in (start + 1)..(i - 1) :
                             out[n] = "n" /\ {out[k] : k \in n..(i - 1)} \subseteq Blank}
          turn == Strip(SubSeq(out, start + 1, LeastOf(prompts, Len(out) + 1) - 1))
          clean == Strip(Uncoloured(turn))
      IN  turn # <<>> => ExtractAnswer(out) = IF clean = <<>> THEN Failed ELSE clean
=============================================================================

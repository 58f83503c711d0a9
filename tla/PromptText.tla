------------------------------ MODULE PromptText ------------------------------
(***************************************************************************)
(* What the workers are sent: the prompt of a chat (render_prompt of       *)
(* server/api/chat_api.py, server/runtime/prompt_policy.py) and the        *)
(* request line of the Qwen3-VL worker (server/runtime/                    *)
(* qwen3_vl_backend.py).  Both workers read a line at a time and know no   *)
(* other end of a request than the end of its line.                        *)
(*                                                                         *)
(* Texts are sequences of tokens: "w" a word, "k" a word of                *)
(* RK3588_KEYWORDS, "i" the mark <image>, "s" a space, "n", "r", "t" the   *)
(* control characters; the code's own texts are one token each.            *)
(***************************************************************************)
EXTENDS Naturals, Sequences, SequencesExt

White == {"s", "n", "r", "t"}
Content == {"w", "k", "i"} \cup White

\* strip().
Stripped(text) ==
  LET solid == {i \in DOMAIN text : text[i] \notin White}
      from == IF solid = {} THEN 1 ELSE CHOOSE i \in solid : \A j \in solid : i <= j
      to == IF solid = {} THEN 0 ELSE CHOOSE i \in solid : \A j \in solid : j <= i
  IN  SubSeq(text, from, to)

\* render_prompt: a line for each message and one to be continued.
RenderPrompt(messages) ==
  FlattenSeq([i \in DOMAIN messages |-> <<messages[i].role, "s">> \o messages[i].content \o <<"n">>])
    \o <<"assistant">>

\* Mutant: white space is taken out and nothing put in its place.
NormalizePromptLineMerges(text) == SelectSeq(text, LAMBDA c : c \notin White)

\* normalize_prompt_line: one space for each run of white space.
NormalizePromptLine(text) ==
  LET t == Stripped(text)
  IN  FlattenSeq([i \in DOMAIN t |-> CASE t[i] \notin White -> <<t[i]>>
                                      [] t[i] \in White /\ t[i - 1] \notin White -> <<"s">>
                                      [] OTHER -> <<>>])

ShouldInjectRk3588Facts(prompt) == "k" \in ToSet(prompt)

\* build_serving_prompt, of the rendered prompt.
BuildServingPrompt(prompt) ==
  LET line == NormalizePromptLine(prompt)
      facts == IF ShouldInjectRk3588Facts(line) THEN <<"FACTS", "s", "GUARDRAILS", "s">> ELSE <<>>
  IN  NormalizePromptLine(<<"INSTRUCTION", "s">> \o facts \o <<"QUESTION">> \o line)

\* _sanitize_request_field.
SanitizeRequestField(value) ==
  Stripped([i \in DOMAIN value |-> IF value[i] \in White THEN "s" ELSE value[i]])

\* _normalize_prompt.
NormalizePrompt(prompt) ==
  LET given == Stripped(prompt)
      words == IF given = <<>> THEN <<"DESCRIBE">> ELSE given
  IN  IF "i" \in ToSet(words) THEN words ELSE <<"i", "s">> \o words

\* The line that infer writes.
RequestLine(imagePath, prompt) ==
  SanitizeRequestField(imagePath) \o <<"t">> \o SanitizeRequestField(NormalizePrompt(prompt)) \o <<"n">>
-----------------------------------------------------------------------------
Positions(text, chars) == {i \in DOMAIN text : text[i] \in chars}

\* The words of a text, each with whether white space comes before it.
Words(text) ==
  FlattenSeq([i \in DOMAIN text |->
    IF text[i] \in White THEN <<>>
    ELSE <<[word |-> text[i], apart |-> i > 1 /\ text[i - 1] \in White]>>])

\* The worker is sent one line, which ends in every word of every message, in
\* order and as far apart as they were, and tells the facts if a keyword is
\* among them.
PromptIsOneLine(messages) ==
  LET asked == Words(RenderPrompt(messages))
      sent == BuildServingPrompt(RenderPrompt(messages))
  IN  /\ Positions(sent, White \ {"s"}) = {}
      /\ IsSuffix(asked, Words(sent))
      /\ "FACTS" \in ToSet(sent) <=> \E i \in DOMAIN messages : "k" \in ToSet(messages[i].content)

\* The worker's request is one line of two fields: the path's words, and a
\* question about the image.
RequestLineHasTwoFields(imagePath, prompt) ==
  LET line == RequestLine(imagePath, prompt)
      tab == CHOOSE i \in Positions(line, {"t"}) : TRUE
      question == SubSeq(line, tab + 1, Len(line) - 1)
  IN  /\ Positions(line, {"n", "r"}) = {Len(line)}
      /\ Positions(line, {"t"}) = {tab}
      /\ Words(SubSeq(line, 1, tab)) = Words(Stripped(imagePath))
      /\ "i" \in ToSet(question)
      /\ "i" \notin ToSet(prompt) => ToSet(question) \ White # {"i"}
=============================================================================

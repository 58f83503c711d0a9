----------------------------- MODULE StreamText -----------------------------
(***************************************************************************)
(* What text a streaming chat client is sent.                              *)
(*                                                                         *)
(* The worker writes a greeting ("LLM:"), the answer, an end marker and    *)
(* its next prompt into its pipe, and the pipe hands them over in chunks   *)
(* of any size.  RKLLMPersistentWorker.generate_stream                     *)
(* (server/runtime/rkllm_worker_backend.py) strips the greeting and holds  *)
(* back so much that no part of an end marker gets out; what it yields     *)
(* goes through _filter_stream_delta (server/api/chat_api.py), which in    *)
(* turn holds back what may be the beginning of a stop sequence.           *)
(*                                                                         *)
(* A text is a sequence of characters over a small alphabet, bytes are     *)
(* already characters, and an answer holds a character that is no white    *)
(* space, no greeting and none of the tokens that _clean_stream_delta and  *)
(* _clean_response remove.                                                 *)
(***************************************************************************)
EXTENDS Naturals, Sequences, FiniteSets, SequencesExt, FiniteSetsExt

CONSTANTS
  Characters,    \* what a text is made of
  White,         \* white space: blanks and line ends
  Space,         \* the blank that _clean_response joins words with
  Greeting,      \* the wrapper's prefix of an answer, "LLM:"
  EndMarkers,    \* end_markers
  Prompt,        \* what the worker writes after an end marker
  Answers,       \* the answers the model may give
  StopLists,     \* the lists of stop sequences a request may carry, as sets
  WholeGreeting  \* TRUE: a read returns the whole greeting or nothing of it

VARIABLES
  content,       \* the answer the model gives
  stops,         \* stop_sequences of the request
  unread,        \* what the worker has yet to hand over
  pending,       \* pending of generate_stream
  prefixDone,    \* prefix_done
  heldStop,      \* pending_stop of _stream_chat_events
  stopped,       \* stream_stopped
  sent,          \* the concatenated deltas the client was sent
  phase          \* "reading", "flushing", "done" or "failed"

vars == <<content, stops, unread, pending, prefixDone, heldStop, stopped, sent,
          phase>>

-----------------------------------------------------------------------------
(* Finding the first of several texts in a text.                            *)

Starts(needles, text) ==
  {i \in 1..Len(text) :
     \E s \in needles : IsPrefix(s, SubSeq(text, i, Len(text)))}

Found(needles, text) == Starts(needles, text) # {}

\* Texts are texts, an end marker or a stop sequence is not empty
\* (_normalize_stop_sequences), and "LLM:" does not begin with white space.
ASSUME TextsAssumption ==
  /\ White \subseteq Characters /\ Space \in White
  /\ Greeting \in Seq(Characters) \ {<<>>} /\ Greeting[1] \notin White
  /\ Prompt \in Seq(Characters)
  /\ Answers \subseteq Seq(Characters)
  /\ \A needles \in {EndMarkers} \cup StopLists :
       IsFiniteSet(needles) /\ needles \subseteq Seq(Characters) \ {<<>>}

\* An answer is what the worker writes before the first end marker, and is not
\* all white space.
ASSUME AnswersAssumption ==
  \A answer \in Answers :
    /\ \E i \in 1..Len(answer) : answer[i] \notin White
    /\ \A marker \in EndMarkers : \A i \in Starts(EndMarkers, answer \o marker \o Prompt) :
         i > Len(answer)

\* A marker may end another one, as "\nYou:" ends "\r\nYou:", and lies nowhere
\* else in it.
ASSUME MarkersAssumption ==
  \A marker \in EndMarkers : ~Found(EndMarkers, SubSeq(marker, 1, Len(marker) - 1))

\* text up to the first of the needles, of which there is one.
Before(needles, text) == SubSeq(text, 1, Min(Starts(needles, text)) - 1)

\* _apply_stop_sequences: a whole text up to its first stop sequence.
ApplyStopSequences(text) == IF Found(stops, text) THEN Before(stops, text) ELSE text

\* " ".join(text.split()), the end of _clean_response: the words of a text, one
\* blank between two of them.
Squeezed(text) ==
  LET solid == {i \in 1..Len(text) : text[i] \notin White}
      left[i \in 1..Len(text)] ==
        IF i \in solid THEN <<text[i]>>
        ELSE IF i - 1 \in solid /\ \E j \in solid : j > i THEN <<Space>> ELSE <<>>
  IN  FlattenSeq(left)

\* What the same request without "stream" is answered with: generate cleans the
\* answer before the stop sequences are looked for.
WholeReply == ApplyStopSequences(Squeezed(content))

-----------------------------------------------------------------------------

\* What the worker may write before its greeting.
Leads == {<<>>} \cup {<<w>> : w \in White}

Init ==
  /\ content \in Answers
  /\ stops \in StopLists
  /\ \E lead \in Leads, marker \in EndMarkers :
       unread = lead \o Greeting \o content \o marker \o Prompt
  /\ pending = <<>>
  /\ prefixDone = FALSE
  /\ heldStop = <<>>
  /\ stopped = FALSE
  /\ sent = <<>>
  /\ phase = "reading"

\* Mutant: one character too few is held back.
HoldBackShort(needles) ==
  LET longest == Max({Len(s) : s \in needles} \cup {1})
  IN  IF longest > 2 THEN longest - 2 ELSE 0

\* The longest text that may be the beginning of one of these, and no more.
HoldBack(needles) == Max({Len(s) : s \in needles} \cup {1}) - 1

\* Mutant: a match is looked for in the new delta alone.
FilterStreamDeltaAlone(delta) ==
  /\ IF Found(stops, delta)
       THEN /\ sent' = sent \o heldStop \o Before(stops, delta)
            /\ heldStop' = <<>>
            /\ stopped' = TRUE
       ELSE LET text == heldStop \o delta
                safe == Max({0, Len(text) - HoldBack(stops)})
            IN  /\ sent' = sent \o SubSeq(text, 1, safe)
                /\ heldStop' = SubSeq(text, safe + 1, Len(text))
                /\ UNCHANGED stopped

\* _filter_stream_delta: up to the first stop sequence in the text held back
\* and the new delta, or else all but what may be the beginning of one.
FilterStreamDelta(delta) ==
  LET text == heldStop \o delta
      safe == Max({0, Len(text) - HoldBack(stops)})
  IN  \/ /\ Found(stops, text)
         /\ sent' = sent \o Before(stops, text)
         /\ heldStop' = <<>>
         /\ stopped' = TRUE
      \/ /\ ~Found(stops, text)
         /\ sent' = sent \o SubSeq(text, 1, safe)
         /\ heldStop' = SubSeq(text, safe + 1, Len(text))
         /\ UNCHANGED stopped

\* _stream_chat_events takes a delta; after a match it reads on and ignores it.
Take(delta) ==
  IF stopped \/ delta = <<>> THEN UNCHANGED <<sent, heldStop, stopped>>
                             ELSE FilterStreamDelta(delta)

\* text.lstrip()
Stripped(text) ==
  LET solid == {i \in 1..Len(text) : text[i] \notin White}
  IN  IF solid = {} THEN <<>> ELSE SubSeq(text, Min(solid), Len(text))

\* _strip_initial_stream_prefix cannot tell yet: it answers "" and FALSE, and
\* the caller keeps that "" as pending, so what has come of the greeting is gone.
MayBeGreeting(text) == IsStrictPrefix(Stripped(text), Greeting)

\* The white space behind the greeting goes too, as far as it has come.
WithoutGreeting(text) ==
  LET answer == Stripped(text)
  IN  IF IsPrefix(Greeting, answer)
        THEN Stripped(SubSeq(answer, Len(Greeting) + 1, Len(answer)))
        ELSE answer

ReadGreeting(arrived) ==
  /\ ~prefixDone
  /\ MayBeGreeting(arrived)
  /\ WholeGreeting => Stripped(arrived) = <<>>
  /\ pending' = <<>>
  /\ UNCHANGED <<prefixDone, heldStop, stopped, sent, phase>>

\* The piece of a chunk that ends the answer, or all but what may be the
\* beginning of an end marker, is cleaned and yielded.
ReadAnswer(arrived) ==
  LET text == IF prefixDone THEN arrived ELSE WithoutGreeting(arrived)
      safe == Max({0, Len(text) - HoldBack(EndMarkers)})
  IN  /\ prefixDone \/ ~MayBeGreeting(arrived)
      /\ prefixDone' = TRUE
      /\ \/ /\ Found(EndMarkers, text)
            /\ Take(Before(EndMarkers, text))
            /\ phase' = "flushing"
            /\ UNCHANGED pending
         \/ /\ ~Found(EndMarkers, text)
            /\ Take(SubSeq(text, 1, safe))
            /\ pending' = SubSeq(text, safe + 1, Len(text))
            /\ UNCHANGED phase

Read ==
  /\ phase = "reading"
  /\ \E n \in 1..Len(unread) :
       /\ unread' = SubSeq(unread, n + 1, Len(unread))
       /\ LET arrived == pending \o SubSeq(unread, 1, n)
          IN  ReadGreeting(arrived) \/ ReadAnswer(arrived)
  /\ UNCHANGED <<content, stops>>

\* Mutant: what the stop filter holds back at the end is forgotten.
FlushNothing ==
  /\ phase = "flushing"
  /\ phase' = "done"
  /\ UNCHANGED <<content, stops, unread, pending, prefixDone, heldStop,
                 stopped, sent>>

\* The stream has ended: what the stop filter still holds back goes out.
Flush ==
  /\ phase = "flushing"
  /\ phase' = "done"
  /\ sent' = IF stopped THEN sent ELSE sent \o heldStop
  /\ UNCHANGED <<content, stops, unread, pending, prefixDone, heldStop, stopped>>

\* The deadline passes or the worker exits: nothing held back goes out.
GiveUp ==
  /\ phase = "reading"
  /\ phase' = "failed"
  /\ UNCHANGED <<content, stops, unread, pending, prefixDone, heldStop,
                 stopped, sent>>

Next == Read \/ Flush \/ GiveUp

Spec == Init /\ [][Next]_vars

-----------------------------------------------------------------------------

\* What the answer may be to the client: without some white space it begins with.
Told == {SubSeq(content, d + 1, Len(content)) :
           d \in {n \in 0..Len(content) : \A i \in 1..n : content[i] \in White}}

\* However the pipe cuts what the worker writes, the client is sent the answer
\* from its beginning on: nothing of the greeting or of an end marker, nothing
\* twice, nothing left out but white space the answer begins with
\* (generate_stream's two hold-backs).
SentIsOfTheAnswer == \E told \in Told : IsPrefix(sent, told)

\* No client is ever sent a stop sequence it asked for, not even cut over
\* several deltas (_filter_stream_delta keeps back all that may begin one).
NoStopTextSent == ~Found(stops, sent)

\* A stop sequence lies inside another one, past its first character.
Nested ==
  \E s, t \in stops :
     \E i \in 2..Len(t) - 1 : IsPrefix(s, SubSeq(t, i, Len(t) - 1))

\* A stream that ends well has sent the answer up to its first stop sequence,
\* unless one stop sequence lies inside another: then it may have sent more,
\* never less (_filter_stream_delta, and the flush of what it held back).
StreamEndsAtStop ==
  phase = "done" =>
    \E told \in Told :
      /\ IsPrefix(ApplyStopSequences(told), sent)
      /\ ~Nested => sent = ApplyStopSequences(told)

\* Such a stream has also sent the words that the same request without "stream"
\* is answered with, though white space between them may differ, if no stop
\* sequence holds any: _clean_response, before which a stream looks for stop
\* sequences and after which generate's caller does, changes nothing else.  (One
\* that holds a line end, as the example in docs/phase9_openai_compat.md:247
\* does, cuts the stream and is not found in the words of the whole reply.)
StreamAgreesWithWhole ==
  (phase = "done" /\ \A s \in stops : \A i \in 1..Len(s) : s[i] \notin White) =>
    /\ IsPrefix(Squeezed(WholeReply), Squeezed(sent))
    /\ ~Nested => Squeezed(sent) = Squeezed(WholeReply)

=============================================================================

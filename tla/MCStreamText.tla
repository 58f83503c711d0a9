---------------------------- MODULE MCStreamText ----------------------------
(* Answers of up to four characters, one of which also begins an end marker,  *)
(* and of up to four with white space; one end marker ends another.           *)
EXTENDS StreamText

MCCharacters == {" ", "L", "M", ":", "<", "|", ">", "r", "n", "Y", "a", "b"}
MCGreeting == <<"L", "L", "M", ":">>
MCEndMarkers == {<<"<", "|", ">">>, <<"r", "n", "Y">>, <<"n", "Y">>}
MCPrompt == <<"n", "Y">>
MCWhite == {" ", "r", "n"}
Worded == {s \in SeqOf({"a", "b", " ", "n"}, 4) : \E i \in 1..Len(s) : s[i] \in {"a", "b"}}
MCAnswers == {s \in SeqOf({"a", "b", "<"}, 4) : s # <<>>} \cup Worded
FewAnswers == {<<"a", "b">>}

\* No stop sequence, short ones, one with a repeated beginning, overlapping
\* ones, one that lies inside another, and one that begins with a line end.
MCStopLists ==
  {{}, {<<"b">>}, {<<"a", "a", "b">>}, {<<"a", "b">>, <<"b", "a">>},
   {<<"<", "b">>, <<"a">>}, {<<"a">>, <<"b", "a", "b">>}, {<<"n", "a">>}}
NoStops == {{}}
=============================================================================

--------------------------- MODULE MCRKLLMWorker ---------------------------
(* Two calls that wait for their answers and one stream. *)
EXTENDS RKLLMWorker

CONSTANTS g1, g2, s1

Three == {g1, g2, s1}

KindOf == [c \in Calls |-> IF c \in {g1, g2} THEN "generate" ELSE "stream"]
AllButSlowPrompt == FaultKinds \ {"slow_prompt"}
=============================================================================

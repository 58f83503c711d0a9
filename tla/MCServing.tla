------------------------------ MODULE MCServing ------------------------------
(* TLC instances of the serving process: small mixes of requests. *)
EXTENDS Serving, TLC
CONSTANTS c1, s1, v1, v2, m1

\* Every kind of request, and two requests in each queue.
AllKinds ==
  c1 :> "chat" @@ s1 :> "stream" @@ v1 :> "vision" @@ v2 :> "vision" @@ m1 :> "vlm"
AllKindsRequests == DOMAIN AllKinds

\* Both kinds of chat, and a request of another task.
ChatAndVision == c1 :> "chat" @@ s1 :> "stream" @@ v1 :> "vision"
ChatAndVisionRequests == DOMAIN ChatAndVision
=============================================================================

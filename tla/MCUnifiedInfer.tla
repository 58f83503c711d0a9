---------------------------- MODULE MCUnifiedInfer ----------------------------
(* Two requests in every mixture of four kinds, and every fault.          *)
EXTENDS UnifiedInfer

CONSTANTS r1, r2

Both == {r1, r2}

Plain(task) ==
  [task |-> task, stream |-> FALSE, numbers |-> "good", imagePath |-> "given",
   image |-> "absent", messages |-> "absent", text |-> "given", prompt |-> "absent",
   question |-> "absent"]

SomeAsks == {Plain("image-captioning"), Plain("text-generation"), Plain("object-detection"),
             [Plain("vision-language") EXCEPT !.numbers = "bad"]}
AllBackends == {"worker", "oneshot"}
AllFaults == FaultKinds
=============================================================================

---------------------------- MODULE ExclusiveSlot ----------------------------
(***************************************************************************)
(* What the NPU guard and both request queues promise their callers: one   *)
(* exclusive slot under the reject_when_busy policy.  A request enters     *)
(* only an empty slot, is turned away only while somebody else is in it,   *)
(* and leaves it exactly once.                                             *)
(***************************************************************************)
CONSTANT Requests   \* the requests, each of which asks for the slot at most once

VARIABLES
  inside,           \* the requests that hold the slot
  turnedAway,       \* the requests that were told to retry later
  gone              \* the requests that held the slot and left it

vars == <<inside, turnedAway, gone>>

New(r) == r \notin inside \cup turnedAway \cup gone

Init ==
  /\ inside = {}
  /\ turnedAway = {}
  /\ gone = {}

Enter(r) ==
  /\ New(r)
  /\ inside = {}
  /\ inside' = {r}
  /\ UNCHANGED <<turnedAway, gone>>

TurnAway(r) ==
  /\ New(r)
  /\ inside # {}
  /\ turnedAway' = turnedAway \cup {r}
  /\ UNCHANGED <<inside, gone>>

Leave(r) ==
  /\ r \in inside
  /\ inside' = inside \ {r}
  /\ gone' = gone \cup {r}
  /\ UNCHANGED turnedAway

Next == \E r \in Requests : Enter(r) \/ TurnAway(r) \/ Leave(r)

Spec == Init /\ [][Next]_vars
=============================================================================

------------------------------- MODULE EventLog -------------------------------
(***************************************************************************)
(* What the event monitor promises, whatever its handlers do: an event is  *)
(* received by a process that is up, or missed; it is complete only when   *)
(* it is in the log; nothing leaves the log; and a process that ends takes *)
(* all it was handling with it, at once, of which some may still be        *)
(* logged. A lost event is never taken up again.                           *)
(***************************************************************************)
EXTENDS Naturals

CONSTANT Events

VARIABLES
  up,     \* is there a process that receives events?
  stage,  \* of each event
  log     \* the events in MongoDB

vars == <<up, stage, log>>

Stages == {"none", "missed", "open", "complete", "lost"}
Open   == {e \in Events : stage[e] = "open"}

Init ==
  /\ up = TRUE
  /\ stage = [e \in Events |-> "none"]
  /\ log = {}

Arrive(e) ==
  /\ stage[e] = "none"
  /\ stage' = [stage EXCEPT ![e] = IF up THEN "open" ELSE "missed"]
  /\ UNCHANGED <<up, log>>

Log(e) ==
  /\ stage[e] = "open"
  /\ log' = log \cup {e}
  /\ UNCHANGED <<up, stage>>

Complete(e) ==
  /\ stage[e] = "open"
  /\ stage' = [stage EXCEPT ![e] = "complete"]
  /\ log' = log \cup {e}
  /\ UNCHANGED up

Crash ==
  /\ up /\ up' = FALSE
  /\ stage' = [e \in Events |-> IF e \in Open THEN "lost" ELSE stage[e]]
  /\ \E late \in SUBSET Open : log' = log \cup late

Restart ==
  /\ ~up /\ up' = TRUE
  /\ UNCHANGED <<stage, log>>

Next ==
  \/ \E e \in Events : Arrive(e) \/ Log(e) \/ Complete(e)
  \/ Crash
  \/ Restart

Spec == Init /\ [][Next]_vars
===============================================================================

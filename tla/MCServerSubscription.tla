------------------------ MODULE MCServerSubscription ------------------------
(* Instances of ServerSubscription for TLC: one attribute changes twice, so   *)
(* that a failed report is overtaken by a newer value, the other one once.   *)
EXTENDS ServerSubscription

Changes == [a \in {"first", "second"} |-> IF a = "first" THEN 3 ELSE 2]
OneChange == [a \in {"first"} |-> 2]
=============================================================================

------------------------- MODULE MCMessageExchange -------------------------
(* Conversations for TLC.  RequestResponse is a read or an invoke,           *)
(* StatusAfterReport a report that the initiator confirms.                   *)
EXTENDS MessageExchange

RequestResponse == <<"initiator", "responder">>
StatusAfterReport == <<"initiator", "responder", "initiator">>
Nobody == {}
Initiator == {"initiator"}
=============================================================================

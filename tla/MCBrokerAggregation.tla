------------------------- MODULE MCBrokerAggregation -------------------------
(* Instances of BrokerAggregation for TLC. *)
EXTENDS BrokerAggregation

TwoEndpoints == {[node |-> 1, endpoint |-> 1], [node |-> 1, endpoint |-> 2]}
AboveAndBelowZero == {-1, 2}
=============================================================================

-------------------------- MODULE MCEventForwarder --------------------------
(* Two endpoints, one that retries and one that does not. *)
EXTENDS EventForwarder

CONSTANTS plain, retrying

TwoEndpoints == {plain, retrying}
Attempts == [ep \in TwoEndpoints |-> IF ep = retrying THEN 2 ELSE 1]
=============================================================================

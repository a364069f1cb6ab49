---------------------------- MODULE MCEventHub ----------------------------
(* Instances of EventHub for TLC. *)
EXTENDS EventHub, TLC

Requests == Permutations(Clients)
=============================================================================

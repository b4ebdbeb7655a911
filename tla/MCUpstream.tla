----------------------------- MODULE MCUpstream -----------------------------
(* Two requests, with one hash key, on a pool of two endpoints and one that is *)
(* configured as inactive.                                                     *)
EXTENDS Upstream

CONSTANTS q1, q2

MCConfigured == <<[weight |-> 1, active |-> TRUE], [weight |-> 5, active |-> FALSE],
                  [weight |-> 3, active |-> TRUE]>>
MCHash == [q \in {q1, q2} |-> 4]
=============================================================================

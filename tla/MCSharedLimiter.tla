--------------------------- MODULE MCSharedLimiter ---------------------------
(* Requests at two gateways whose clocks are a tick apart, under each          *)
(* algorithm; the validation accepts a refill rate and a limit of 0, too.      *)
EXTENDS SharedLimiter

CONSTANTS g1, g2, r1, r2

MCAt == [r \in {r1, r2} |-> IF r = r1 THEN g1 ELSE g2]
MCSkew == [g \in {g1, g2} |-> IF g = g1 THEN 0 ELSE 1]
MCPolicies ==
  {[algorithm |-> "token_bucket", capacity |-> 4, rate |-> 2],
   [algorithm |-> "token_bucket", capacity |-> 4, rate |-> 0],
   [algorithm |-> "sliding_window", max_requests |-> 2, window |-> 4],
   [algorithm |-> "sliding_window", max_requests |-> 0, window |-> 4]}
=============================================================================

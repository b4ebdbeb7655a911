------------------------------ MODULE MCCache ------------------------------
(* Requests at two gateways whose clocks are a tick apart; an upstream that   *)
(* sends public, private, varying and short-lived responses.                  *)
EXTENDS Cache, TLC

CONSTANTS g1, g2, r1, r2

MCSymmetry == Permutations({r1, r2})

MCSkew == [g \in {g1, g2} |-> IF g = g1 THEN 0 ELSE 1]
Public == [success |-> TRUE, no_store |-> FALSE, private |-> FALSE, s_maxage |-> None,
           max_age |-> None, vary |-> "nothing", echo |-> "a"]
MCResponses ==
  {Public,
   [Public EXCEPT !.private = TRUE],
   [Public EXCEPT !.vary = "header", !.s_maxage = 9],
   [Public EXCEPT !.max_age = 9, !.s_maxage = 0],
   [Public EXCEPT !.vary = "absent"]}
=============================================================================

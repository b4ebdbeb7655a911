---------------------------- MODULE MCConcurrency ----------------------------
(* Two routes share three global permits: "pay" is capped at one request in   *)
(* flight, "web" is not capped.                                             *)
EXTENDS Concurrency

CONSTANTS a1, a2, a3, b1, b2

MCRequests == {a1, a2, a3, b1, b2}
MCRoutes == {"pay", "web"}
MCCapped == {"pay"}
MCRouteOf == [r \in MCRequests |-> IF r \in {a1, a2, a3} THEN "pay" ELSE "web"]
MCLimit == [s \in {"pay", "global"} |-> IF s = "global" THEN 3 ELSE 1]
=============================================================================

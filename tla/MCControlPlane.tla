---------------------------- MODULE MCControlPlane ----------------------------
EXTENDS ControlPlane

CONSTANTS k1, a1, r1, s1, s2

\* Two data planes, and one data plane that connects twice.
TwoPlanes == [s \in {s1, s2} |-> IF s = s1 THEN "one" ELSE "two"]
OnePlane == [s \in {s1, s2} |-> "one"]

Pods(addresses) == <<[addresses |-> addresses, ports |-> {80}]>>
Update(old, new) == [kind |-> "update", match |-> TRUE, old |-> old, new |-> new]

\* A scaled deployment and a deletion that was only inferred.
MCScale == {Update(Pods({1}), Pods({1, 2}))}
MCEvents == MCScale \cup {[kind |-> "tombstone", match |-> TRUE, old |-> Pods({1}), new |-> <<>>]}
=============================================================================

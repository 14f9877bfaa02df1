------------------------------ MODULE MCApiKeys ------------------------------
(* ApiKeys for TLC: a key that expires and one that may only read.            *)
EXTENDS ApiKeys, TLC

CONSTANTS k1, k2, a1

MCOwner == [k \in Key |-> a1]
MCGranted == [k \in Key |-> IF k = k1 THEN Scope ELSE {"clients:read"}]
MCLifetime == [k \in Key |-> IF k = k1 THEN 2 ELSE None]

\* The threads of the service are interchangeable.
Threads == Permutations(Request)

=============================================================================

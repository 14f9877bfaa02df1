--------------------------- MODULE MCScanRequests ----------------------------
(* ScanRequests for TLC: one client per agency; threads and hosts are       *)
(* interchangeable, and so are the agencies together with their clients.    *)
EXTENDS ScanRequests, TLC

CONSTANTS a1, a2, c1, c2

OneClientEach == (c1 :> a1) @@ (c2 :> a2)
SwapAgencies == (a1 :> a2) @@ (a2 :> a1) @@ (c1 :> c2) @@ (c2 :> c1)
Interchangeable ==
  Permutations(Request) \cup Permutations(Host) \cup {SwapAgencies}

=============================================================================

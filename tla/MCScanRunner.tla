---------------------------- MODULE MCScanRunner -----------------------------
(* ScanRunner for TLC: agencies and hosts are interchangeable, scan ids are *)
(* ordered and so are not.                                                  *)
EXTENDS ScanRunner, TLC

Interchangeable == Permutations(Agency) \cup Permutations(Host)

=============================================================================

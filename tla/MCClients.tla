------------------------------ MODULE MCClients ------------------------------
(* Clients for TLC.                                                           *)
EXTENDS Clients, TLC

\* Threads, and agencies, are interchangeable.
Threads == Permutations(Request) \cup Permutations(Agency)

=============================================================================

---------------------------- MODULE MCScanTraffic ----------------------------
(* ScanTraffic for TLC: all constants are given by the configurations.      *)
EXTENDS ScanTraffic

=============================================================================

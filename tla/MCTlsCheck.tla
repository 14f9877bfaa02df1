----------------------------- MODULE MCTlsCheck ------------------------------
(* TlsCheck for TLC: two weak versions, probed with different suites, and    *)
(* one that is not weak; an export suite that is marked as RC4 too, and a    *)
(* group that is recognised but not probed.                                  *)
EXTENDS TlsCheck

CONSTANTS rc4, export, anon, aes

MCOffered ==
  [p \in {"SSLv3", "TLSv1", "TLSv1.3", "ANON", "EXPORT", "RC4"} |->
     CASE p = "SSLv3" -> {rc4, aes}
       [] p \in {"TLSv1", "TLSv1.3"} -> {aes}
       [] p = "EXPORT" -> {export}
       [] p = "RC4" -> {rc4}
       [] OTHER -> {}]
MCProtocols == <<"SSLv3", "TLSv1", "TLSv1.3">>
MCGroups == <<"ANON", "EXPORT", "RC4">>
MCProbedGroups == <<"EXPORT", "RC4">>
MCMarkers ==
  [s \in Suite |-> IF s = rc4 THEN {"RC4"}
                  ELSE IF s = export THEN {"EXPORT", "RC4"}
                  ELSE IF s = anon THEN {"ANON"} ELSE {}]

=============================================================================

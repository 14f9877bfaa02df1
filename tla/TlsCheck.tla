------------------------------ MODULE TlsCheck -------------------------------
(***************************************************************************)
(* The TLS check of one scan (checks/tls_check.py, checks/tls_probe.py):   *)
(* one connection that verifies nothing and reads the certificate, one     *)
(* connection per probe that offers a single protocol version or a single  *)
(* group of weak suites, and one that verifies the certificate.            *)
(*                                                                         *)
(* Nothing is assumed of the server but that a ServerHello it sends is for *)
(* a version it speaks and a suite it has.  Any probe, also one it could   *)
(* have agreed to, may end in an alert, a hang-up, a reset, an answer for  *)
(* something else, one that is late, cut short, split over several records *)
(* or no TLS at all, and any connection may fail.  `server' is what no     *)
(* test knows, the truth the findings are compared with; `refused' is what *)
(* the server itself has said, the only ground for calling a probe off.    *)
(***************************************************************************)
EXTENDS Naturals, Sequences, FiniteSets

CONSTANTS
  Protocols,       \* the versions probed, in rule order
  Weak,            \* those of them that are weak
  TLS13,           \* the version a group probe does not offer
  Groups,          \* the weak cipher groups, most serious first
  Suite,           \* cipher suites
  Markers,         \* for each suite, the groups whose markers its name has
  Offered,         \* the suites each probe offers: probe_suites, or the group's
  ProbedGroups,    \* the groups that are probed, in rule order
  MaxConnections,  \* rules.max_connections
  Negotiable,      \* the versions this machine's OpenSSL can negotiate at all
  Strict,          \* those its defaults, which verify certificates, still allow
  None

SetOf(s) == {s[i] : i \in DOMAIN s}
Protocol == SetOf(Protocols)
Group == SetOf(Groups)
Probed == SetOf(ProbedGroups)

\* The first group, in order of severity, with a marker in the suite's name.
GroupOf(suite) ==
  IF Markers[suite] = {} THEN None
  ELSE Groups[CHOOSE i \in DOMAIN Groups :
                /\ Groups[i] \in Markers[suite]
                /\ \A j \in 1 .. i - 1 : Groups[j] \notin Markers[suite]]

\* The probes in order: every version, then every group with suites.
Plan == Protocols \o ProbedGroups
ProbeCount == Len(Plan)
CertificateConnections == 2
Budget == MaxConnections - CertificateConnections
MaxReplyRecords == 3

\* What rule_loader refuses to load anything else than.
RulesValid ==
  /\ Protocols # <<>> /\ Groups # <<>>
  /\ \A i, j \in DOMAIN Protocols : Protocols[i] = Protocols[j] => i = j
  /\ \A i, j \in DOMAIN Groups : Groups[i] = Groups[j] => i = j
  /\ \A i, j \in DOMAIN ProbedGroups : ProbedGroups[i] = ProbedGroups[j] => i = j
  /\ \A g, h \in Group : g # h => Offered[g] \cap Offered[h] = {}
  /\ MaxConnections \in Nat
  /\ MaxConnections >= ProbeCount + CertificateConnections

ASSUME TlsAssumption ==
  /\ Protocols \in Seq(STRING) /\ Groups \in Seq(STRING)
  /\ Offered \in [Protocol \cup Group -> SUBSET Suite]
  /\ ProbedGroups \in Seq(Group) /\ Probed = {g \in Group : Offered[g] # {}}
  /\ RulesValid
  /\ Protocol \cap Group = {}
  /\ Weak \subseteq Protocol /\ TLS13 \in Protocol
  /\ Negotiable \subseteq Protocol /\ Strict \subseteq Negotiable
  /\ Markers \in [Suite -> SUBSET Group]
  /\ None \notin Protocol \cup Group

VARIABLES
  server,       \* what the server accepts
  probeOn,      \* FALSE: --no-tls-probe
  phase,        \* where check_tls is
  at,           \* the probe of Plan it is at
  records,      \* records read of the reply to this probe
  report,       \* report.protocols and report.groups: the outcome per probe
  refused,      \* history: the probes the server itself has declined
  stopped,      \* run_probes: a connection could not be opened
  opened,       \* connections opened so far, announced to the limiter
  negotiated,   \* version and suite of the certificate connection
  trust,        \* how the verifying connection ended
  findings,     \* <<id, what it is about>>
  certificate,  \* what the certificate is found to be, once looked at
  notes,        \* what `warnings' says could not be tested
  lowConfidence

vars == <<server, probeOn, phase, at, records, report, refused, stopped, opened,
          negotiated, certificate, trust, findings, notes, lowConfidence>>

Outcome == {"accepted", "rejected", "error"}
Certificate == {"valid", "expiring", "expired", "early", "unreadable", "absent"}

Server ==
  [versions : SUBSET Protocol \ {{}}, suites : SUBSET Suite \ {{}}]

\* A group probe offers TLS 1.2 and what it allows below.
Speaks(probe) ==
  IF probe \in Protocol THEN probe \in server.versions ELSE server.versions # {TLS13}

\* The server can agree to the probe.  It cannot when it speaks the version but
\* has none of the suites that are offered with it.
Accepts(probe) == Speaks(probe) /\ server.suites \cap Offered[probe] # {}

-----------------------------------------------------------------------------
(* The ends of check_tls.                                                  *)

InBudgetCountingAll == opened < Budget
\* The certificate connection is not among those run_probes counts.
InBudget == opened - 1 < Budget
Probing == phase = "probe" /\ at \in DOMAIN Plan

Fixed ==
  UNCHANGED <<server, probeOn, at, records, report, refused, stopped, lowConfidence>>

Start ==
  /\ phase = "certificate" /\ at = 1 /\ records = 0
  /\ report = [p \in SetOf(Plan) |-> "none"]
  /\ refused = {} /\ stopped = FALSE /\ opened = 0
  /\ negotiated = [version |-> None, group |-> None]
  /\ certificate = "none" /\ trust = "none" /\ findings = {} /\ notes = {} /\ lowConfidence = FALSE

Init == server \in Server /\ probeOn \in BOOLEAN /\ Start

\* limiter.acquire raises: the scan stops and the check's findings are lost.
LimitReached ==
  /\ \/ phase \in {"certificate", "trust"}
     \/ Probing /\ ~stopped /\ InBudget
  /\ phase' = "limit" /\ findings' = {}
  /\ UNCHANGED <<opened, negotiated, certificate, trust, notes>> /\ Fixed

\* A TCP connection, direct or through the proxy's CONNECT tunnel, that may
\* fail at any point of it, or be refused by the guard.
Open == opened' = opened + 1

-----------------------------------------------------------------------------
(* The connection that reads the certificate.                              *)

CertificateConnection ==
  /\ phase = "certificate"
  /\ Open
  /\ \E v \in server.versions \cap Negotiable :
       \E g \in IF v = TLS13 THEN {None} ELSE {GroupOf(s) : s \in server.suites} :
         negotiated' = [version |-> v, group |-> g]
  /\ phase' = IF probeOn THEN "probe" ELSE "conclude"
  /\ UNCHANGED <<certificate, trust, findings, notes>> /\ Fixed

CertificateConnectionFails ==
  /\ phase = "certificate"
  /\ Open
  /\ findings' = {<<"TLS-CONN-FAILED", None>>}
  /\ phase' = "done"
  /\ UNCHANGED <<negotiated, certificate, trust, notes>> /\ Fixed

-----------------------------------------------------------------------------
(* run_probes.                                                             *)

Record(outcome) ==
  report' = [report EXCEPT ![Plan[at]] = outcome] /\ at' = at + 1
Elsewhere ==
  UNCHANGED <<server, probeOn, negotiated, certificate, trust, findings, notes,
              lowConfidence>>

\* After a failed connection, or past the budget, the rest is not tried.
SkipProbe ==
  /\ Probing /\ (stopped \/ ~InBudget)
  /\ Record("error")
  /\ UNCHANGED <<phase, records, refused, stopped, opened>> /\ Elsewhere

Connect ==
  /\ Probing /\ ~stopped /\ InBudget
  /\ Open
  /\ phase' = "reply" /\ records' = 0
  /\ UNCHANGED <<at, report, refused, stopped>> /\ Elsewhere

\* Connecting fails: refused, timed out, the proxy says no, or the guard.
ConnectFails ==
  /\ Probing /\ ~stopped /\ InBudget
  /\ Open /\ stopped' = TRUE
  /\ Record("error")
  /\ UNCHANGED <<phase, records, refused>> /\ Elsewhere

ProtocolVerdictAsAnswered(same) == "accepted"
\* A ServerHello for another version: the probed one is off.
ProtocolVerdict(same) == IF same THEN "accepted" ELSE "rejected"
\* A suite that was not offered: the server is broken, nothing is known.
GroupVerdict(same) == IF same THEN "accepted" ELSE "error"
Verdict(same) ==
  IF Plan[at] \in Protocol THEN ProtocolVerdict(same) ELSE GroupVerdict(same)

\* `declined': the server itself has said no to this probe.
Answered(outcome, declined) ==
  /\ Record(outcome)
  /\ refused' = IF declined THEN refused \cup {Plan[at]} ELSE refused
  /\ phase' = "probe" /\ records' = 0
  /\ UNCHANGED <<stopped, opened>> /\ Elsewhere

ReplyOutcomeSilence(end) ==
  IF end \in {"alert", "hang-up", "reset", "timeout"} THEN "rejected" ELSE "error"
\* What the end of a reply says, when it is not a whole ServerHello.
ReplyOutcome(end) ==
  IF end \in {"alert", "hang-up", "reset"} THEN "rejected" ELSE "error"

\* The ServerHello is complete: for what was offered, or for something else,
\* which for a version means that it is not that one.
ReadHello ==
  /\ phase = "reply"
  /\ \/ Accepts(Plan[at]) /\ Answered(Verdict(TRUE), FALSE)
     \/ Answered(Verdict(FALSE), Plan[at] \in Protocol)

\* A record that leaves the ServerHello incomplete; there are at most three.
ReadPart ==
  /\ phase = "reply"
  /\ IF records + 1 = MaxReplyRecords THEN Answered("error", FALSE)
     ELSE /\ records' = records + 1
          /\ UNCHANGED <<phase, at, report, refused, stopped, opened>> /\ Elsewhere

\* A reset counts from the moment the hello is sent, and after any part of the
\* answer; a hang-up only before the first byte of it, or it cuts it short.
ReadRefusal ==
  /\ phase = "reply"
  /\ \E end \in {"alert", "reset"} \cup (IF records = 0 THEN {"hang-up"} ELSE {}) :
       Answered(ReplyOutcome(end), TRUE)

ReadFails ==
  /\ phase = "reply"
  /\ \E end \in {"timeout", "cut-short", "not-tls", "os-error"} :
       Answered(ReplyOutcome(end), FALSE)

-----------------------------------------------------------------------------
(* The conclusions.                                                        *)

AcceptedBy(probe) == probe \in DOMAIN report /\ report[probe] = "accepted"

WeakProtocolFindings ==
  {<<"TLS-WEAK-PROTOCOL", v>> :
     v \in {w \in Weak : negotiated.version = w \/ AcceptedBy(w)}}

WeakCipherFindings ==
  {<<"TLS-WEAK-CIPHER", g>> :
     g \in {h \in Group : negotiated.group = h \/ AcceptedBy(h)}}

UntestedNotes == {p \in DOMAIN report : report[p] = "error"}

CertificateFindings(c) ==
  CASE c = "early" -> {<<"TLS-CERT-NOT-YET-VALID", None>>}
    [] c = "expired" -> {<<"TLS-CERT-EXPIRED", None>>}
    [] c = "expiring" -> {<<"TLS-CERT-EXPIRING-SOON", None>>}
    [] c = "unreadable" -> {<<"TLS-CERT-PARSE-FAILED", None>>}
    [] OTHER -> {}

CertTimeProblem(c) == c \in {"early", "expired"}

\* An expired certificate would fail the verification too: it is left out.
Conclude ==
  /\ \/ phase = "conclude"
     \/ phase = "probe" /\ at \notin DOMAIN Plan
  /\ notes' = notes \cup IF probeOn THEN UntestedNotes ELSE {}
  /\ \E c \in Certificate :
       /\ certificate' = c
       /\ findings' = WeakProtocolFindings \cup WeakCipherFindings
                        \cup CertificateFindings(c)
       /\ phase' = IF CertTimeProblem(c) THEN "issuer" ELSE "trust"
  /\ UNCHANGED <<opened, negotiated, trust>> /\ Fixed

VerifyTrust ==
  /\ phase = "trust"
  /\ Open
  /\ server.versions \cap Strict # {}
  /\ \/ trust' = "verified" /\ UNCHANGED findings
     \/ /\ trust' = "refused"
        /\ findings' = findings \cup {<<"TLS-CERT-NOT-TRUSTED", None>>}
  /\ phase' = "issuer"
  /\ UNCHANGED <<negotiated, certificate, notes>> /\ Fixed

\* No connection, or no version in common: not a trust finding.
VerifyTrustFails ==
  /\ phase = "trust"
  /\ Open
  /\ trust' = "failed"
  /\ phase' = "issuer"
  /\ UNCHANGED <<negotiated, certificate, findings, notes>> /\ Fixed

\* The issuer is known interception software: all of it is about that.
Finish ==
  /\ phase = "issuer"
  /\ \E intercepted \in IF certificate = "absent" THEN {FALSE} ELSE BOOLEAN :
       /\ lowConfidence' = intercepted
       /\ notes' = notes \cup IF intercepted THEN {"interceptor"} ELSE {}
  /\ phase' = "done"
  /\ UNCHANGED <<server, probeOn, at, records, report, refused, stopped, opened,
                 negotiated, certificate, trust, findings>>

Next ==
  \/ LimitReached
  \/ CertificateConnection \/ CertificateConnectionFails
  \/ SkipProbe \/ Connect \/ ConnectFails
  \/ ReadHello \/ ReadPart \/ ReadRefusal \/ ReadFails
  \/ Conclude \/ VerifyTrust \/ VerifyTrustFails \/ Finish

Spec == Init /\ [][Next]_vars

-----------------------------------------------------------------------------
(* Properties.                                                             *)

TypeOK ==
  /\ server \in Server /\ probeOn \in BOOLEAN
  /\ phase \in {"certificate", "probe", "reply", "conclude", "trust", "issuer",
                "done", "limit"}
  /\ at \in 1 .. ProbeCount + 1 /\ records \in 0 .. MaxReplyRecords
  /\ report \in [SetOf(Plan) -> Outcome \cup {"none"}]
  /\ refused \subseteq SetOf(Plan) /\ stopped \in BOOLEAN /\ opened \in Nat
  /\ negotiated \in [version : Protocol \cup {None}, group : Group \cup {None}]
  /\ certificate \in Certificate \cup {"none"}
  /\ trust \in {"none", "verified", "refused", "failed"}

Connected == negotiated.version # None

\* "Not enabled" is only ever concluded from the server's own answer to that very
\* probe: a weak version that the server speaks, or a weak group it would agree
\* to, is a finding, or among the things the report says it could not test, or
\* the server declined that probe.  Silence, an answer cut short or that is no
\* TLS, a connection that fails and a budget that runs out never hide one.  (A
\* server that declines what it would accept, by a reset or for want of a suite
\* among those offered, is believed.)
NothingPassedOver ==
  phase = "done" /\ Connected /\ probeOn =>
    /\ \A v \in Weak \cap server.versions :
         <<"TLS-WEAK-PROTOCOL", v>> \in findings \/ v \in notes \/ v \in refused
    /\ \A g \in Probed :
         Accepts(g) => \/ <<"TLS-WEAK-CIPHER", g>> \in findings
                       \/ g \in notes \/ g \in refused

\* The server can agree to the group's probe, or has a suite whose name has one
\* of the group's markers.
Uses(g) == Accepts(g) \/ \E s \in server.suites : GroupOf(s) = g

\* A weak version or group is only reported when the server accepts it, not
\* because it answered a probe with something else; and a certificate is only
\* called untrusted when its verification was refused, not when the connection
\* failed, and never when its dates alone explain the refusal.
FindingsTrue ==
  \A f \in findings :
    /\ f[1] = "TLS-WEAK-PROTOCOL" => f[2] \in server.versions
    /\ f[1] = "TLS-WEAK-CIPHER" => Uses(f[2])
    /\ f[1] = "TLS-CERT-NOT-TRUSTED" => trust = "refused" /\ ~CertTimeProblem(certificate)

\* The check opens no more connections than the rules allow, and the rules
\* leave room for every probe: one that was not made had its reason in a
\* connection that failed before it.
BudgetSuffices ==
  /\ opened <= MaxConnections
  /\ phase = "done" /\ Connected /\ probeOn /\ ~stopped => opened > ProbeCount

=============================================================================

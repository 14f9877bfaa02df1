----------------------------- MODULE ScanReport ------------------------------
(***************************************************************************)
(* From the result of a scan to its report and its exit code (output.py,   *)
(* baseline.py, suppressions.py, exports.py, sarif.py, the group table of  *)
(* catalog.py): which findings are suppressed, which are new since the     *)
(* baseline, which count, and what the gate and each report format say.    *)
(*                                                                         *)
(* A result is a record of its findings (a sequence of records with id,    *)
(* key, severity and check), the groups selected, the checks run, whether  *)
(* the home page was fetched and the limit that stopped it, or NoLimit.    *)
(* A baseline is a set of such findings, or NoBaseline; suppressions are a *)
(* set of entries.  The fingerprint of a finding is its id and key: the    *)
(* target is the same.                                                     *)
(***************************************************************************)
EXTENDS Naturals, Sequences, FiniteSets

CONSTANTS NoBaseline, NoLimit, Unset

Severities == <<"CRITICAL", "HIGH", "MEDIUM", "LOW", "INFO">>

Fp(f) == <<f.id, f.key>>
FindingsOf(result) == {result.findings[i] : i \in DOMAIN result.findings}

-----------------------------------------------------------------------------
(* catalog.py: the groups of checks, and choosing some of them.             *)

ChecksOf ==
  [headers |-> {"security-headers", "hsts-start-host"}, cookies |-> {"cookies"},
   tls |-> {"tls"}, https_redirect |-> {"http-to-https-redirect"},
   cors |-> {"cors"}, exposed_files |-> {"sensitive-paths"},
   directory_listing |-> {"directory-listing"},
   robots_sitemap |-> {"robots-sitemap"}]

GroupIds == DOMAIN ChecksOf
GroupOfCheck(check) == CHOOSE g \in GroupIds : check \in ChecksOf[g]

\* A selection is refused when it is empty or names something else.
GroupsAccepted(wanted) == wanted # {} /\ wanted \subseteq GroupIds

-----------------------------------------------------------------------------
(* suppressions.py.                                                         *)

\* What the loader insists on: something to match, a reason and a date.
EntryValid(e) ==
  /\ \E key \in {"id", "fingerprint", "path"} : e[key] # Unset
  /\ e.reason # Unset
  /\ e.expires \in Nat

EntryMatches(e, f) ==
  /\ e.id # Unset => f.id = e.id
  /\ e.fingerprint # Unset => Fp(f) = e.fingerprint
  /\ e.path # Unset => f.path \in e.path

\* An entry still holds on its last day.
ActiveEntries(entries, today) == {e \in entries : e.expires >= today}
ExpiredEntries(entries, today) == entries \ ActiveEntries(entries, today)

Suppressed(f, entries, today) ==
  \E e \in ActiveEntries(entries, today) : EntryMatches(e, f)

-----------------------------------------------------------------------------
(* Why the findings may not be all there is.                                *)

IncompleteReason(result) ==
  IF ~result.fetched THEN "home-page" ELSE result.stoppedBy
Incomplete(result) == IncompleteReason(result) # NoLimit

-----------------------------------------------------------------------------
(* baseline.py.                                                             *)

\* A baseline is refused when one of its findings has no fingerprint.
BaselineValid(old) == \A b \in old : b.id # Unset /\ b.key # Unset

Known(baseline) == {Fp(b) : b \in baseline}

BaselineState(f, baseline) ==
  IF baseline = NoBaseline THEN "none"
  ELSE IF Fp(f) \in Known(baseline) THEN "unchanged" ELSE "new"

Gone(result, baseline) ==
  {b \in baseline : Fp(b) \notin {Fp(f) : f \in FindingsOf(result)}}

FixedInUnfinished(result, baseline) ==
  {b \in Gone(result, baseline) : b.check \in result.ran}
FixedIn(result, baseline) ==
  {b \in Gone(result, baseline) : ~Incomplete(result) /\ b.check \in result.ran}

NotRechecked(result, baseline) == Gone(result, baseline) \ FixedIn(result, baseline)

-----------------------------------------------------------------------------
(* output.py: the gate, its message, and the groups of the report.          *)

FailOn ==
  [critical |-> {"CRITICAL"}, high |-> {"CRITICAL", "HIGH"},
   medium |-> {"CRITICAL", "HIGH", "MEDIUM"},
   low |-> {"CRITICAL", "HIGH", "MEDIUM", "LOW"}, none |-> {}]

Accepted(f) == f.suppressed \/ f.state = "unchanged"

\* A finding as the report shows it.
Marked(f, baseline, entries, today) ==
  [id |-> f.id, key |-> f.key, severity |-> f.severity, check |-> f.check,
   urls |-> f.urls, count |-> f.count,
   suppressed |-> Suppressed(f, entries, today),
   state |-> BaselineState(f, baseline)]

Gate(result, failOn, marked, baseline) ==
  [failOn |-> failOn,
   failed |-> {f.severity : f \in {m \in marked : ~Accepted(m)}} \cap FailOn[failOn] # {},
   incomplete |-> Incomplete(result),
   reason |-> IncompleteReason(result),
   basis |-> IF baseline = NoBaseline THEN "all" ELSE "new"]

ExitCode(gate) ==
  CASE gate.failed -> 1
    [] ~gate.failed /\ gate.incomplete /\ gate.failOn # "none" -> 3
    [] OTHER -> 0

\* The status shown, and the exit code that its text names.
GateMessage(gate) ==
  CASE gate.failed -> [status |-> "fail", code |-> 1]
    [] ~gate.failed /\ gate.incomplete ->
         [status |-> "warn", code |-> IF gate.failOn = "none" THEN 0 ELSE 3]
    [] OTHER -> [status |-> "pass", code |-> 0]

GroupStatus(result, g) ==
  CASE \E f \in FindingsOf(result) : GroupOfCheck(f.check) = g -> "issues"
    [] OTHER -> IF g \notin result.groups THEN "not-selected"
                ELSE IF ChecksOf[g] \cap result.ran # {} THEN "clean" ELSE "not-run"

\* What build_report() puts into the report, without its texts.
Report(result, failOn, baseline, entries, today) ==
  LET marked == {Marked(f, baseline, entries, today) : f \in FindingsOf(result)}
  IN [gate |-> Gate(result, failOn, marked, baseline),
      findings |-> marked,
      fixed |-> IF baseline = NoBaseline THEN {} ELSE FixedIn(result, baseline),
      notRechecked |->
        IF baseline = NoBaseline THEN {} ELSE NotRechecked(result, baseline),
      groups |-> [g \in GroupIds |-> GroupStatus(result, g)]]

-----------------------------------------------------------------------------
(* exports.py and sarif.py: the same verdict, taken again for other tools.  *)

JUnitFailuresOfScan(report) ==
  [findings |-> {f \in report.findings :
                   ~Accepted(f) /\ f.severity \in FailOn[report.gate.failOn]},
   scan |-> report.gate.incomplete]
\* The test cases that fail: findings, and the case of the scan itself.
JUnitFailures(report) ==
  [findings |-> {f \in report.findings :
                   ~Accepted(f) /\ f.severity \in FailOn[report.gate.failOn]},
   scan |-> report.gate.incomplete /\ report.gate.failOn # "none"]

\* The rows of the CSV file marked as counting toward the gate.
CsvCounting(report) == {f \in report.findings : ~f.suppressed /\ f.state # "unchanged"}

SarifSuccessful(report) == ~report.gate.incomplete

\* One rule per id, with the highest severity found for it.
SarifRules(report) ==
  [id \in {f.id : f \in report.findings} |->
     LET found == {f.severity : f \in {g \in report.findings : g.id = id}}
         Rank(s) == CHOOSE i \in DOMAIN Severities : Severities[i] = s
     IN CHOOSE s \in found : \A t \in found : Rank(s) <= Rank(t)]

=============================================================================

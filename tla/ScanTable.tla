------------------------------ MODULE ScanTable ------------------------------
(***************************************************************************)
(* The `scans` table of the agency service (service/db.py), which is also  *)
(* its queue.  Each operation here is one SQLite transaction of class      *)
(* Repository: writers run under BEGIN IMMEDIATE, so a transaction is one  *)
(* step, and what it leaves behind survives a stop of the process.         *)
(*                                                                         *)
(* A row keeps its status, the agency and the host that the runner's       *)
(* limits look at, and the error code of a failed scan.  finish_scan sets  *)
(* status and result_path together, so `completed` stands for both.  The   *)
(* other columns (target, checks, times, attestation) are data no          *)
(* transition depends on.                                                  *)
(***************************************************************************)
EXTENDS Integers, FiniteSets

CONSTANTS Scan,               \* scan ids: ULIDs, compared by <
          Agency, Host,
          None,               \* a column of a row that does not exist yet
          MaxQueued,          \* Settings.max_queued_scans
          MaxQueuedPerAgency, \* Settings.max_queued_per_agency
          SnapshotLimit       \* the default limit of queued_scans()

ASSUME TableAssumption ==
  /\ Scan \subseteq Nat
  /\ None \notin Agency \cup Host
  /\ MaxQueued \in Nat \ {0}
  /\ MaxQueuedPerAgency \in Nat \ {0}
  /\ SnapshotLimit \in Nat \ {0}

VARIABLES status, agency, host, error

tableVars == <<status, agency, host, error>>

Status == {"none", "queued", "running", "completed", "failed"}
ErrorCode == {"scan_error", "interrupted"}

TableTypeOK ==
  /\ status \in [Scan -> Status]
  /\ agency \in [Scan -> Agency \cup {None}]
  /\ host \in [Scan -> Host \cup {None}]
  /\ error \in [Scan -> ErrorCode \cup {None}]

TableInit ==
  /\ status = [s \in Scan |-> "none"]
  /\ agency = [s \in Scan |-> None]
  /\ host = [s \in Scan |-> None]
  /\ error = [s \in Scan |-> None]

(***************************************************************************)
(* What the queries select.  SnapshotLimit cuts the queue at its oldest    *)
(* rows, as ORDER BY scan_id LIMIT ? does.                                 *)
(***************************************************************************)
Rows(st) == {s \in Scan : status[s] = st}
QueuedOf(a) == {s \in Rows("queued") : agency[s] = a}
QueuedScans ==
  {s \in Rows("queued") :
     Cardinality({q \in Rows("queued") : q < s}) < SnapshotLimit}

QueueHasRoom(a) ==
  /\ Cardinality(Rows("queued")) < MaxQueued
  /\ Cardinality(QueuedOf(a)) < MaxQueuedPerAgency

(***************************************************************************)
(* The transactions.  The id of a new row is any unused one: two ids made  *)
(* in the same millisecond come in random order (service/ids.py).  The     *)
(* others are compare-and-set: a row in another state is left as it is.    *)
(***************************************************************************)
InsertScan(s, a, h) ==
  /\ status[s] = "none"
  /\ QueueHasRoom(a)
  /\ status' = [status EXCEPT ![s] = "queued"]
  /\ agency' = [agency EXCEPT ![s] = a]
  /\ host' = [host EXCEPT ![s] = h]
  /\ UNCHANGED error

\* Mutant of MarkRunning: a status the table's CHECK does not know.
MarkStarted(s) ==
  /\ status' = [status EXCEPT ![s] = IF @ = "queued" THEN "started" ELSE @]
  /\ UNCHANGED <<agency, host, error>>

MarkRunning(s) ==
  /\ status' = [status EXCEPT ![s] = IF @ = "queued" THEN "running" ELSE @]
  /\ UNCHANGED <<agency, host, error>>

FinishScan(s) ==
  /\ status' = [status EXCEPT ![s] = IF @ = "running" THEN "completed" ELSE @]
  /\ UNCHANGED <<agency, host, error>>

FailScan(s, code) ==
  /\ LET fails == status[s] \in {"queued", "running"} IN
       /\ status' = [status EXCEPT ![s] = IF fails THEN "failed" ELSE @]
       /\ error' = [error EXCEPT ![s] = IF fails THEN code ELSE @]
  /\ UNCHANGED <<agency, host>>

RecoverInterrupted ==
  /\ status' = [s \in Scan |->
       IF status[s] = "running" THEN "failed" ELSE status[s]]
  /\ error' = [s \in Scan |->
       IF status[s] = "running" THEN "interrupted" ELSE error[s]]
  /\ UNCHANGED <<agency, host>>

=============================================================================

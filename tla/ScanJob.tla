------------------------------- MODULE ScanJob -------------------------------
(***************************************************************************)
(* What the agency service promises about scans, with no threads, locks,   *)
(* pumps or transactions: a scan is queued while the queue has room, is    *)
(* started at most once, is executed within the operator's limits, and     *)
(* ends completed (its report is then stored) or failed.  The process may  *)
(* stop at any moment; a scan that was running is then failed as           *)
(* interrupted, and never started again.                                   *)
(*                                                                         *)
(* `executing` is the set of scans some thread is at work on.  A scan may  *)
(* still be "running" with nobody at work on it: between a stop and the    *)
(* recovery, and when the database refused its row's last update.          *)
(***************************************************************************)
EXTENDS Integers, FiniteSets

CONSTANTS Scan, Agency, Host, None,
          MaxQueued, MaxQueuedPerAgency,
          MaxConcurrent, MaxConcurrentPerAgency

VARIABLES status,     \* where each scan is in its life
          agency,     \* whose scan it is
          host,       \* the host it scans
          error,      \* why it failed
          executing,  \* the scans being worked on
          reports     \* the scans whose report is stored

jobVars == <<status, agency, host, error, executing, reports>>
requestVars == <<agency, host>>

InState(st) == {s \in Scan : status[s] = st}
OfAgency(S, a) == {s \in S : agency[s] = a}

WithinLimits(S) ==
  /\ Cardinality(S) <= MaxConcurrent
  /\ \A a \in Agency : Cardinality(OfAgency(S, a)) <= MaxConcurrentPerAgency
  /\ \A s, t \in S : host[s] = host[t] => s = t

JobInit ==
  /\ status = [s \in Scan |-> "none"]
  /\ agency = [s \in Scan |-> None]
  /\ host = [s \in Scan |-> None]
  /\ error = [s \in Scan |-> None]
  /\ executing = {}
  /\ reports = {}

Move(s, from, to) ==
  /\ status[s] = from
  /\ status' = [status EXCEPT ![s] = to]

Submit(s, a, h) ==
  /\ Move(s, "none", "queued")
  /\ Cardinality(InState("queued")) < MaxQueued
  /\ Cardinality(OfAgency(InState("queued"), a)) < MaxQueuedPerAgency
  /\ agency' = [agency EXCEPT ![s] = a]
  /\ host' = [host EXCEPT ![s] = h]
  /\ UNCHANGED <<error, executing, reports>>

Claim(s) ==
  /\ Move(s, "queued", "running")
  /\ UNCHANGED <<requestVars, error, executing, reports>>

Begin(s) ==
  /\ status[s] = "running"
  /\ s \notin executing
  /\ executing' = executing \cup {s}
  /\ WithinLimits(executing')
  /\ UNCHANGED <<status, requestVars, error, reports>>

Publish(s) ==
  /\ s \in executing
  /\ status[s] = "running"
  /\ reports' = reports \cup {s}
  /\ UNCHANGED <<status, requestVars, error, executing>>

Complete(s) ==
  /\ s \in executing \cap reports
  /\ Move(s, "running", "completed")
  /\ UNCHANGED <<requestVars, error, executing, reports>>

Break(s) ==
  /\ Move(s, "running", "failed")
  /\ error' = [error EXCEPT ![s] = "scan_error"]
  /\ UNCHANGED <<requestVars, executing, reports>>

Cease(s) ==
  /\ s \in executing
  /\ executing' = executing \ {s}
  /\ UNCHANGED <<status, requestVars, error, reports>>

StopAll ==
  /\ executing' = {}
  /\ UNCHANGED <<status, requestVars, error, reports>>

Interrupt ==
  /\ executing = {}
  /\ status' = [s \in Scan |->
       IF status[s] = "running" THEN "failed" ELSE status[s]]
  /\ error' = [s \in Scan |->
       IF status[s] = "running" THEN "interrupted" ELSE error[s]]
  /\ UNCHANGED <<requestVars, executing, reports>>

JobNext ==
  \/ \E s \in Scan, a \in Agency, h \in Host : Submit(s, a, h)
  \/ \E s \in Scan : \/ Claim(s) \/ Begin(s) \/ Publish(s)
                     \/ Complete(s) \/ Break(s) \/ Cease(s)
  \/ StopAll
  \/ Interrupt

JobSpec == JobInit /\ [][JobNext]_jobVars

=============================================================================

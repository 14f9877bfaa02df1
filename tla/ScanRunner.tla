----------------------------- MODULE ScanRunner ------------------------------
(***************************************************************************)
(* The background runner of the agency service (service/runner.py) with    *)
(* the threads that use it: requests that queue a scan and pump            *)
(* (service/api.py), one worker thread per started scan, the main thread   *)
(* that recovers and pumps before it serves, and callers of wait_idle.     *)
(*                                                                         *)
(* One step is one database transaction, one file written, or one stretch  *)
(* of code under the runner's lock with neither in it.  The lock covers a  *)
(* whole pump(), so the locals of the pump in progress belong to the       *)
(* thread that holds it.  Stop is a crash, a kill or an exit: threads are  *)
(* daemons, so everything but the table and the report files is gone.      *)
(*                                                                         *)
(* Faults names the operations that may fail in a run:                     *)
(*   scan    the scanner raises              write   write_report raises   *)
(*   finish  finish_scan raises              fail    fail_scan raises      *)
(*   thread  Thread.start raises             pump    a query of pump raises*)
(*   start   recover_interrupted raises                                    *)
(* The database ones are sqlite3.OperationalError: locked for over 5 s.    *)
(***************************************************************************)
EXTENDS ScanTable

CONSTANTS MaxConcurrent,           \* Settings.max_concurrent_scans
          MaxConcurrentPerAgency,  \* Settings.max_concurrent_per_agency
          Request,                 \* request-handling threads
          Waiter,                  \* threads that call wait_idle
          Main,                    \* the thread that runs create_app
          Free,                    \* the value of an unheld lock
          Faults

FaultKind == {"scan", "write", "finish", "fail", "thread", "pump", "start"}

Thread == Scan \cup Request \cup Waiter \cup {Main}

ASSUME RunnerAssumption ==
  /\ MaxConcurrent \in Nat \ {0}
  /\ MaxConcurrentPerAgency \in Nat \ {0}
  /\ Faults \subseteq FaultKind
  /\ Request \cap Scan = {} /\ Waiter \cap (Scan \cup Request) = {}
  /\ Main \notin Scan \cup Request \cup Waiter
  /\ Free \notin Thread

VARIABLES
  reports,   \* files: scans whose report is in place
  stage,     \* the service process
  closed,    \* ScanRunner._closed
  lock,      \* ScanRunner._lock: its holder, or Free
  running,   \* ScanRunner._running: its keys (agency and host are the row's)
  pc,        \* where each thread is; a worker is named after its scan
  todo,      \* pump: the scans of the snapshot not looked at yet
  counted,   \* pump: the scans that `hosts` and `per_agency` count
  starting,  \* pump: the scan it has marked running
  arrived    \* has a scan been queued since a wait_idle began to look?

pumpVars == <<todo, counted, starting>>
memoryVars == <<closed, lock, running, todo, counted, starting>>
vars == <<status, agency, host, error, reports, stage, closed, lock, running,
          pc, todo, counted, starting, arrived>>

Stage == {"down", "starting", "serving"}
InScan == {"scan", "write", "finish", "fail", "pop"}
InPump == {"snapshot", "choose", "launch", "undo"}
PC == {"off", "recover", "pump", "look", "count_queued", "count_running"}
        \cup InScan \cup InPump

TypeOK ==
  /\ TableTypeOK
  /\ reports \subseteq Scan
  /\ stage \in Stage
  /\ closed \in BOOLEAN
  /\ lock \in Thread \cup {Free}
  /\ running \subseteq Scan
  /\ pc \in [Thread -> PC]
  /\ todo \subseteq Scan
  /\ counted \subseteq Scan
  /\ starting \in Scan \cup {None}
  /\ arrived \in BOOLEAN

Init ==
  /\ TableInit
  /\ reports = {}
  /\ stage = "down"
  /\ closed = FALSE
  /\ lock = Free
  /\ running = {}
  /\ pc = [t \in Thread |-> "off"]
  /\ todo = {} /\ counted = {} /\ starting = None
  /\ arrived = FALSE

Goto(t, label) == pc' = [pc EXCEPT ![t] = label]
Waiting == \E w \in Waiter : pc[w] # "off"

(***************************************************************************)
(* The process: started, recovered, closed by the lifespan handler, gone.  *)
(***************************************************************************)
Start ==
  /\ stage = "down"
  /\ stage' = "starting"
  /\ Goto(Main, "recover")
  /\ UNCHANGED <<tableVars, reports, memoryVars, arrived>>

\* Mutant of Recover: the main thread pumps without failing what was running.
RecoverNothing ==
  /\ pc[Main] = "recover"
  /\ Goto(Main, "pump")
  /\ UNCHANGED <<tableVars, reports, stage, memoryVars, arrived>>

Recover ==
  /\ pc[Main] = "recover"
  /\ RecoverInterrupted
  /\ Goto(Main, "pump")
  /\ UNCHANGED <<reports, stage, memoryVars, arrived>>

\* Mutant of Forget: workers are not daemon threads and outlive the service.
ForgetButWorkers ==
  /\ stage' = "down"
  /\ closed' = FALSE
  /\ lock' = Free
  /\ running' = {}
  /\ pc' = [t \in Thread |-> IF t \in Scan /\ pc[t] = "scan" THEN "scan" ELSE "off"]
  /\ todo' = {} /\ counted' = {} /\ starting' = None
  /\ arrived' = FALSE

Forget ==
  /\ stage' = "down"
  /\ closed' = FALSE
  /\ lock' = Free
  /\ running' = {}
  /\ pc' = [t \in Thread |-> "off"]
  /\ todo' = {} /\ counted' = {} /\ starting' = None
  /\ arrived' = FALSE

Stop ==
  /\ stage # "down"
  /\ Forget
  /\ UNCHANGED <<tableVars, reports>>

StartFails ==
  /\ "start" \in Faults
  /\ pc[Main] = "recover"
  /\ Forget
  /\ UNCHANGED <<tableVars, reports>>

Close ==
  /\ stage = "serving" /\ ~closed
  /\ lock = Free
  /\ closed' = TRUE
  /\ UNCHANGED <<tableVars, reports, stage, lock, running, pc, pumpVars,
                 arrived>>

(***************************************************************************)
(* POST /v1/scans.  The transaction that queues the scan, then pump().  A  *)
(* replayed Idempotency-Key queues nothing and pumps all the same; every   *)
(* refused request returns before the pump and changes nothing here.       *)
(***************************************************************************)
CreateScan(r) ==
  /\ stage = "serving" /\ ~closed
  /\ pc[r] = "off"
  /\ \E s \in Scan, a \in Agency, h \in Host : InsertScan(s, a, h)
  /\ Goto(r, "pump")
  /\ arrived' = (arrived \/ Waiting)
  /\ UNCHANGED <<reports, stage, memoryVars>>

ReplayScan(r) ==
  /\ stage = "serving" /\ ~closed
  /\ pc[r] = "off"
  /\ \E s \in Scan : status[s] # "none"
  /\ Goto(r, "pump")
  /\ UNCHANGED <<tableVars, reports, stage, memoryVars, arrived>>

(***************************************************************************)
(* pump().  `hosts` and `per_agency` are read off the scans counted: those *)
(* running when the pump took the lock and those it has started since,     *)
(* also the ones whose thread did not start.                               *)
(***************************************************************************)
HostsCounted == {host[s] : s \in counted}
AgencyCount(a) == Cardinality({s \in counted : agency[s] = a})

Allowed(s) ==
  /\ s \notin running
  /\ AgencyCount(agency[s]) < MaxConcurrentPerAgency
  /\ host[s] \notin HostsCounted

\* Mutant of HasSlot: off by one.
HasSlotLate == Cardinality(running) <= MaxConcurrent

HasSlot == Cardinality(running) < MaxConcurrent
Candidates == {s \in todo : Allowed(s)}

\* The main thread serves once its pump is over; the others are done.
LeavePump(t) ==
  /\ Goto(t, "off")
  /\ stage' = IF t = Main THEN "serving" ELSE stage

\* Mutant of EnterPump: hosts and per_agency start empty in each pump.
EnterPumpAfresh(t) ==
  /\ pc[t] = "pump"
  /\ lock = Free
  /\ ~closed
  /\ lock' = t
  /\ counted' = {}
  /\ Goto(t, "snapshot")
  /\ UNCHANGED <<tableVars, reports, stage, closed, running, todo, starting,
                 arrived>>

\* Mutant of EnterPump: pump() does not wait for the lock.
EnterPumpUnlocked(t) ==
  /\ pc[t] = "pump"
  /\ ~closed
  /\ lock' = t
  /\ counted' = running
  /\ Goto(t, "snapshot")
  /\ UNCHANGED <<tableVars, reports, stage, closed, running, todo, starting,
                 arrived>>

EnterPump(t) ==
  /\ pc[t] = "pump"
  /\ lock = Free
  /\ ~closed
  /\ lock' = t
  /\ counted' = running
  /\ Goto(t, "snapshot")
  /\ UNCHANGED <<tableVars, reports, stage, closed, running, todo, starting,
                 arrived>>

PumpClosed(t) ==
  /\ pc[t] = "pump"
  /\ lock = Free
  /\ closed
  /\ LeavePump(t)
  /\ UNCHANGED <<tableVars, reports, memoryVars, arrived>>

Snapshot(t) ==
  /\ pc[t] = "snapshot"
  /\ todo' = QueuedScans
  /\ Goto(t, "choose")
  /\ UNCHANGED <<tableVars, reports, stage, closed, lock, running, counted,
                 starting, arrived>>

ChooseScan(t) ==
  /\ pc[t] = "choose"
  /\ HasSlot
  /\ \E s \in Candidates :
       /\ \A q \in Candidates : s <= q
       /\ MarkRunning(s)
       /\ todo' = {q \in todo : q > s}
       /\ starting' = IF status[s] = "queued" THEN s ELSE starting
       /\ Goto(t, IF status[s] = "queued" THEN "launch" ELSE "choose")
  /\ UNCHANGED <<reports, stage, closed, lock, running, counted, arrived>>

Launch(t) ==
  /\ pc[t] = "launch"
  /\ running' = running \cup {starting}
  /\ counted' = counted \cup {starting}
  /\ pc' = [pc EXCEPT ![t] = "choose", ![starting] = "scan"]
  /\ starting' = None
  /\ UNCHANGED <<tableVars, reports, stage, closed, lock, todo, arrived>>

LaunchFails(t) ==
  /\ "thread" \in Faults
  /\ pc[t] = "launch"
  /\ counted' = counted \cup {starting}
  /\ Goto(t, "undo")
  /\ UNCHANGED <<tableVars, reports, stage, closed, lock, running, todo,
                 starting, arrived>>

Undo(t) ==
  /\ pc[t] = "undo"
  /\ FailScan(starting, "scan_error")
  /\ starting' = None
  /\ Goto(t, "choose")
  /\ UNCHANGED <<reports, stage, closed, lock, running, todo, counted, arrived>>

ResetPump == lock' = Free /\ todo' = {} /\ counted' = {} /\ starting' = None

EndPump(t) ==
  /\ pc[t] = "choose"
  /\ ~HasSlot \/ Candidates = {}
  /\ ResetPump
  /\ LeavePump(t)
  /\ UNCHANGED <<tableVars, reports, closed, running, arrived>>

\* The exception leaves pump() and ends its thread: a request is answered
\* 500, a worker dies, and create_app takes the process with it.
PumpBreaks(t) ==
  /\ "pump" \in Faults
  /\ pc[t] \in {"snapshot", "choose", "undo"}
  /\ \/ /\ t = Main
        /\ Forget
     \/ /\ t # Main
        /\ ResetPump
        /\ Goto(t, "off")
        /\ UNCHANGED <<stage, closed, running, arrived>>
  /\ UNCHANGED <<tableVars, reports>>

(***************************************************************************)
(* _work(): scan, store the report, finish the row; fail the row on any    *)
(* exception; in any case leave `_running` and pump.                       *)
(***************************************************************************)
WorkStep(s, from, to) ==
  /\ pc[s] = from
  /\ Goto(s, to)
  /\ UNCHANGED <<stage, memoryVars, arrived>>

RunScan(s) ==
  /\ WorkStep(s, "scan", "write")
  /\ UNCHANGED <<tableVars, reports>>

WriteReport(s) ==
  /\ WorkStep(s, "write", "finish")
  /\ reports' = reports \cup {s}
  /\ UNCHANGED tableVars

FinishRow(s) ==
  /\ WorkStep(s, "finish", "pop")
  /\ FinishScan(s)
  /\ UNCHANGED reports

WorkBreaks(s) ==
  /\ \E at \in {"scan", "write", "finish"} \cap Faults : WorkStep(s, at, "fail")
  /\ UNCHANGED <<tableVars, reports>>

\* Mutant of FailRow: the exception is logged and the row left alone.
FailRowLogged(s) ==
  /\ WorkStep(s, "fail", "pop")
  /\ UNCHANGED <<tableVars, reports>>

FailRow(s) ==
  /\ WorkStep(s, "fail", "pop")
  /\ FailScan(s, "scan_error")
  /\ UNCHANGED reports

FailBreaks(s) ==
  /\ "fail" \in Faults
  /\ WorkStep(s, "fail", "pop")
  /\ UNCHANGED <<tableVars, reports>>

\* Mutant of PopRunning: a worker ends without pumping again.
PopAndEnd(s) ==
  /\ pc[s] = "pop"
  /\ lock = Free
  /\ running' = running \ {s}
  /\ Goto(s, "off")
  /\ UNCHANGED <<tableVars, reports, stage, closed, lock, pumpVars, arrived>>

PopRunning(s) ==
  /\ pc[s] = "pop"
  /\ lock = Free
  /\ running' = running \ {s}
  /\ Goto(s, "pump")
  /\ UNCHANGED <<tableVars, reports, stage, closed, lock, pumpVars, arrived>>

(***************************************************************************)
(* wait_idle(): three reads, one after the other.                          *)
(***************************************************************************)
WaitStep(w, from, to) ==
  /\ pc[w] = from
  /\ Goto(w, to)
  /\ UNCHANGED <<tableVars, reports, stage, memoryVars>>

WaitBegin(w) ==
  /\ stage = "serving"
  /\ WaitStep(w, "off", "look")
  /\ UNCHANGED arrived

WaitLook(w) ==
  /\ lock = Free
  /\ WaitStep(w, "look", IF running = {} THEN "count_queued" ELSE "look")
  /\ arrived' = FALSE

WaitGivesUp(w) ==
  /\ WaitStep(w, "look", "off")
  /\ UNCHANGED arrived

\* Mutant of WaitCountQueued: only what runs is counted.
WaitCountOther(w) ==
  /\ WaitStep(w, "count_queued",
              IF Rows("running") = {} THEN "count_running" ELSE "look")
  /\ UNCHANGED arrived

WaitCountQueued(w) ==
  /\ WaitStep(w, "count_queued",
              IF Rows("queued") = {} THEN "count_running" ELSE "look")
  /\ UNCHANGED arrived

WaitCountRunning(w) ==
  /\ WaitStep(w, "count_running", IF Rows("running") = {} THEN "off" ELSE "look")
  /\ UNCHANGED arrived

-----------------------------------------------------------------------------
Pump(t) ==
  \/ EnterPump(t) \/ PumpClosed(t) \/ Snapshot(t) \/ ChooseScan(t)
  \/ Launch(t) \/ LaunchFails(t) \/ Undo(t) \/ EndPump(t) \/ PumpBreaks(t)

Work(s) ==
  \/ RunScan(s) \/ WriteReport(s) \/ FinishRow(s) \/ WorkBreaks(s)
  \/ FailRow(s) \/ FailBreaks(s) \/ PopRunning(s)

Wait(w) ==
  \/ WaitBegin(w) \/ WaitLook(w) \/ WaitGivesUp(w)
  \/ WaitCountQueued(w) \/ WaitCountRunning(w)

Process == Start \/ Recover \/ Stop \/ StartFails \/ Close

Next ==
  \/ Process
  \/ \E r \in Request : CreateScan(r) \/ ReplayScan(r)
  \/ \E t \in Thread : Pump(t)
  \/ \E s \in Scan : Work(s)
  \/ \E w \in Waiter : Wait(w)

Spec == Init /\ [][Next]_vars

(***************************************************************************)
(* Safety.                                                                 *)
(***************************************************************************)
\* The scans a worker thread is at work on, from its start to its pop.
InFlight == {s \in Scan : pc[s] \in InScan}

Job == INSTANCE ScanJob WITH executing <- InFlight

\* "At most 4 scans run at once, 2 per agency, and one at a time against
\* the same host" (tutorial.md:276), counted over the threads really at
\* work and not over _running: two pumps, a worker that pops and a thread
\* that would not start must never add up to one scan too many.
LimitsHold == Job!WithinLimits(InFlight)

\* The queue never holds more than max_queued_scans, nor one agency more
\* than its share, whatever requests, pumps and restarts do together: the
\* bound is checked in the transaction that inserts and only there.
QueueBounded ==
  /\ Cardinality(Rows("queued")) <= MaxQueued
  /\ \A a \in Agency : Cardinality(QueuedOf(a)) <= MaxQueuedPerAgency

\* A row says completed (so GET .../report serves it) only when its report
\* is in place, across faults and a stop between the write and the commit.
CompletedHasReport == \A s \in Rows("completed") : s \in reports

\* A worker thread exists only for a row that was claimed, and a scan still
\* being executed is never reported as failed or put back in the queue.
WorkersClaimed ==
  \A s \in Scan :
    /\ pc[s] # "off" => status[s] \in {"running", "completed", "failed"}
    /\ pc[s] \in {"scan", "write", "finish", "fail"} => status[s] = "running"

\* Why the limits hold, and what a proof of it rests on.  One thread at a
\* time is inside a pump; _running names exactly the scans with a worker at
\* work; a pump never counts less than what runs, and what it has marked
\* running still has its slot when its thread is started, although rows are
\* inserted and workers finish meanwhile; and recovery runs alone.
Exclusive ==
  \A t \in Thread : pc[t] \in InPump <=> lock = t

RunningIsInFlight == running = InFlight

PumpCounts ==
  /\ lock # Free => running \subseteq counted
  /\ \A s \in counted : status[s] # "none"

SlotKept ==
  \A t \in Thread :
    /\ pc[t] \in {"launch", "undo"} =>
         starting \in Scan /\ status[starting] = "running" /\ pc[starting] = "off"
    /\ pc[t] = "launch" => HasSlot /\ Allowed(starting)

StartsAlone ==
  /\ stage = "down" => \A t \in Thread : pc[t] = "off"
  /\ pc[Main] = "recover" =>
       stage = "starting" /\ \A t \in Thread \ {Main} : pc[t] = "off"

PumpDiscipline ==
  Exclusive /\ RunningIsInFlight /\ PumpCounts /\ SlotKept /\ StartsAlone

\* A finished scan keeps its outcome: no late worker, recovery or pump of a
\* later process rewrites it, and no step puts a scan back in the queue.
OutcomeFinal ==
  [][\A s \in Scan :
       /\ status[s] \in {"completed", "failed"} =>
            status'[s] = status[s] /\ error'[s] = error[s]
       /\ status[s] # "none" => status'[s] # "queued" \/ status[s] = "queued"
    ]_vars

\* The runner implements the abstract lifecycle, its limits included.
ImplementsJob == Job!JobSpec

\* wait_idle() returns True only when nothing runs and nothing is queued,
\* unless a scan was queued while it looked (runner.py:136).
IdleMeansIdle ==
  [][\A w \in Waiter :
       pc[w] = "count_running" /\ pc'[w] = "off" /\ stage' = stage =>
         arrived \/ Rows("queued") \cup Rows("running") = {}]_vars

(***************************************************************************)
(* Progress.                                                               *)
(***************************************************************************)
\* A queued scan that pump() would start now.
Startable(s) ==
  /\ status[s] = "queued"
  /\ Cardinality(running) < MaxConcurrent
  /\ Cardinality({q \in running : agency[q] = agency[s]}) < MaxConcurrentPerAgency
  /\ \A q \in running : host[q] # host[s]

\* "Start every queued scan the limits allow" (runner.py:59): no wake-up is
\* lost.  When no thread pumps or is about to, nothing startable waits: the
\* thread that queued a scan or freed a slot has pumped after doing so.
WorkConserving ==
  (stage = "serving" /\ ~closed
     /\ \A t \in Thread : pc[t] \notin {"pump", "pop"} \cup InPump)
  => \A s \in Scan : ~Startable(s)

\* A row says running only while a thread is at work on it or the pump is
\* about to start one; recovery leaves none behind.
RunningIsOwned ==
  stage = "serving" =>
    \A s \in Rows("running") : s \in InFlight \/ s = starting

\* Threads run on and a scan comes to an end (it has a maximum duration and
\* each request a timeout).  A thread that waits for the lock gets it in the
\* end although replayed requests may keep taking it: strong fairness, and
\* only where a worker must leave _running.
Fairness ==
  /\ WF_vars(Recover)
  /\ \A t \in Thread : WF_vars(Pump(t))
  /\ \A s \in Scan : WF_vars(Work(s)) /\ SF_vars(PopRunning(s))

FairSpec == Spec /\ Fairness

\* "Poll this until status is completed or failed" (api.py:548): once the
\* service stays up, every scan that was queued or running gets there.
EventuallyEnds ==
  <>[](stage = "serving" /\ ~closed) =>
    \A s \in Scan :
      status[s] \in {"queued", "running"} ~> status[s] \in {"completed", "failed"}

=============================================================================

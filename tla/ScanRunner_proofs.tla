-------------------------- MODULE ScanRunner_proofs --------------------------
(***************************************************************************)
(* Proofs about ScanRunner, for every set of scans, agencies and threads,  *)
(* every limit and every set of faults.                                    *)
(*                                                                         *)
(* TypeOK comes first.  PumpDiscipline, WorkersClaimed and the finiteness  *)
(* of the two sets that limits count are then inductive together; the      *)
(* limits, the reports of completed scans and the refinement of ScanJob    *)
(* follow from them.  The bound on the queue needs its own transaction     *)
(* only.  The last three parts are about what a pump, a worker or a caller *)
(* of wait_idle leaves behind: no row is left running, no wake-up is lost  *)
(* and an idle service is idle.                                            *)
(***************************************************************************)
EXTENDS ScanRunner, FiniteSetTheorems, TLAPS

(***************************************************************************)
(* Types.                                                                  *)
(***************************************************************************)
\* Every transaction on the table of scans keeps the types of its columns.
LEMMA TableTypes ==
  ASSUME TableTypeOK,
         \/ UNCHANGED tableVars
         \/ \E s \in Scan, a \in Agency, h \in Host : InsertScan(s, a, h)
         \/ \E s \in Scan : MarkRunning(s) \/ FinishScan(s)
                            \/ FailScan(s, "scan_error")
         \/ RecoverInterrupted
  PROVE  TableTypeOK'
<1> USE DEF TableTypeOK, Status, ErrorCode
<1>1. CASE UNCHANGED tableVars
  BY <1>1 DEF tableVars
<1>2. CASE \E s \in Scan, a \in Agency, h \in Host : InsertScan(s, a, h)
  BY <1>2 DEF InsertScan
<1>3. CASE \E s \in Scan : MarkRunning(s)
  BY <1>3 DEF MarkRunning
<1>4. CASE \E s \in Scan : FinishScan(s)
  BY <1>4 DEF FinishScan
<1>5. CASE \E s \in Scan : FailScan(s, "scan_error")
  BY <1>5 DEF FailScan
<1>6. CASE RecoverInterrupted
  BY <1>6 DEF RecoverInterrupted
<1> QED
  BY <1>1, <1>2, <1>3, <1>4, <1>5, <1>6

\* Each action of the process keeps the type invariant.
LEMMA ProcessTypes ==
  ASSUME TypeOK, Process
  PROVE  TypeOK'
<1> USE RunnerAssumption DEF TypeOK, Thread, Stage, PC, memoryVars, pumpVars, Goto
<1>1. CASE Start
  BY <1>1, TableTypes DEF Start, tableVars
<1>2. CASE Recover
  BY <1>2, TableTypes DEF Recover
<1>3. CASE Stop
  BY <1>3, TableTypes DEF Stop, Forget
<1>4. CASE StartFails
  BY <1>4, TableTypes DEF StartFails, Forget
<1>5. CASE Close
  BY <1>5, TableTypes DEF Close
<1> QED
  BY <1>1, <1>2, <1>3, <1>4, <1>5 DEF Process

\* So does every step of a request that queues or replays a scan.
LEMMA RequestTypes ==
  ASSUME TypeOK, NEW r \in Request, CreateScan(r) \/ ReplayScan(r)
  PROVE  TypeOK'
<1> USE DEF TypeOK, Thread, PC, memoryVars, pumpVars, Goto
<1>1. CASE CreateScan(r)
  BY <1>1, TableTypes DEF CreateScan, Waiting
<1>2. CASE ReplayScan(r)
  BY <1>2, TableTypes DEF ReplayScan
<1> QED
  BY <1>1, <1>2

\* So does every step of a pump, whichever thread runs it, given that a
\* pump about to start a thread has a scan to start it for.
LEMMA PumpTypes ==
  ASSUME TypeOK, SlotKept, NEW t \in Thread, Pump(t)
  PROVE  TypeOK'
<1> USE DEF TypeOK, Thread, Stage, PC, InScan, InPump, Goto, memoryVars, pumpVars
<1>1. CASE EnterPump(t)
  BY <1>1, TableTypes DEF EnterPump
<1>2. CASE PumpClosed(t)
  BY <1>2, TableTypes DEF PumpClosed, LeavePump
<1>3. CASE Snapshot(t)
  <2>1. QueuedScans \subseteq Scan
    BY DEF QueuedScans, Rows
  <2> QED
    BY <1>3, <2>1, TableTypes DEF Snapshot
<1>4. CASE ChooseScan(t)
  <2>1. PICK s \in Candidates :
          /\ MarkRunning(s)
          /\ todo' = {q \in todo : q > s}
          /\ starting' = IF status[s] = "queued" THEN s ELSE starting
          /\ Goto(t, IF status[s] = "queued" THEN "launch" ELSE "choose")
    BY <1>4 DEF ChooseScan
  <2>2. s \in Scan
    BY DEF Candidates
  <2>3. TableTypeOK'
    BY <2>1, <2>2, TableTypes
  <2>4. pc' \in [Thread -> PC]
    BY <2>1
  <2> QED
    BY <1>4, <2>1, <2>2, <2>3, <2>4 DEF ChooseScan
<1>5. CASE Launch(t)
  <2>1. starting \in Scan
    BY <1>5 DEF Launch, SlotKept
  <2> QED
    BY <1>5, <2>1, TableTypes DEF Launch
<1>6. CASE LaunchFails(t)
  <2>1. starting \in Scan
    BY <1>6 DEF LaunchFails, SlotKept
  <2> QED
    BY <1>6, <2>1, TableTypes DEF LaunchFails
<1>7. CASE Undo(t)
  <2>1. starting \in Scan
    BY <1>7 DEF Undo, SlotKept
  <2> QED
    BY <1>7, <2>1, TableTypes DEF Undo
<1>8. CASE EndPump(t)
  BY <1>8, TableTypes DEF EndPump, ResetPump, LeavePump
<1>9. CASE PumpBreaks(t)
  BY <1>9, TableTypes DEF PumpBreaks, ResetPump, Forget
<1> QED
  BY <1>1, <1>2, <1>3, <1>4, <1>5, <1>6, <1>7, <1>8, <1>9 DEF Pump

\* So does every step of a worker, and of a caller of wait_idle.
LEMMA WorkTypes ==
  ASSUME TypeOK, NEW s \in Scan, Work(s)
  PROVE  TypeOK'
<1> USE DEF TypeOK, Thread, PC, InScan, WorkStep, Goto, memoryVars, pumpVars
<1>1. CASE RunScan(s)
  BY <1>1, TableTypes DEF RunScan
<1>2. CASE WriteReport(s)
  BY <1>2, TableTypes DEF WriteReport
<1>3. CASE FinishRow(s)
  BY <1>3, TableTypes DEF FinishRow
<1>4. CASE WorkBreaks(s)
  BY <1>4, TableTypes DEF WorkBreaks
<1>5. CASE FailRow(s)
  BY <1>5, TableTypes DEF FailRow
<1>6. CASE FailBreaks(s)
  BY <1>6, TableTypes DEF FailBreaks
<1>7. CASE PopRunning(s)
  BY <1>7, TableTypes DEF PopRunning
<1> QED
  BY <1>1, <1>2, <1>3, <1>4, <1>5, <1>6, <1>7 DEF Work

LEMMA WaitTypes ==
  ASSUME TypeOK, NEW w \in Waiter, Wait(w)
  PROVE  TypeOK'
<1> USE TableTypes DEF TypeOK, Thread, PC, WaitStep, Goto, memoryVars, pumpVars
<1>1. CASE WaitBegin(w)
  BY <1>1 DEF WaitBegin
<1>2. CASE WaitLook(w)
  BY <1>2 DEF WaitLook
<1>3. CASE WaitGivesUp(w)
  BY <1>3 DEF WaitGivesUp
<1>4. CASE WaitCountQueued(w)
  BY <1>4 DEF WaitCountQueued
<1>5. CASE WaitCountRunning(w)
  BY <1>5 DEF WaitCountRunning
<1> QED
  BY <1>1, <1>2, <1>3, <1>4, <1>5 DEF Wait

(***************************************************************************)
(* The discipline of pumps and workers.                                    *)
(***************************************************************************)
Finite == IsFiniteSet(running) /\ IsFiniteSet(counted)
Discipline == TypeOK /\ PumpDiscipline /\ WorkersClaimed /\ Finite

\* The process stops, starts and recovers: a stop leaves no thread, and
\* recovery finds none.
LEMMA ProcessKeepsDiscipline ==
  ASSUME Discipline, Process
  PROVE  Discipline'
<1>1. TypeOK'
  BY ProcessTypes DEF Discipline
<1> USE RunnerAssumption, FS_EmptySet
    DEF Discipline, TypeOK, PumpDiscipline, Exclusive, RunningIsInFlight,
        PumpCounts, SlotKept, StartsAlone, WorkersClaimed, Finite, InFlight,
        InScan, InPump, Thread, Goto, memoryVars, pumpVars
<1>2. CASE Start
  BY <1>1, <1>2 DEF Start, tableVars, HasSlot, Allowed, HostsCounted, AgencyCount
<1>3. CASE Recover
  BY <1>1, <1>3 DEF Recover, RecoverInterrupted, TableTypeOK
<1>4. CASE Stop
  BY <1>1, <1>4 DEF Stop, Forget
<1>5. CASE StartFails
  BY <1>1, <1>5 DEF StartFails, Forget
<1>6. CASE Close
  BY <1>1, <1>6 DEF Close, tableVars, HasSlot, Allowed, HostsCounted, AgencyCount
<1> QED
  BY <1>2, <1>3, <1>4, <1>5, <1>6 DEF Process

\* A request inserts a row no pump has counted and no worker is at work on,
\* so what a pump in progress has found out stays true.
LEMMA RequestKeepsDiscipline ==
  ASSUME Discipline, NEW r \in Request, CreateScan(r) \/ ReplayScan(r)
  PROVE  Discipline'
<1>1. TypeOK'
  BY RequestTypes DEF Discipline
<1> USE RunnerAssumption
    DEF Discipline, TypeOK, PumpDiscipline, Exclusive, RunningIsInFlight,
        PumpCounts, SlotKept, StartsAlone, WorkersClaimed, Finite, InFlight,
        InScan, InPump, Thread, Goto, memoryVars, pumpVars, TableTypeOK
<1>2. CASE CreateScan(r)
  <2>1. PICK n \in Scan, a \in Agency, h \in Host : InsertScan(n, a, h)
    BY <1>2 DEF CreateScan
  <2>2. /\ status[n] = "none"
        /\ \A s \in Scan \ {n} : /\ status'[s] = status[s]
                                 /\ agency'[s] = agency[s] /\ host'[s] = host[s]
        /\ status'[n] = "queued"
    BY <2>1 DEF InsertScan
  <2>4. ASSUME NEW t \in Thread, pc[t] = "launch"
        PROVE  HasSlot' /\ Allowed(starting)'
    <3>1. HasSlot /\ Allowed(starting) /\ starting \in Scan /\ n # starting
      BY <2>2, <2>4
    <3>2. {s \in counted : agency'[s] = agency'[starting]}
            = {s \in counted : agency[s] = agency[starting]}
      BY <2>2, <3>1
    <3>3. {host'[s] : s \in counted} = {host[s] : s \in counted}
      BY <2>2
    <3> QED
      BY <1>2, <2>2, <3>1, <3>2, <3>3
      DEF CreateScan, HasSlot, Allowed, HostsCounted, AgencyCount
  <2>5. SlotKept'
    BY <1>1, <1>2, <2>2, <2>4 DEF CreateScan
  <2> QED
    BY <1>1, <1>2, <2>2, <2>5 DEF CreateScan
<1>3. CASE ReplayScan(r)
  BY <1>1, <1>3 DEF ReplayScan, tableVars, HasSlot, Allowed, HostsCounted, AgencyCount
<1> QED
  BY <1>2, <1>3

\* Callers of wait_idle only move themselves.
LEMMA WaitKeepsDiscipline ==
  ASSUME Discipline, NEW w \in Waiter, Wait(w)
  PROVE  Discipline'
<1>1. TypeOK'
  BY WaitTypes DEF Discipline
<1>2. /\ UNCHANGED <<tableVars, reports, stage, memoryVars>>
      /\ \E at \in {"off", "look", "count_queued", "count_running"},
            to \in {"off", "look", "count_queued", "count_running"} :
            pc[w] = at /\ Goto(w, to)
      /\ pc[w] = "off" => stage = "serving"
  BY DEF Wait, WaitStep, WaitBegin, WaitLook, WaitGivesUp, WaitCountQueued,
         WaitCountRunning
<1> QED
  BY <1>1, <1>2, RunnerAssumption
  DEF Discipline, TypeOK, PumpDiscipline, Exclusive, RunningIsInFlight,
      PumpCounts, SlotKept, StartsAlone, WorkersClaimed, Finite, InFlight,
      InScan, InPump, Thread, Goto, memoryVars, pumpVars, tableVars,
      HasSlot, Allowed, HostsCounted, AgencyCount

\* A worker changes its own row, which no pump is about to start, and leaves
\* _running only while no pump is in progress.
LEMMA WorkKeepsDiscipline ==
  ASSUME Discipline, NEW s \in Scan, Work(s)
  PROVE  Discipline'
<1>1. TypeOK'
  BY WorkTypes DEF Discipline
<1> USE RunnerAssumption DEF Discipline, PumpDiscipline, InScan, Thread
<1>2. ASSUME NEW to \in InScan,
             pc[s] \in InScan, Goto(s, to), UNCHANGED <<stage, memoryVars>>,
             UNCHANGED <<agency, host>>,
             \A q \in Scan \ {s} : status'[q] = status[q],
             status'[s] \in {"running", "completed", "failed"},
             to # "pop" => status'[s] = "running"
      PROVE  Discipline'
  <2>1. /\ pc' = [pc EXCEPT ![s] = to]
        /\ pc \in [Thread -> PC]
        /\ pc[s] # "off" /\ s \in Thread
    BY <1>2 DEF Goto, TypeOK
  <2>2. Exclusive'
    BY <1>2, <2>1 DEF Exclusive, InPump, memoryVars
  <2>3. InFlight' = InFlight
    BY <1>2, <2>1 DEF InFlight
  <2>4. RunningIsInFlight' /\ Finite'
    BY <1>2, <2>3 DEF RunningIsInFlight, Finite, memoryVars
  <2>5. PumpCounts'
    BY <1>2, <1>1 DEF PumpCounts, memoryVars, TypeOK
  <2>6. (HasSlot /\ Allowed(starting)) => (HasSlot /\ Allowed(starting))'
    BY <1>2 DEF HasSlot, Allowed, AgencyCount, HostsCounted, memoryVars
  <2>7. ASSUME NEW t \in Thread, pc'[t] \in {"launch", "undo"}
        PROVE  /\ starting' \in Scan
               /\ status'[starting'] = "running" /\ pc'[starting'] = "off"
               /\ pc'[t] = "launch" => (HasSlot /\ Allowed(starting))'
    BY <1>2, <2>1, <2>6, <2>7 DEF SlotKept, memoryVars
  <2>8. SlotKept'
    BY <2>7 DEF SlotKept
  <2>9. StartsAlone'
    BY <1>2, <2>1 DEF StartsAlone
  <2>10. WorkersClaimed'
    BY <1>2, <2>1 DEF WorkersClaimed
  <2> QED
    BY <1>1, <2>2, <2>4, <2>5, <2>8, <2>9, <2>10
<1> USE DEF WorkStep, WorkersClaimed, tableVars
<1>3. CASE RunScan(s)
  BY <1>2, <1>3 DEF RunScan
<1>4. CASE WriteReport(s)
  BY <1>2, <1>4 DEF WriteReport
<1>5. CASE FinishRow(s)
  BY <1>2, <1>5 DEF FinishRow, FinishScan, TypeOK, TableTypeOK
<1>6. CASE WorkBreaks(s)
  BY <1>2, <1>6 DEF WorkBreaks
<1>7. CASE FailRow(s)
  BY <1>2, <1>7 DEF FailRow, FailScan, TypeOK, TableTypeOK
<1>8. CASE FailBreaks(s)
  BY <1>2, <1>8 DEF FailBreaks
<1>9. CASE PopRunning(s)
  BY <1>1, <1>9, FS_RemoveElement
  DEF PopRunning, TypeOK, Exclusive, RunningIsInFlight, PumpCounts, SlotKept,
      StartsAlone, Finite, InFlight, InPump, Goto, memoryVars, pumpVars,
      HasSlot, Allowed, HostsCounted, AgencyCount
<1> QED
  BY <1>3, <1>4, <1>5, <1>6, <1>7, <1>8, <1>9 DEF Work

\* A pump holds the lock; it marks a scan running that has a slot and no
\* worker, and starts its worker before it looks at another one.
LEMMA PumpKeepsDiscipline ==
  ASSUME Discipline, NEW t \in Thread, Pump(t)
  PROVE  Discipline'
<1>1. TypeOK'
  BY PumpTypes DEF Discipline, PumpDiscipline
<1> USE RunnerAssumption
    DEF Discipline, TypeOK, PumpDiscipline, Exclusive, RunningIsInFlight,
        PumpCounts, SlotKept, StartsAlone, WorkersClaimed, Finite, InFlight,
        InScan, InPump, Thread, Goto, memoryVars, pumpVars, tableVars
<1>2. CASE EnterPump(t)
  BY <1>1, <1>2 DEF EnterPump
<1>3. CASE PumpClosed(t)
  BY <1>1, <1>3 DEF PumpClosed, LeavePump, HasSlot, Allowed, HostsCounted, AgencyCount
<1>4. CASE Snapshot(t)
  BY <1>1, <1>4 DEF Snapshot
<1>5. CASE ChooseScan(t)
  <2>1. PICK s \in Candidates :
          /\ MarkRunning(s)
          /\ starting' = IF status[s] = "queued" THEN s ELSE starting
          /\ Goto(t, IF status[s] = "queued" THEN "launch" ELSE "choose")
    BY <1>5 DEF ChooseScan
  <2>2. s \in Scan /\ HasSlot /\ Allowed(s)
    BY <1>5 DEF ChooseScan, Candidates
  <2>3. CASE status[s] = "queued"
    <3>1. /\ status' = [status EXCEPT ![s] = "running"]
          /\ pc' = [pc EXCEPT ![t] = "launch"] /\ starting' = s
          /\ pc[s] = "off" /\ pc[t] = "choose"
          /\ UNCHANGED <<agency, host, stage, lock, running, counted>>
      BY <1>5, <2>1, <2>2, <2>3 DEF ChooseScan, MarkRunning
    <3>2. Allowed(s)' /\ HasSlot'
      BY <2>2, <3>1 DEF Allowed, HasSlot, HostsCounted, AgencyCount
    <3>3. InFlight' = InFlight
      BY <2>2, <3>1
    <3>4. Exclusive'
      BY <3>1
    <3>5. SlotKept'
      BY <2>2, <3>1, <3>2, <3>4 DEF TableTypeOK
    <3>6. WorkersClaimed'
      BY <2>2, <3>1 DEF TableTypeOK
    <3>7. PumpCounts' /\ StartsAlone' /\ Finite' /\ RunningIsInFlight'
      BY <1>1, <2>2, <3>1, <3>3 DEF TableTypeOK
    <3> QED
      BY <1>1, <3>4, <3>5, <3>6, <3>7
  <2>4. CASE status[s] # "queued"
    <3>1. /\ status' = status /\ pc' = pc /\ starting' = starting
          /\ UNCHANGED <<agency, host, stage, lock, running, counted>>
      BY <1>5, <2>1, <2>2, <2>4 DEF ChooseScan, MarkRunning, TableTypeOK
    <3> QED
      BY <1>1, <3>1 DEF HasSlot, Allowed, HostsCounted, AgencyCount
  <2> QED
    BY <2>3, <2>4
<1>6. CASE Launch(t)
  <2>1. starting \in Scan /\ starting # t /\ pc[starting] = "off"
          /\ status[starting] = "running"
    BY <1>6 DEF Launch
  <2>2. IsFiniteSet(running') /\ IsFiniteSet(counted')
    BY <1>6, FS_AddElement DEF Launch
  <2>3. InFlight' = InFlight \cup {starting}
    BY <1>6, <2>1 DEF Launch
  <2> QED
    BY <1>1, <1>6, <2>1, <2>2, <2>3 DEF Launch
<1>7. CASE LaunchFails(t)
  <2>1. IsFiniteSet(counted')
    BY <1>7, FS_AddElement DEF LaunchFails
  <2> QED
    BY <1>1, <1>7, <2>1 DEF LaunchFails
<1>8. CASE Undo(t)
  BY <1>1, <1>8 DEF Undo, FailScan, TableTypeOK
<1>9. CASE EndPump(t)
  BY <1>1, <1>9, FS_EmptySet DEF EndPump, ResetPump, LeavePump
<1>10. CASE PumpBreaks(t)
  BY <1>1, <1>10, FS_EmptySet DEF PumpBreaks, ResetPump, Forget
<1> QED
  BY <1>2, <1>3, <1>4, <1>5, <1>6, <1>7, <1>8, <1>9, <1>10 DEF Pump

\* No action disturbs the discipline.
LEMMA DisciplineKept == Discipline /\ [Next]_vars => Discipline'
<1> SUFFICES ASSUME Discipline, [Next]_vars
             PROVE  Discipline'
  OBVIOUS
<1>1. CASE Next
  BY <1>1, ProcessKeepsDiscipline, RequestKeepsDiscipline, PumpKeepsDiscipline,
     WorkKeepsDiscipline, WaitKeepsDiscipline DEF Next
<1>2. CASE UNCHANGED vars
  BY <1>2
  DEF vars, Discipline, TypeOK, TableTypeOK, PumpDiscipline, Exclusive,
      RunningIsInFlight, PumpCounts, SlotKept, StartsAlone, WorkersClaimed,
      Finite, InFlight, HasSlot, Allowed, HostsCounted, AgencyCount
<1> QED
  BY <1>1, <1>2

LEMMA DisciplineInit == Init => Discipline
<1> SUFFICES ASSUME Init
             PROVE  Discipline
  OBVIOUS
<1> USE RunnerAssumption DEF Init, Thread
<1>1. TypeOK
  BY DEF TableInit, TypeOK, TableTypeOK, Stage, PC, Status
<1>2. PumpDiscipline
  BY DEF PumpDiscipline, Exclusive, RunningIsInFlight, PumpCounts, SlotKept,
         StartsAlone, InFlight, InScan, InPump
<1>3. WorkersClaimed /\ Finite
  BY FS_EmptySet DEF WorkersClaimed, Finite
<1> QED
  BY <1>1, <1>2, <1>3 DEF Discipline

\* The inductive invariant holds.
LEMMA DisciplineHolds == Spec => []Discipline
  BY DisciplineInit, DisciplineKept, PTL DEF Spec

\* Pumps keep to their discipline in every reachable state.
THEOREM PumpsDisciplined == Spec => []PumpDiscipline
<1>1. Discipline => PumpDiscipline
  BY DEF Discipline
<1> QED
  BY <1>1, DisciplineHolds, PTL

\* Every variable has its type in every reachable state.
THEOREM TypeCorrect == Spec => []TypeOK
<1>1. Discipline => TypeOK
  BY DEF Discipline
<1> QED
  BY <1>1, DisciplineHolds, PTL

\* A worker thread has a claimed row, and while it executes the scan the row
\* says running.
THEOREM ClaimsCorrect == Spec => []WorkersClaimed
<1>1. Discipline => WorkersClaimed
  BY DEF Discipline
<1> QED
  BY <1>1, DisciplineHolds, PTL

(***************************************************************************)
(* The limits.                                                             *)
(***************************************************************************)
\* The Cardinality that ScanJob counts with is the Cardinality used here.
LEMMA JobCardinality == \A S : Job!Cardinality(S) = Cardinality(S)
  BY DEF Job!Cardinality, Cardinality

\* Only the start of a thread adds a scan to those executed, and no step
\* changes the agency or the host of one that is executed.
LEMMA FlightSteps ==
  ASSUME Discipline, [Next]_vars
  PROVE  \/ \E t \in Thread : Launch(t)
         \/ /\ InFlight' \subseteq InFlight
            /\ \A s \in InFlight : agency'[s] = agency[s] /\ host'[s] = host[s]
<1> USE RunnerAssumption
    DEF Discipline, TypeOK, TableTypeOK, InFlight, InScan, InPump, Thread, Goto
<1>1. CASE UNCHANGED vars
  BY <1>1 DEF vars
<1>2. CASE Process
  BY <1>2 DEF Process, Start, Recover, RecoverInterrupted, Stop, StartFails, Forget,
              Close, tableVars
<1>3. CASE \E r \in Request : CreateScan(r) \/ ReplayScan(r)
  BY <1>3 DEF CreateScan, ReplayScan, InsertScan, tableVars, WorkersClaimed
<1>4. ASSUME NEW t \in Thread, Pump(t)
      PROVE  \/ Launch(t)
             \/ InFlight' \subseteq InFlight /\ UNCHANGED <<agency, host>>
  BY <1>4
  DEF Pump, EnterPump, PumpClosed, Snapshot, ChooseScan, LaunchFails, Undo, EndPump,
      PumpBreaks, ResetPump, LeavePump, Forget, MarkRunning, FailScan, tableVars
<1>5. ASSUME NEW s \in Scan, Work(s)
      PROVE  InFlight' \subseteq InFlight /\ UNCHANGED <<agency, host>>
  BY <1>5
  DEF Work, RunScan, WriteReport, FinishRow, WorkBreaks, FailRow, FailBreaks,
      PopRunning, WorkStep, FinishScan, FailScan, tableVars
<1>6. ASSUME NEW w \in Waiter, Wait(w)
      PROVE  InFlight' \subseteq InFlight /\ UNCHANGED <<agency, host>>
  BY <1>6
  DEF Wait, WaitBegin, WaitLook, WaitGivesUp, WaitCountQueued, WaitCountRunning,
      WaitStep, tableVars
<1> QED
  BY <1>1, <1>2, <1>3, <1>4, <1>5, <1>6 DEF Next

\* The thread that is started has its slot: the scans counted, never fewer
\* than those executed, leave room for it and none is against its host.
LEMMA LaunchWithinLimits ==
  ASSUME Discipline, LimitsHold, NEW t \in Thread, Launch(t)
  PROVE  LimitsHold'
<1> DEFINE new == starting
           Of(S, a) == {s \in S : agency[s] = a}
<1>1. /\ new \in Scan /\ new \notin running /\ HasSlot /\ Allowed(new)
      /\ running = InFlight /\ running \subseteq counted
      /\ IsFiniteSet(running) /\ IsFiniteSet(counted)
  BY RunnerAssumption
  DEF Launch, Discipline, PumpDiscipline, SlotKept, Allowed, RunningIsInFlight,
      PumpCounts, Exclusive, InPump, Finite
<1>2. /\ InFlight' = running \cup {new}
      /\ UNCHANGED <<agency, host>>
  BY <1>1 DEF Launch, InFlight, InScan, Discipline, TypeOK, Thread, PumpDiscipline,
              SlotKept, tableVars
<1>3. Cardinality(running \cup {new}) <= MaxConcurrent
  <2>1. Cardinality(running \cup {new}) = Cardinality(running) + 1
    BY <1>1, FS_AddElement
  <2>2. Cardinality(running) \in Nat /\ MaxConcurrent \in Nat
    BY <1>1, FS_CardinalityType, RunnerAssumption
  <2> QED
    BY <1>1, <2>1, <2>2 DEF HasSlot
<1>4. ASSUME NEW a \in Agency
      PROVE  Cardinality(Of(running \cup {new}, a)) <= MaxConcurrentPerAgency
  <2>1. CASE agency[new] # a
    <3>1. Of(running \cup {new}, a) = Of(running, a)
      BY <2>1
    <3>2. Cardinality(Of(running, a)) <= MaxConcurrentPerAgency
      BY <1>1, JobCardinality DEF LimitsHold, Job!WithinLimits, Job!OfAgency
    <3> QED
      BY <3>1, <3>2
  <2>2. CASE agency[new] = a
    <3>1. Of(running \cup {new}, a) = Of(running, a) \cup {new}
      BY <2>2
    <3>2. IsFiniteSet(Of(counted, a)) /\ IsFiniteSet(Of(running, a))
      BY <1>1, FS_Subset
    <3>3. Cardinality(Of(running, a)) <= Cardinality(Of(counted, a))
      <4>1. Of(running, a) \in SUBSET Of(counted, a)
        BY <1>1
      <4> QED
        BY <3>2, <4>1, FS_Subset
    <3>4. Cardinality(Of(counted, a)) < MaxConcurrentPerAgency
      BY <1>1, <2>2 DEF Allowed, AgencyCount
    <3>5. Cardinality(Of(running, a) \cup {new}) <= Cardinality(Of(running, a)) + 1
      <4>1. new \notin Of(running, a)
        BY <1>1
      <4>2. Cardinality(Of(running, a) \cup {new}) = Cardinality(Of(running, a)) + 1
        BY <3>2, <4>1, FS_AddElement
      <4> QED
        BY <3>2, <4>2, FS_CardinalityType
    <3>6. /\ Cardinality(Of(running, a)) \in Nat /\ Cardinality(Of(counted, a)) \in Nat
          /\ Cardinality(Of(running, a) \cup {new}) \in Nat
          /\ MaxConcurrentPerAgency \in Nat
      BY <3>2, FS_CardinalityType, FS_AddElement, RunnerAssumption
    <3> HIDE DEF Of, new
    <3> QED
      BY <3>1, <3>3, <3>4, <3>5, <3>6
  <2> QED
    BY <2>1, <2>2
<1>5. ASSUME NEW s \in running \cup {new}, NEW q \in running \cup {new},
             host[s] = host[q]
      PROVE  s = q
  <2>1. \A r \in running : host[r] # host[new]
    BY <1>1 DEF Allowed, HostsCounted
  <2> QED
    BY <1>1, <1>5, <2>1, JobCardinality DEF LimitsHold, Job!WithinLimits
<1> QED
  BY <1>2, <1>3, <1>4, <1>5, JobCardinality DEF LimitsHold, Job!WithinLimits, Job!OfAgency

\* Fewer scans are within the limits when more were.
LEMMA LimitsShrink ==
  ASSUME Discipline, LimitsHold, InFlight' \subseteq InFlight,
         \A s \in InFlight : agency'[s] = agency[s] /\ host'[s] = host[s]
  PROVE  LimitsHold'
<1> DEFINE S == InFlight
           T == InFlight'
           Of(a) == {s \in S : agency[s] = a}
           OfNow(a) == {s \in T : agency'[s] = a}
<1>1. IsFiniteSet(S) /\ T \in SUBSET S
  BY DEF Discipline, Finite, PumpDiscipline, RunningIsInFlight
<1>2. Cardinality(T) <= MaxConcurrent
  <2>1. Cardinality(T) <= Cardinality(S) /\ IsFiniteSet(T)
    BY <1>1, FS_Subset
  <2>2. Cardinality(S) <= MaxConcurrent
    BY JobCardinality DEF LimitsHold, Job!WithinLimits
  <2>3. Cardinality(S) \in Nat /\ Cardinality(T) \in Nat /\ MaxConcurrent \in Nat
    BY <1>1, <2>1, FS_CardinalityType, RunnerAssumption
  <2> HIDE DEF S, T
  <2> QED
    BY <2>1, <2>2, <2>3
<1>3. ASSUME NEW a \in Agency
      PROVE  Cardinality(OfNow(a)) <= MaxConcurrentPerAgency
  <2>1. IsFiniteSet(Of(a)) /\ OfNow(a) \in SUBSET Of(a)
    BY <1>1, FS_Subset
  <2>2. Cardinality(OfNow(a)) <= Cardinality(Of(a)) /\ IsFiniteSet(OfNow(a))
    BY <2>1, FS_Subset
  <2>3. Cardinality(Of(a)) <= MaxConcurrentPerAgency
    BY JobCardinality DEF LimitsHold, Job!WithinLimits, Job!OfAgency
  <2>4. /\ Cardinality(Of(a)) \in Nat /\ Cardinality(OfNow(a)) \in Nat
        /\ MaxConcurrentPerAgency \in Nat
    BY <2>1, <2>2, FS_CardinalityType, RunnerAssumption
  <2> HIDE DEF Of, OfNow
  <2> QED
    BY <2>2, <2>3, <2>4
<1>4. \A s, q \in T : host'[s] = host'[q] => s = q
  BY <1>1, JobCardinality DEF LimitsHold, Job!WithinLimits
<1> QED
  BY <1>2, <1>3, <1>4, JobCardinality DEF LimitsHold, Job!WithinLimits, Job!OfAgency

LEMMA LimitsKept ==
  ASSUME Discipline, LimitsHold, [Next]_vars
  PROVE  LimitsHold'
  BY FlightSteps, LaunchWithinLimits, LimitsShrink

\* No two pumps, and no pump with a worker that ends or a thread that does
\* not start, ever execute one scan too many.
THEOREM LimitsAlwaysHold == Spec => []LimitsHold
<1>1. Init => LimitsHold
  <2> SUFFICES ASSUME Init
               PROVE  LimitsHold
    OBVIOUS
  <2>1. InFlight = {}
    BY DEF Init, InFlight, InScan, Thread
  <2>2. \A a \in Agency : {s \in {} : agency[s] = a} = {}
    OBVIOUS
  <2> QED
    BY <2>1, <2>2, FS_EmptySet, RunnerAssumption, JobCardinality
    DEF LimitsHold, Job!WithinLimits, Job!OfAgency
<1>2. Discipline /\ LimitsHold /\ [Next]_vars => LimitsHold'
  BY LimitsKept
<1> QED
  BY <1>1, <1>2, DisciplineHolds, PTL DEF Spec

(***************************************************************************)
(* The rows: their outcome, their reports, the bound on the queue.         *)
(***************************************************************************)
\* Which transaction on the table a step is, if any.
LEMMA TableSteps ==
  ASSUME Discipline, [Next]_vars
  PROVE  \/ UNCHANGED tableVars
         \/ \E s \in Scan, a \in Agency, h \in Host : InsertScan(s, a, h)
         \/ \E s \in Scan : MarkRunning(s) \/ FinishScan(s)
                            \/ FailScan(s, "scan_error")
         \/ RecoverInterrupted
<1>1. CASE UNCHANGED vars
  BY <1>1 DEF vars, tableVars
<1>2. CASE Process
  BY <1>2 DEF Process, Start, Recover, Stop, StartFails, Close, tableVars
<1>3. CASE \E r \in Request : CreateScan(r) \/ ReplayScan(r)
  BY <1>3 DEF CreateScan, ReplayScan
<1>4. CASE \E t \in Thread : Pump(t)
  BY <1>4
  DEF Pump, EnterPump, PumpClosed, Snapshot, ChooseScan, Candidates, Launch,
      LaunchFails, Undo, EndPump, PumpBreaks, Discipline, TypeOK, PumpDiscipline,
      SlotKept
<1>5. CASE \E s \in Scan : Work(s)
  BY <1>5
  DEF Work, RunScan, WriteReport, FinishRow, WorkBreaks, FailRow, FailBreaks,
      PopRunning
<1>6. CASE \E w \in Waiter : Wait(w)
  BY <1>6
  DEF Wait, WaitBegin, WaitLook, WaitGivesUp, WaitCountQueued, WaitCountRunning,
      WaitStep
<1> QED
  BY <1>1, <1>2, <1>3, <1>4, <1>5, <1>6 DEF Next

\* No late worker, recovery or pump rewrites the outcome of a scan, and none
\* puts a scan back in the queue.
THEOREM OutcomesFinal == Spec => OutcomeFinal
<1> DEFINE Final ==
      \A s \in Scan :
        /\ status[s] \in {"completed", "failed"} =>
             status'[s] = status[s] /\ error'[s] = error[s]
        /\ status[s] # "none" => status'[s] # "queued" \/ status[s] = "queued"
<1>1. ASSUME Discipline, [Next]_vars
      PROVE  Final
  <2>1. TableTypeOK
    BY <1>1 DEF Discipline, TypeOK
  <2>2. CASE UNCHANGED tableVars
    BY <2>2 DEF tableVars
  <2>3. CASE \E s \in Scan, a \in Agency, h \in Host : InsertScan(s, a, h)
    BY <2>1, <2>3 DEF InsertScan, TableTypeOK
  <2>4. CASE \E s \in Scan : MarkRunning(s) \/ FinishScan(s)
    BY <2>1, <2>4 DEF MarkRunning, FinishScan, TableTypeOK
  <2>5. CASE \E s \in Scan : FailScan(s, "scan_error")
    BY <2>1, <2>5 DEF FailScan, TableTypeOK
  <2>6. CASE RecoverInterrupted
    BY <2>1, <2>6 DEF RecoverInterrupted, TableTypeOK
  <2> QED
    BY <1>1, <2>2, <2>3, <2>4, <2>5, <2>6, TableSteps
<1>2. Discipline /\ [Next]_vars => Final
  BY <1>1
<1>3. Discipline /\ [Next]_vars => [Final]_vars
  BY <1>2
<1>4. Spec => [][Final]_vars
  BY <1>3, DisciplineHolds, PTL DEF Spec
<1> QED
  BY <1>4 DEF OutcomeFinal

\* The queue grows only in the transaction that has just counted it.
LEMMA QueueSteps ==
  ASSUME Discipline, [Next]_vars
  PROVE  \/ \E s \in Scan, a \in Agency, h \in Host : InsertScan(s, a, h)
         \/ /\ UNCHANGED agency
            /\ \A s \in Scan : status'[s] = "queued" => status[s] = "queued"
  BY TableSteps
  DEF Discipline, TypeOK, TableTypeOK, tableVars, MarkRunning, FinishScan, FailScan,
      RecoverInterrupted

\* Counting one more element of a set that had room for it.
LEMMA RoomForOne ==
  ASSUME NEW S, NEW x, IsFiniteSet(S), NEW max \in Nat, Cardinality(S) < max
  PROVE  IsFiniteSet(S \cup {x}) /\ Cardinality(S \cup {x}) <= max
<1>1. Cardinality(S) \in Nat
  BY FS_CardinalityType
<1>2. /\ IsFiniteSet(S \cup {x})
      /\ \/ Cardinality(S \cup {x}) = Cardinality(S)
         \/ Cardinality(S \cup {x}) = Cardinality(S) + 1
  BY FS_AddElement, Zenon
<1> QED
  BY <1>1, <1>2

\* A set that lost elements stays below its bound.
LEMMA StillBounded ==
  ASSUME NEW S, IsFiniteSet(S), NEW T, T \subseteq S, NEW max \in Nat,
         Cardinality(S) <= max
  PROVE  IsFiniteSet(T) /\ Cardinality(T) <= max
<1>1. T \in SUBSET S
  OBVIOUS
<1>2. IsFiniteSet(T) /\ Cardinality(T) <= Cardinality(S)
  BY <1>1, FS_Subset
<1>3. Cardinality(S) \in Nat /\ Cardinality(T) \in Nat
  BY <1>2, FS_CardinalityType
<1> QED
  BY <1>2, <1>3

QueueInv == QueueBounded /\ IsFiniteSet(Rows("queued"))

LEMMA QueueKept ==
  ASSUME Discipline, QueueInv, [Next]_vars
  PROVE  QueueInv'
<1>1. /\ MaxQueued \in Nat /\ MaxQueuedPerAgency \in Nat
      /\ status \in [Scan -> Status] /\ agency \in [Scan -> Agency \cup {None}]
  BY TableAssumption DEF Discipline, TypeOK, TableTypeOK
<1>2. \A a \in Agency : IsFiniteSet(QueuedOf(a))
  <2>1. \A a \in Agency : QueuedOf(a) \in SUBSET Rows("queued")
    BY DEF QueuedOf
  <2> QED
    BY <2>1, FS_Subset DEF QueueInv
<1>3. ASSUME NEW s \in Scan, NEW a \in Agency, NEW h \in Host, InsertScan(s, a, h)
      PROVE  QueueInv'
  <2>1. Rows("queued")' = Rows("queued") \cup {s}
    BY <1>1, <1>3 DEF InsertScan, Rows
  <2>2. IsFiniteSet(Rows("queued")') /\ Cardinality(Rows("queued")') <= MaxQueued
    BY <1>1, <1>3, <2>1, RoomForOne DEF InsertScan, QueueHasRoom, QueueInv
  <2>3. ASSUME NEW b \in Agency
        PROVE  Cardinality(QueuedOf(b)') <= MaxQueuedPerAgency
    <3>1. CASE b = a
      <4>1. QueuedOf(b)' = QueuedOf(b) \cup {s}
        BY <1>1, <1>3, <2>1, <3>1 DEF InsertScan, QueuedOf, Rows
      <4>2. Cardinality(QueuedOf(b)) < MaxQueuedPerAgency
        BY <1>3, <3>1 DEF InsertScan, QueueHasRoom
      <4> QED
        BY <1>1, <1>2, <4>1, <4>2, RoomForOne
    <3>2. CASE b # a
      <4>1. QueuedOf(b)' = QueuedOf(b)
        BY <1>1, <1>3, <2>1, <3>2 DEF InsertScan, QueuedOf, Rows
      <4> QED
        BY <4>1 DEF QueueInv, QueueBounded
    <3> QED
      BY <3>1, <3>2
  <2> QED
    BY <2>2, <2>3 DEF QueueInv, QueueBounded
<1>4. CASE /\ UNCHANGED agency
           /\ \A s \in Scan : status'[s] = "queued" => status[s] = "queued"
  <2>1. Rows("queued")' \subseteq Rows("queued")
    BY <1>4 DEF Rows
  <2>2. \A a \in Agency : QueuedOf(a)' \subseteq QueuedOf(a)
    BY <1>4, <2>1 DEF QueuedOf
  <2>3. IsFiniteSet(Rows("queued")') /\ Cardinality(Rows("queued")') <= MaxQueued
    BY <1>1, <2>1, StillBounded DEF QueueInv, QueueBounded
  <2>4. \A a \in Agency : Cardinality(QueuedOf(a)') <= MaxQueuedPerAgency
    BY <1>1, <1>2, <2>2, StillBounded DEF QueueInv, QueueBounded
  <2> QED
    BY <2>3, <2>4 DEF QueueInv, QueueBounded
<1> QED
  BY <1>3, <1>4, QueueSteps

LEMMA QueueStart == Init => QueueInv
<1> SUFFICES ASSUME Init
             PROVE  QueueInv
  OBVIOUS
<1>1. Rows("queued") = {}
  BY DEF Init, TableInit, Rows
<1>2. \A a \in Agency : QueuedOf(a) = {}
  BY <1>1 DEF QueuedOf
<1> QED
  BY <1>1, <1>2, FS_EmptySet, TableAssumption DEF QueueInv, QueueBounded

\* The queue stays within its bounds, for every order of requests.
THEOREM QueueAlwaysBounded == Spec => []QueueBounded
<1>1. Init => QueueInv
  BY QueueStart
<1>2. Discipline /\ QueueInv /\ [Next]_vars => QueueInv'
  BY QueueKept
<1>3. QueueInv => QueueBounded
  BY DEF QueueInv
<1> QED
  BY <1>1, <1>2, <1>3, DisciplineHolds, PTL DEF Spec

(***************************************************************************)
(* No row left running.                                                    *)
(***************************************************************************)
\* Once recovery is over a row says running only for a worker at work or for the
\* scan that a pump starts or gives up, and a worker about to leave has settled its
\* row.
Recovered == stage = "serving" \/ (stage = "starting" /\ pc[Main] # "recover")
InHand(s) == s = starting /\ \E t \in Thread : pc[t] \in {"launch", "undo"}
OwnedInv ==
  /\ Recovered => \A s \in Rows("running") : s \in InFlight \/ InHand(s)
  /\ \A s \in Scan : pc[s] = "pop" => status[s] # "running"

LEMMA OwnedKept ==
  ASSUME Discipline, Discipline', OwnedInv, [Next]_vars,
         "fail" \notin Faults, "pump" \notin Faults
  PROVE  OwnedInv'
<1> USE RunnerAssumption
    DEF Discipline, TypeOK, TableTypeOK, PumpDiscipline, Exclusive, SlotKept,
        StartsAlone, WorkersClaimed, OwnedInv, InHand, Recovered, Rows, InFlight, InScan,
        InPump, Thread, Stage, Goto, memoryVars, pumpVars, tableVars
<1>1. CASE UNCHANGED vars
  BY <1>1 DEF vars
<1>2. CASE Process
  <2>1. CASE Start
    BY <1>2, <2>1 DEF Start
  <2>2. CASE Recover
    BY <2>2 DEF Recover, RecoverInterrupted, Status
  <2>3. CASE Stop \/ StartFails
    BY <2>3 DEF Stop, StartFails, Forget
  <2>4. CASE Close
    BY <2>4 DEF Close
  <2> QED
    BY <1>2, <2>1, <2>2, <2>3, <2>4 DEF Process
<1>3. ASSUME NEW r \in Request, CreateScan(r) \/ ReplayScan(r)
      PROVE  OwnedInv'
  <2>1. CASE CreateScan(r)
    BY <2>1 DEF CreateScan, InsertScan
  <2>2. CASE ReplayScan(r)
    BY <2>2 DEF ReplayScan
  <2> QED
    BY <1>3, <2>1, <2>2
<1>4. ASSUME NEW t \in Thread, Pump(t)
      PROVE  OwnedInv'
  <2>1. CASE EnterPump(t)
    BY <2>1 DEF EnterPump
  <2>2. CASE PumpClosed(t)
    BY <2>2 DEF PumpClosed, LeavePump
  <2>3. CASE Snapshot(t)
    BY <2>3 DEF Snapshot
  <2>4. CASE ChooseScan(t)
    <3>1. PICK s \in Scan :
            /\ MarkRunning(s)
            /\ starting' = IF status[s] = "queued" THEN s ELSE starting
            /\ Goto(t, IF status[s] = "queued" THEN "launch" ELSE "choose")
      BY <2>4 DEF ChooseScan, Candidates
    <3>2. \A q \in Scan : ~InHand(q)
      BY <2>4 DEF ChooseScan
    <3>3. CASE status[s] = "queued"
      <4>1. /\ status' = [status EXCEPT ![s] = "running"] /\ starting' = s
            /\ pc' = [pc EXCEPT ![t] = "launch"] /\ UNCHANGED stage
            /\ pc[t] = "choose" /\ pc[s] = "off"
        BY <2>4, <3>1, <3>3 DEF ChooseScan, MarkRunning
      <4>2. InFlight' = InFlight
        BY <4>1
      <4>3. ASSUME Recovered', NEW q \in Rows("running")'
            PROVE  q \in InFlight' \/ InHand(q)'
        <5>1. Recovered
          BY <4>1, <4>3
        <5>2. q = s \/ q \in Rows("running")
          BY <4>1, <4>3
        <5> QED
          BY <3>2, <4>1, <4>2, <5>1, <5>2
      <4> QED
        BY <4>1, <4>3
    <3>4. CASE status[s] # "queued"
      <4>1. UNCHANGED <<status, starting, pc, stage>>
        BY <2>4, <3>1, <3>4 DEF ChooseScan, MarkRunning
      <4> QED
        BY <4>1
    <3> QED
      BY <3>3, <3>4
  <2>5. CASE Launch(t)
    BY <2>5 DEF Launch
  <2>6. CASE LaunchFails(t)
    BY <2>6 DEF LaunchFails
  <2>7. CASE Undo(t)
    BY <2>7 DEF Undo, FailScan
  <2>8. CASE EndPump(t)
    <3>1. \A q \in Scan : ~InHand(q)
      BY <2>8 DEF EndPump
    <3> QED
      BY <2>8, <3>1 DEF EndPump, ResetPump, LeavePump
  <2> QED
    BY <1>4, <2>1, <2>2, <2>3, <2>4, <2>5, <2>6, <2>7, <2>8 DEF Pump, PumpBreaks
<1>5. ASSUME NEW s \in Scan, Work(s)
      PROVE  OwnedInv'
  <2>1. CASE RunScan(s) \/ WriteReport(s) \/ WorkBreaks(s)
    BY <2>1 DEF RunScan, WriteReport, WorkBreaks, WorkStep
  <2>2. CASE FinishRow(s)
    BY <2>2 DEF FinishRow, FinishScan, WorkStep
  <2>3. CASE FailRow(s)
    BY <2>3 DEF FailRow, FailScan, WorkStep
  <2>4. CASE PopRunning(s)
    BY <2>4 DEF PopRunning
  <2> QED
    BY <1>5, <2>1, <2>2, <2>3, <2>4 DEF Work, FailBreaks
<1>6. ASSUME NEW w \in Waiter, Wait(w)
      PROVE  OwnedInv'
  BY <1>6 DEF Wait, WaitBegin, WaitLook, WaitGivesUp, WaitCountQueued,
              WaitCountRunning, WaitStep
<1> QED
  BY <1>1, <1>2, <1>3, <1>4, <1>5, <1>6 DEF Next

\* As long as fail_scan and the queries of a pump do not fail, a row says running
\* only while a thread is at work on it or about to be.
THEOREM RunningAlwaysOwned ==
  ASSUME "fail" \notin Faults, "pump" \notin Faults
  PROVE  Spec => []RunningIsOwned
<1>1. Init => OwnedInv
  BY RunnerAssumption
  DEF Init, TableInit, OwnedInv, Recovered, Rows, Thread
<1>2. Discipline /\ Discipline' /\ OwnedInv /\ [Next]_vars => OwnedInv'
  BY OwnedKept
<1>3. OwnedInv => RunningIsOwned
  BY DEF OwnedInv, InHand, Recovered, RunningIsOwned
<1> QED
  BY <1>1, <1>2, <1>3, DisciplineHolds, PTL DEF Spec

(***************************************************************************)
(* No wake-up lost.                                                        *)
(***************************************************************************)
\* Nobody is about to pump.
Calm == \A t \in Thread : pc[t] \notin {"pump", "pop"}

\* A pump counts what runs and nothing else.  While nobody is about to pump, what
\* a pump in progress has passed over cannot be started, and when there is no pump
\* either nothing can.
WakeInv ==
  /\ \A t \in Thread : pc[t] # "undo"
  /\ lock # Free => counted = running
  /\ (stage # "down" /\ ~closed /\ pc[Main] # "recover" /\ Calm /\ lock = Free)
       => \A s \in Scan : ~Startable(s)
  /\ \A t \in Thread : (pc[t] \in {"choose", "launch"} /\ Calm)
       => \A s \in Scan \ todo : ~Startable(s)

\* What cannot be started cannot be started while more runs.
LEMMA StaysBlocked ==
  ASSUME Discipline, Discipline', running \subseteq running',
         UNCHANGED <<agency, host>>,
         NEW s \in Scan, status'[s] = "queued" => status[s] = "queued",
         ~Startable(s)
  PROVE  ~Startable(s)'
<1> DEFINE Same(q) == agency[q] = agency[s]
           mine == {q \in running : agency[q] = agency[s]}
           ours == {q \in running' : agency[q] = agency[s]}
<1>1. /\ IsFiniteSet(running) /\ IsFiniteSet(running')
      /\ MaxConcurrent \in Nat /\ MaxConcurrentPerAgency \in Nat
  BY RunnerAssumption DEF Discipline, Finite
<1>2. /\ Cardinality(running) <= Cardinality(running')
      /\ Cardinality(running) \in Nat /\ Cardinality(running') \in Nat
  BY <1>1, FS_Subset, FS_CardinalityType
<1>3. /\ IsFiniteSet(ours) /\ ours \subseteq running'
      /\ mine \subseteq ours
  BY <1>1, FS_Subset
<1>4. /\ Cardinality(mine) <= Cardinality(ours)
      /\ Cardinality(mine) \in Nat /\ Cardinality(ours) \in Nat
  BY <1>3, FS_Subset, FS_CardinalityType
<1> QED
  BY <1>1, <1>2, <1>4 DEF Startable

\* A pump passes over a queued scan only when it cannot be started.
LEMMA PassedOver ==
  ASSUME Discipline, counted = running, HasSlot, NEW s \in Scan, ~Allowed(s)
  PROVE  ~Startable(s)
<1>1. s \in running => status[s] # "queued"
  BY DEF Discipline, PumpDiscipline, RunningIsInFlight, InFlight, InScan, WorkersClaimed
<1> QED
  BY <1>1 DEF Allowed, AgencyCount, HostsCounted, Startable

\* The snapshot of a pump is the whole queue.
LEMMA SnapshotWhole ==
  ASSUME Discipline, QueueInv, MaxQueued <= SnapshotLimit
  PROVE  QueuedScans = Rows("queued")
<1>1. ASSUME NEW s \in Rows("queued")
      PROVE  Cardinality({q \in Rows("queued") : q < s}) < SnapshotLimit
  <2> DEFINE before == {q \in Rows("queued") : q < s}
  <2>1. s \in Nat
    BY TableAssumption DEF Rows
  <2>2. before \in SUBSET Rows("queued") /\ before # Rows("queued")
    BY <2>1
  <2>3. /\ IsFiniteSet(Rows("queued")) /\ IsFiniteSet(before)
        /\ Cardinality(before) <= Cardinality(Rows("queued"))
        /\ Cardinality(before) # Cardinality(Rows("queued"))
    <3> HIDE DEF before
    <3> QED
      BY <2>2, FS_Subset DEF QueueInv
  <2>4. Cardinality(before) \in Nat /\ Cardinality(Rows("queued")) \in Nat
    BY <2>3, FS_CardinalityType
  <2> QED
    BY <2>3, <2>4, TableAssumption DEF QueueInv, QueueBounded
<1> QED
  BY <1>1 DEF QueuedScans

LEMMA WakeKeptByPump ==
  ASSUME Discipline, Discipline', QueueInv, WakeInv, NEW t \in Thread, Pump(t),
         "thread" \notin Faults, "pump" \notin Faults, MaxQueued <= SnapshotLimit
  PROVE  WakeInv'
<1> USE RunnerAssumption
    DEF Discipline, TypeOK, PumpDiscipline, Exclusive, InPump, Goto, tableVars, Calm
<1>1. CASE EnterPump(t)
  BY <1>1 DEF EnterPump, WakeInv
<1>2. CASE PumpClosed(t)
  BY <1>2 DEF PumpClosed, LeavePump, WakeInv, memoryVars, pumpVars
<1>3. CASE Snapshot(t)
  <2>1. \A s \in Scan \ todo' : ~Startable(s)'
    BY <1>3, SnapshotWhole DEF Snapshot, Startable, Rows
  <2> QED
    BY <1>3, <2>1 DEF Snapshot, WakeInv
<1>4. CASE ChooseScan(t)
  <2>1. PICK c \in Candidates :
          /\ \A q \in Candidates : c <= q
          /\ MarkRunning(c)
          /\ todo' = {q \in todo : q > c}
          /\ Goto(t, IF status[c] = "queued" THEN "launch" ELSE "choose")
    BY <1>4 DEF ChooseScan
  <2>2. /\ pc[t] = "choose" /\ lock = t /\ counted = running /\ HasSlot
        /\ UNCHANGED <<stage, closed, lock, running, counted, agency, host>>
        /\ c \in Scan /\ todo \subseteq Scan
    BY <1>4, <2>1 DEF ChooseScan, WakeInv, MarkRunning, Candidates
  <2>3. ASSUME Calm, NEW s \in Scan \ todo'
        PROVE  ~Startable(s)'
    <3>1. status'[s] = "queued" => status[s] = "queued" /\ s # c
      BY <2>1, <2>2 DEF MarkRunning, TableTypeOK
    <3>2. CASE s \notin todo
      <4>1. ~Startable(s)
        BY <2>2, <2>3, <3>2 DEF WakeInv
      <4> QED
        BY <2>2, <3>1, <4>1, StaysBlocked
    <3>3. CASE s \in todo /\ s # c
      <4>1. s \notin Candidates
        BY <2>1, <2>2, <2>3, <3>3, TableAssumption
      <4>2. ~Startable(s)
        BY <2>2, <3>3, <4>1, PassedOver DEF Candidates
      <4> QED
        BY <2>2, <3>1, <4>2, StaysBlocked
    <3>4. CASE s = c
      BY <3>1, <3>4 DEF Startable
    <3> QED
      BY <3>2, <3>3, <3>4
  <2>4. Calm' => Calm
    BY <2>1, <2>2
  <2> QED
    BY <2>1, <2>2, <2>3, <2>4 DEF WakeInv
<1>5. CASE Launch(t)
  <2>1. /\ pc[t] = "launch" /\ lock = t /\ counted = running
        /\ running' = running \cup {starting} /\ counted' = running'
        /\ UNCHANGED <<stage, closed, lock, todo, tableVars>>
        /\ pc' = [pc EXCEPT ![t] = "choose", ![starting] = "scan"]
        /\ starting \in Scan /\ pc[starting] = "off"
    BY <1>5 DEF Launch, WakeInv, SlotKept
  <2>2. Calm' => Calm
    BY <2>1
  <2>3. Calm => \A s \in Scan \ todo : ~Startable(s)'
    BY <2>1, StaysBlocked DEF WakeInv
  <2> QED
    BY <2>1, <2>2, <2>3, Zenon DEF WakeInv
<1>6. CASE EndPump(t)
  <2>1. /\ pc[t] = "choose" /\ lock = t /\ counted = running
        /\ UNCHANGED <<tableVars, running>>
        /\ pc' = [pc EXCEPT ![t] = "off"] /\ lock' = Free
    BY <1>6 DEF EndPump, ResetPump, LeavePump, WakeInv
  <2>2. Calm' => Calm
    BY <2>1
  <2>3. ASSUME Calm, NEW s \in Scan
        PROVE  ~Startable(s)
    <3>1. CASE ~HasSlot
      BY <3>1 DEF HasSlot, Startable
    <3>2. CASE HasSlot /\ s \in todo
      <4>1. ~Allowed(s)
        BY <1>6, <3>2 DEF EndPump, Candidates
      <4> QED
        BY <2>1, <3>2, <4>1, PassedOver
    <3>3. CASE s \notin todo
      BY <2>1, <2>3, <3>3 DEF WakeInv
    <3> QED
      BY <3>1, <3>2, <3>3
  <2>4. \A s \in Scan : Startable(s)' = Startable(s)
    BY <2>1 DEF Startable
  <2> QED
    BY <2>1, <2>2, <2>3, <2>4 DEF WakeInv
<1> QED
  BY <1>1, <1>2, <1>3, <1>4, <1>5, <1>6
  DEF Pump, LaunchFails, Undo, PumpBreaks, WakeInv

LEMMA WakeKept ==
  ASSUME Discipline, Discipline', QueueInv, WakeInv, [Next]_vars,
         "thread" \notin Faults, "pump" \notin Faults, MaxQueued <= SnapshotLimit
  PROVE  WakeInv'
<1> USE RunnerAssumption
    DEF Discipline, TypeOK, PumpDiscipline, Exclusive, StartsAlone, InPump, InScan,
        Thread, Goto, memoryVars, pumpVars, tableVars, Calm, WakeInv
<1>1. CASE UNCHANGED vars
  BY <1>1 DEF vars, Startable
<1>2. CASE Process
  <2>1. CASE Start
    BY <2>1 DEF Start
  <2>2. CASE Recover
    BY <2>2 DEF Recover
  <2>3. CASE Stop \/ StartFails
    BY <2>3 DEF Stop, StartFails, Forget
  <2>4. CASE Close
    BY <2>4 DEF Close
  <2> QED
    BY <1>2, <2>1, <2>2, <2>3, <2>4 DEF Process
<1>3. ASSUME NEW r \in Request, CreateScan(r) \/ ReplayScan(r)
      PROVE  WakeInv'
  BY <1>3 DEF CreateScan, ReplayScan
<1>4. ASSUME NEW t \in Thread, Pump(t)
      PROVE  WakeInv'
  BY <1>4, WakeKeptByPump
<1>5. ASSUME NEW s \in Scan, Work(s)
      PROVE  WakeInv'
  <2>1. CASE PopRunning(s)
    BY <2>1 DEF PopRunning
  <2>2. CASE ~PopRunning(s)
    <3>1. PICK to \in InScan :
            /\ pc[s] \in InScan \ {"pop"} /\ Goto(s, to)
            /\ UNCHANGED <<stage, memoryVars, agency, host>>
            /\ \A q \in Scan : status'[q] = "queued" => status[q] = "queued"
      BY <1>5, <2>2
      DEF Work, RunScan, WriteReport, FinishRow, WorkBreaks, FailRow, FailBreaks,
          WorkStep, FinishScan, FailScan, TableTypeOK
    <3>2. \A q \in Scan : ~Startable(q) => ~Startable(q)'
      BY <3>1, StaysBlocked
    <3>3. Calm' => Calm
      BY <3>1
    <3> QED
      BY <3>1, <3>2, <3>3
  <2> QED
    BY <2>1, <2>2
<1>6. ASSUME NEW w \in Waiter, Wait(w)
      PROVE  WakeInv'
  <2>1. /\ UNCHANGED <<tableVars, stage, memoryVars>>
        /\ \E at \in {"off", "look", "count_queued", "count_running"},
              to \in {"off", "look", "count_queued", "count_running"} :
              pc[w] = at /\ Goto(w, to)
    BY <1>6 DEF Wait, WaitStep, WaitBegin, WaitLook, WaitGivesUp, WaitCountQueued,
                WaitCountRunning
  <2>2. \A s \in Scan : Startable(s)' = Startable(s)
    BY <2>1 DEF Startable
  <2> QED
    BY <2>1, <2>2
<1> QED
  BY <1>1, <1>2, <1>3, <1>4, <1>5, <1>6 DEF Next

\* As long as threads start and the queries of a pump do not fail, and a snapshot
\* shows the whole queue, every scan the limits allow has been started when no
\* thread pumps or is about to.
THEOREM WorkAlwaysConserved ==
  ASSUME "thread" \notin Faults, "pump" \notin Faults, MaxQueued <= SnapshotLimit
  PROVE  Spec => []WorkConserving
<1>1. Init => WakeInv /\ QueueInv
  <2> SUFFICES ASSUME Init
               PROVE  WakeInv /\ QueueInv
    OBVIOUS
  <2>1. QueueInv
    BY QueueStart
  <2> QED
    BY <2>1, RunnerAssumption DEF Init, WakeInv, Thread
<1>2. Discipline /\ Discipline' /\ QueueInv /\ WakeInv /\ [Next]_vars
        => WakeInv' /\ QueueInv'
  BY WakeKept, QueueKept
<1>3. Discipline /\ WakeInv => WorkConserving
  BY RunnerAssumption
  DEF WakeInv, WorkConserving, Calm, Discipline, TypeOK, PumpDiscipline, Exclusive,
      StartsAlone, Thread
<1> QED
  BY <1>1, <1>2, <1>3, DisciplineHolds, PTL DEF Spec

(***************************************************************************)
(* wait_idle.                                                              *)
(***************************************************************************)
\* A caller that has seen an empty queue and then looks at what runs is right
\* about the queue as long as nothing was queued since it began.
IdleInv ==
  \A w \in Waiter : (pc[w] = "count_running" /\ ~arrived) => Rows("queued") = {}

LEMMA IdleKept ==
  ASSUME Discipline, IdleInv, [Next]_vars, \A u, w \in Waiter : u = w
  PROVE  IdleInv'
<1> USE RunnerAssumption
    DEF Discipline, TypeOK, TableTypeOK, IdleInv, Rows, Thread, Goto, tableVars
<1>1. ASSUME NEW r \in Request, CreateScan(r)
      PROVE  IdleInv'
  BY <1>1 DEF CreateScan, Waiting
<1>2. ASSUME UNCHANGED arrived,
             \A s \in Scan : status'[s] = "queued" => status[s] = "queued",
             \A w \in Waiter : pc'[w] = "count_running" => pc[w] = "count_running"
      PROVE  IdleInv'
  BY <1>2
<1>3. CASE Process
  <2>1. CASE Start \/ Recover \/ Close
    BY <1>2, <2>1 DEF Start, Recover, Close, RecoverInterrupted
  <2>2. CASE Stop \/ StartFails
    BY <2>2 DEF Stop, StartFails, Forget
  <2> QED
    BY <1>3, <2>1, <2>2 DEF Process
<1>4. ASSUME NEW r \in Request, ReplayScan(r)
      PROVE  IdleInv'
  BY <1>2, <1>4 DEF ReplayScan
<1>5. ASSUME NEW t \in Thread, Pump(t)
      PROVE  IdleInv'
  <2>1. CASE EnterPump(t) \/ PumpClosed(t) \/ Snapshot(t) \/ LaunchFails(t)
    BY <1>2, <2>1 DEF EnterPump, PumpClosed, Snapshot, LaunchFails, LeavePump
  <2>2. CASE ChooseScan(t)
    BY <1>2, <2>2 DEF ChooseScan, MarkRunning
  <2>3. CASE Launch(t)
    BY <1>2, <2>3 DEF Launch
  <2>4. CASE Undo(t)
    BY <1>2, <2>4 DEF Undo, FailScan
  <2>5. CASE EndPump(t)
    BY <1>2, <2>5 DEF EndPump, LeavePump
  <2>6. CASE PumpBreaks(t)
    BY <1>2, <2>6 DEF PumpBreaks, Forget
  <2> QED
    BY <1>5, <2>1, <2>2, <2>3, <2>4, <2>5, <2>6 DEF Pump
<1>6. ASSUME NEW s \in Scan, Work(s)
      PROVE  IdleInv'
  BY <1>2, <1>6
  DEF Work, RunScan, WriteReport, FinishRow, WorkBreaks, FailRow, FailBreaks,
      PopRunning, WorkStep, FinishScan, FailScan
<1>7. ASSUME NEW w \in Waiter, Wait(w)
      PROVE  IdleInv'
  BY <1>7 DEF Wait, WaitBegin, WaitLook, WaitGivesUp, WaitCountQueued,
              WaitCountRunning, WaitStep
<1>8. CASE UNCHANGED vars
  BY <1>8 DEF vars
<1> QED
  BY <1>1, <1>3, <1>4, <1>5, <1>6, <1>7, <1>8 DEF Next

\* With one caller at a time (the history is kept for one), wait_idle returns True
\* only when nothing is queued or running, or something was queued meanwhile.
THEOREM IdleAlwaysMeansIdle ==
  ASSUME \A u, w \in Waiter : u = w
  PROVE  Spec => IdleMeansIdle
<1> DEFINE Idle == \A w \in Waiter :
             pc[w] = "count_running" /\ pc'[w] = "off" /\ stage' = stage =>
               arrived \/ Rows("queued") \cup Rows("running") = {}
<1>1. Init => IdleInv
  BY RunnerAssumption DEF Init, IdleInv, Thread
<1>2. Discipline /\ IdleInv /\ [Next]_vars => IdleInv'
  BY IdleKept
<1>3. ASSUME Discipline, IdleInv, [Next]_vars, NEW w \in Waiter,
             pc[w] = "count_running", pc'[w] = "off", stage' = stage
      PROVE  arrived \/ Rows("queued") \cup Rows("running") = {}
  <2> USE RunnerAssumption
      DEF Discipline, TypeOK, PumpDiscipline, StartsAlone, InPump, Thread, Goto
  <2>1. ~Process
    BY <1>3 DEF Process, Start, Recover, Stop, StartFails, Forget, Close
  <2>2. ASSUME NEW r \in Request
        PROVE  ~CreateScan(r) /\ ~ReplayScan(r)
    BY <1>3 DEF CreateScan, ReplayScan
  <2>3. ASSUME NEW t \in Thread, Pump(t)
        PROVE  FALSE
    <3>1. CASE PumpBreaks(t)
      BY <1>3, <3>1 DEF PumpBreaks, Forget
    <3>2. CASE ChooseScan(t)
      BY <1>3, <3>2 DEF ChooseScan
    <3> QED
      BY <1>3, <2>3, <3>1, <3>2
      DEF Pump, EnterPump, PumpClosed, Snapshot, Launch, LaunchFails, Undo, EndPump,
          LeavePump
  <2>4. ASSUME NEW s \in Scan, Work(s)
        PROVE  FALSE
    BY <1>3, <2>4
    DEF Work, RunScan, WriteReport, FinishRow, WorkBreaks, FailRow, FailBreaks,
        PopRunning, WorkStep
  <2>5. PICK u \in Waiter : Wait(u)
    BY <1>3, <2>1, <2>2, <2>3, <2>4 DEF Next, vars
  <2>6. u = w /\ Rows("running") = {}
    BY <1>3, <2>5
    DEF Wait, WaitBegin, WaitLook, WaitGivesUp, WaitCountQueued, WaitCountRunning,
        WaitStep
  <2> QED
    BY <1>3, <2>6 DEF IdleInv
<1>4. Discipline /\ IdleInv /\ [Next]_vars => [Idle]_vars
  BY <1>3
<1>5. Spec => [][Idle]_vars
  BY <1>1, <1>2, <1>4, DisciplineHolds, PTL DEF Spec
<1> QED
  BY <1>5 DEF IdleMeansIdle

(***************************************************************************)
(* Reports, and the refinement of ScanJob.                                 *)
(***************************************************************************)
\* A worker that is about to finish its row has stored the report.
ReportFirst == \A s \in Scan : pc[s] = "finish" => s \in reports
ReportInv == ReportFirst /\ CompletedHasReport

LEMMA ReportKept ==
  ASSUME Discipline, ReportInv, [Next]_vars
  PROVE  ReportInv'
<1> USE RunnerAssumption
    DEF Discipline, TypeOK, TableTypeOK, ReportInv, ReportFirst, CompletedHasReport,
        Rows, Thread, Goto
<1>1. CASE UNCHANGED vars
  BY <1>1 DEF vars
<1>2. CASE Process
  BY <1>2 DEF Process, Start, Recover, RecoverInterrupted, Stop, StartFails, Forget,
              Close, tableVars
<1>3. CASE \E r \in Request : CreateScan(r) \/ ReplayScan(r)
  BY <1>3 DEF CreateScan, ReplayScan, InsertScan, tableVars
<1>4. ASSUME NEW t \in Thread, Pump(t)
      PROVE  ReportInv'
  BY <1>4
  DEF Pump, EnterPump, PumpClosed, Snapshot, ChooseScan, Launch, LaunchFails, Undo,
      EndPump, PumpBreaks, ResetPump, LeavePump, Forget, MarkRunning, FailScan, tableVars
<1>5. ASSUME NEW s \in Scan, Work(s)
      PROVE  ReportInv'
  <2> USE DEF WorkStep
  <2>1. CASE FinishRow(s)
    BY <2>1 DEF FinishRow, FinishScan
  <2>2. CASE FailRow(s)
    BY <2>2 DEF FailRow, FailScan
  <2>3. CASE RunScan(s) \/ WriteReport(s) \/ WorkBreaks(s) \/ FailBreaks(s)
    BY <2>3 DEF RunScan, WriteReport, WorkBreaks, FailBreaks, tableVars
  <2>4. CASE PopRunning(s)
    BY <2>4 DEF PopRunning, tableVars
  <2> QED
    BY <1>5, <2>1, <2>2, <2>3, <2>4 DEF Work
<1>6. ASSUME NEW w \in Waiter, Wait(w)
      PROVE  ReportInv'
  BY <1>6
  DEF Wait, WaitBegin, WaitLook, WaitGivesUp, WaitCountQueued, WaitCountRunning,
      WaitStep, tableVars
<1> QED
  BY <1>1, <1>2, <1>3, <1>4, <1>5, <1>6 DEF Next

LEMMA ReportsInvariant == Spec => []ReportInv
<1>1. Init => ReportInv
  BY DEF Init, TableInit, ReportInv, ReportFirst, CompletedHasReport, Rows, Thread
<1>2. Discipline /\ ReportInv /\ [Next]_vars => ReportInv'
  BY ReportKept
<1> QED
  BY <1>1, <1>2, DisciplineHolds, PTL DEF Spec

\* A row says completed only when its report is in place.
THEOREM CompletedHaveReports == Spec => []CompletedHasReport
<1>1. ReportInv => CompletedHasReport
  BY DEF ReportInv
<1> QED
  BY <1>1, ReportsInvariant, PTL

\* The variables ScanJob sees; a step that changes none of them stutters.
JobSteps == Job!JobNext \/ UNCHANGED Job!jobVars

LEMMA ProcessRefines ==
  ASSUME Discipline, Process
  PROVE  JobSteps
<1> USE RunnerAssumption
    DEF JobSteps, Job!JobNext, Job!jobVars, Discipline, TypeOK, InFlight, InScan, Thread,
        Goto, tableVars, memoryVars
<1>1. CASE Start
  BY <1>1 DEF Start, PumpDiscipline, StartsAlone
<1>2. CASE Recover
  <2>1. InFlight = {} /\ InFlight' = {}
    BY <1>2 DEF Recover, PumpDiscipline, StartsAlone
  <2>2. Job!Interrupt
    BY <1>2, <2>1 DEF Recover, RecoverInterrupted, Job!Interrupt, Job!requestVars
  <2> QED
    BY <2>2
<1>3. CASE Stop \/ StartFails
  BY <1>3 DEF Stop, StartFails, Forget, Job!StopAll, Job!requestVars
<1>4. CASE Close
  BY <1>4 DEF Close
<1> QED
  BY <1>1, <1>2, <1>3, <1>4 DEF Process

LEMMA RequestRefines ==
  ASSUME Discipline, NEW r \in Request, CreateScan(r) \/ ReplayScan(r)
  PROVE  JobSteps
<1>1. InFlight' = InFlight
  BY RunnerAssumption
  DEF CreateScan, ReplayScan, InFlight, InScan, Thread, Goto, Discipline, TypeOK
<1>2. CASE CreateScan(r)
  <2>1. PICK s \in Scan, a \in Agency, h \in Host : InsertScan(s, a, h)
    BY <1>2 DEF CreateScan
  <2>2. Job!Submit(s, a, h)
    BY <1>1, <1>2, <2>1, JobCardinality
    DEF CreateScan, InsertScan, QueueHasRoom, QueuedOf, Rows, Job!Submit, Job!Move,
        Job!InState, Job!OfAgency
  <2> QED
    BY <2>2 DEF JobSteps, Job!JobNext
<1>3. CASE ReplayScan(r)
  BY <1>1, <1>3 DEF ReplayScan, tableVars, JobSteps, Job!jobVars
<1> QED
  BY <1>2, <1>3

LEMMA PumpRefines ==
  ASSUME Discipline, LimitsHold', NEW t \in Thread, Pump(t)
  PROVE  JobSteps
<1> USE DEF Discipline, TypeOK, TableTypeOK, Goto, tableVars
<1>1. CASE EnterPump(t) \/ PumpClosed(t) \/ Snapshot(t) \/ LaunchFails(t) \/ EndPump(t)
  <2>1. /\ UNCHANGED <<tableVars, reports>>
        /\ pc[t] \notin InScan
        /\ \E to \in PC \ InScan : pc' = [pc EXCEPT ![t] = to]
    BY <1>1 DEF EnterPump, PumpClosed, Snapshot, LaunchFails, EndPump, LeavePump,
                PC, InPump, InScan
  <2>2. InFlight' = InFlight
    BY <2>1 DEF InFlight
  <2> QED
    BY <2>1, <2>2 DEF JobSteps, Job!jobVars
<1>2. CASE ChooseScan(t)
  <2>1. PICK s \in Scan : MarkRunning(s)
    BY <1>2 DEF ChooseScan, Candidates
  <2>2. InFlight' = InFlight /\ UNCHANGED reports
    BY <1>2 DEF ChooseScan, InFlight, InScan
  <2>3. CASE status[s] = "queued"
    BY <2>1, <2>2, <2>3
    DEF MarkRunning, JobSteps, Job!JobNext, Job!Claim, Job!Move, Job!requestVars
  <2>4. CASE status[s] # "queued"
    BY <2>1, <2>2, <2>4 DEF MarkRunning, JobSteps, Job!jobVars
  <2> QED
    BY <2>3, <2>4
<1>3. CASE Launch(t)
  <2>1. /\ starting \in Scan /\ starting # t
        /\ status[starting] = "running" /\ pc[starting] = "off"
    BY <1>3 DEF Launch, PumpDiscipline, SlotKept
  <2>2. InFlight' = InFlight \cup {starting} /\ starting \notin InFlight
    BY <1>3, <2>1 DEF Launch, InFlight, InScan, Thread
  <2>3. UNCHANGED <<tableVars, reports>>
    BY <1>3 DEF Launch
  <2>4. Job!WithinLimits(InFlight)'
    BY DEF LimitsHold
  <2>5. Job!Begin(starting)
    BY <2>1, <2>2, <2>3, <2>4
    DEF Job!Begin, Job!requestVars, Job!WithinLimits, Job!OfAgency
  <2> QED
    BY <2>1, <2>5 DEF JobSteps, Job!JobNext
<1>4. CASE Undo(t)
  <2>1. starting \in Scan /\ status[starting] = "running" /\ FailScan(starting, "scan_error")
    BY <1>4 DEF Undo, PumpDiscipline, SlotKept
  <2>2. InFlight' = InFlight /\ UNCHANGED reports
    BY <1>4 DEF Undo, InFlight, InScan
  <2>3. Job!Break(starting)
    BY <2>1, <2>2 DEF FailScan, Job!Break, Job!Move, Job!requestVars
  <2> QED
    BY <2>1, <2>3 DEF JobSteps, Job!JobNext
<1>5. CASE PumpBreaks(t)
  <2>1. InFlight' = InFlight \/ InFlight' = {}
    BY <1>5 DEF PumpBreaks, Forget, InFlight, InScan, Thread
  <2> QED
    BY <1>5, <2>1
    DEF PumpBreaks, JobSteps, Job!JobNext, Job!StopAll, Job!requestVars, Job!jobVars
<1> QED
  BY <1>1, <1>2, <1>3, <1>4, <1>5 DEF Pump

LEMMA WorkRefines ==
  ASSUME Discipline, ReportInv, NEW s \in Scan, Work(s)
  PROVE  JobSteps
<1> USE DEF Discipline, TypeOK, TableTypeOK, Goto, tableVars, WorkStep, WorkersClaimed,
            InFlight, InScan, Thread, JobSteps, Job!JobNext, Job!requestVars
<1>1. CASE RunScan(s) \/ WorkBreaks(s) \/ FailBreaks(s)
  BY <1>1 DEF RunScan, WorkBreaks, FailBreaks, Job!jobVars
<1>2. CASE WriteReport(s)
  <2>1. Job!Publish(s)
    BY <1>2 DEF WriteReport, Job!Publish
  <2> QED
    BY <2>1
<1>3. CASE FinishRow(s)
  <2>1. Job!Complete(s)
    BY <1>3 DEF FinishRow, FinishScan, ReportInv, ReportFirst, Job!Complete, Job!Move
  <2> QED
    BY <2>1
<1>4. CASE FailRow(s)
  <2>1. Job!Break(s)
    BY <1>4 DEF FailRow, FailScan, Job!Break, Job!Move
  <2> QED
    BY <2>1
<1>5. CASE PopRunning(s)
  <2>1. Job!Cease(s)
    BY <1>5 DEF PopRunning, Job!Cease
  <2> QED
    BY <2>1
<1> QED
  BY <1>1, <1>2, <1>3, <1>4, <1>5 DEF Work

LEMMA WaitRefines ==
  ASSUME Discipline, NEW w \in Waiter, Wait(w)
  PROVE  JobSteps
<1>1. /\ UNCHANGED <<tableVars, reports>>
      /\ InFlight' = InFlight
  BY RunnerAssumption
  DEF Wait, WaitBegin, WaitLook, WaitGivesUp, WaitCountQueued, WaitCountRunning,
      WaitStep, Goto, Discipline, TypeOK, Thread, InFlight, InScan
<1> QED
  BY <1>1 DEF JobSteps, Job!jobVars, tableVars

LEMMA StepRefines ==
  ASSUME Discipline, ReportInv, LimitsHold', [Next]_vars
  PROVE  JobSteps
<1>1. CASE Next
  BY <1>1, ProcessRefines, RequestRefines, PumpRefines, WorkRefines, WaitRefines
  DEF Next
<1>2. CASE UNCHANGED vars
  BY <1>2 DEF vars, JobSteps, Job!jobVars, InFlight
<1> QED
  BY <1>1, <1>2

\* The runner with its threads, lock and faults implements the lifecycle that
\* ScanJob promises: every step is one of its steps, or none it can see.
THEOREM RunnerImplementsJob == Spec => ImplementsJob
<1>1. Init => Job!JobInit
  BY RunnerAssumption
  DEF Init, TableInit, Job!JobInit, InFlight, InScan, Thread
<1>2. Discipline /\ ReportInv /\ LimitsHold' /\ [Next]_vars
        => [Job!JobNext]_Job!jobVars
  BY StepRefines DEF JobSteps
<1>3. Spec => Job!JobSpec
  BY <1>1, <1>2, DisciplineHolds, ReportsInvariant, LimitsAlwaysHold, PTL
  DEF Spec, Job!JobSpec
<1> QED
  BY <1>3 DEF ImplementsJob

=============================================================================

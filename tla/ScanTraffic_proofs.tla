------------------------- MODULE ScanTraffic_proofs --------------------------
(***************************************************************************)
(* Proofs about ScanLimiter and ScanTraffic, for every number of workers   *)
(* and hosts, every rate, budget, duration and push-back.                  *)
(***************************************************************************)
EXTENDS ScanTraffic, FiniteSetTheorems, TLAPS

(***************************************************************************)
(* The limiter on its own.                                                 *)
(***************************************************************************)
\* What may happen to the limiter in one step.
LimiterNext ==
  \/ \E h \in Host : Grant(h) \/ Refuse(h) \/ PushBack(h)
  \/ Tick
  \/ UNCHANGED <<clock, limiterVars>>

\* Why slots stay apart, push-backs are kept and stops final: the last slot,
\* the latest push-back and the slots of all hosts lie behind the global one,
\* and the condition that stopped the scan still holds.
LimiterInv ==
  /\ LimiterTypeOK
  /\ GlobalCoversHosts
  /\ lastSlot # None => lastSlot + Interval <= Later(clock, nextGlobal)
  /\ heldUntil <= nextGlobal
  /\ stoppedBy = "max-requests" => BudgetSpent
  /\ stoppedBy = "max-duration" =>
       ~BudgetSpent /\ PastDeadline(Later(clock, nextGlobal))

\* A push-back is answered with a wait of some length, never with less than
\* none.
LEMMA PenaltyType ==
  ASSUME slowdowns \in 0 .. MaxSlowdowns, slowdowns < MaxSlowdowns,
         NEW header \in RetryAfter
  PROVE  Penalty(header) \in Nat
<1>1. CASE header # None /\ header > 0
  BY <1>1, LimiterAssumption DEF Penalty, Earlier
<1>2. CASE ~(header # None /\ header > 0)
  <2>1. slowdowns + 1 \in 1 .. MaxSlowdowns
    BY LimiterAssumption
  <2> QED
    BY <1>2, <2>1, LimiterAssumption DEF Penalty
<1> QED
  BY <1>1, <1>2

\* The limiter's fields keep their types.
LEMMA LimiterTypes ==
  ASSUME LimiterTypeOK, LimiterNext
  PROVE  LimiterTypeOK'
<1> USE LimiterAssumption DEF LimiterTypeOK, limiterVars
<1>1. ASSUME NEW h \in Host, Grant(h)
      PROVE  LimiterTypeOK'
  <2>1. Slot(h) \in Nat
    BY DEF Slot, Later
  <2> QED
    BY <1>1, <2>1 DEF Grant
<1>2. ASSUME NEW h \in Host, Refuse(h)
      PROVE  LimiterTypeOK'
  BY <1>2 DEF Refuse, StopReason
<1>3. ASSUME NEW h \in Host, PushBack(h)
      PROVE  LimiterTypeOK'
  <2>1. PICK header \in RetryAfter :
          LET resume == clock + Penalty(header) IN
          /\ nextGlobal' = Later(nextGlobal, resume)
          /\ nextByHost' = [nextByHost EXCEPT ![h] = Later(@, resume)]
          /\ heldUntil' = Later(heldUntil, resume)
    BY <1>3 DEF PushBack
  <2>2. clock + Penalty(header) \in Nat
    BY <1>3, PenaltyType DEF PushBack
  <2> QED
    BY <1>3, <2>1, <2>2 DEF PushBack, Later
<1>4. CASE Tick
  BY <1>4 DEF Tick
<1>5. CASE UNCHANGED <<clock, limiterVars>>
  BY <1>5
<1> QED
  BY <1>1, <1>2, <1>3, <1>4, <1>5 DEF LimiterNext

\* LimiterInv holds at the start and is kept by every step.
LEMMA LimiterStart ==
  ASSUME LimiterInit
  PROVE  LimiterInv
BY LimiterAssumption
   DEF LimiterInit, LimiterInv, LimiterTypeOK, GlobalCoversHosts, StopReason

LEMMA LimiterKept ==
  ASSUME LimiterInv, LimiterNext
  PROVE  LimiterInv'
<1>1. LimiterTypeOK'
  BY LimiterTypes DEF LimiterInv
<1> USE LimiterAssumption
    DEF LimiterInv, LimiterTypeOK, GlobalCoversHosts, BudgetSpent,
        PastDeadline, Later, limiterVars
<1>2. ASSUME NEW h \in Host, Grant(h)
      PROVE  LimiterInv'
  BY <1>1, <1>2 DEF Grant, Slot, StopReason
<1>3. ASSUME NEW h \in Host, Refuse(h)
      PROVE  LimiterInv'
  BY <1>1, <1>3 DEF Refuse, Slot
<1>4. ASSUME NEW h \in Host, PushBack(h)
      PROVE  LimiterInv'
  <2>1. PICK header \in RetryAfter :
          LET resume == clock + Penalty(header) IN
          /\ nextGlobal' = Later(nextGlobal, resume)
          /\ nextByHost' = [nextByHost EXCEPT ![h] = Later(@, resume)]
          /\ heldUntil' = Later(heldUntil, resume)
    BY <1>4 DEF PushBack
  <2>2. Penalty(header) \in Nat
    BY <1>4, PenaltyType DEF PushBack
  <2> QED
    BY <1>1, <1>4, <2>1, <2>2 DEF PushBack
<1>5. CASE Tick
  BY <1>1, <1>5 DEF Tick
<1>6. CASE UNCHANGED <<clock, limiterVars>>
  BY <1>6
<1> QED
  BY <1>2, <1>3, <1>4, <1>5, <1>6 DEF LimiterNext

(***************************************************************************)
(* The threads of the scan.                                                *)
(***************************************************************************)
\* A thread asleep or waiting for an answer has a request it is about.
CallMade == \A t \in Thread : pc[t] \in {"waiting", "wire"} => call[t] \in Call

\* Why the report is final: workers are at work only while the main thread
\* waits for the pool, a worker's refusal is remembered by the limiter, and
\* with the report made the main thread is over.
PoolDiscipline ==
  /\ pc[Main] # "joining" => queued = 0 /\ \A w \in Worker : pc[w] = "idle"
  /\ "limit" \in raised => stoppedBy # None
  /\ report # None => pc[Main] = "over"

\* Every step of the scan is one of the limiter or leaves it alone.
LEMMA TrafficSteps ==
  ASSUME TypeOK, CallMade, [Next]_vars
  PROVE  LimiterNext
<1>1. ASSUME NEW t \in Thread, Work(t)
      PROVE  LimiterNext
  <2>1. ASSUME NEW h \in Host, Acquire(t, h) \/ LimitReached(t, h)
        PROVE  LimiterNext
    BY <2>1 DEF Acquire, LimitReached, LimiterNext
  <2>2. CASE Send(t) \/ Resend(t) \/ Answer(t)
    BY <2>2 DEF Send, Resend, Answer, LimiterNext
  <2>3. CASE AnswerPushBack(t)
    <3>1. call[t].host \in Host
      BY <2>3 DEF TypeOK, Call, CallMade, AnswerPushBack
    <3> QED
      BY <2>3, <3>1 DEF AnswerPushBack, LimiterNext
  <2> QED
    BY <1>1, <2>1, <2>2, <2>3 DEF Work
<1>2. ASSUME NEW w \in Worker, TakePath(w)
      PROVE  LimiterNext
  BY <1>2 DEF TakePath, LimiterNext
<1>3. CASE MainStep
  BY <1>3 DEF MainStep, OpenPool, JoinPool, ChecksDone, Report, LimiterNext
<1>4. CASE TickStep
  BY <1>4 DEF TickStep, LimiterNext
<1>5. CASE UNCHANGED vars
  BY <1>5 DEF vars, LimiterNext
<1> QED
  BY <1>1, <1>2, <1>3, <1>4, <1>5 DEF Next

\* The other variables keep their types.
LEMMA TrafficTypes ==
  ASSUME TypeOK, CallMade, [Next]_vars
  PROVE  TypeOK' /\ CallMade'
<1>1. LimiterTypeOK'
  BY TrafficSteps, LimiterTypes DEF TypeOK
<1> USE TrafficAssumption, <1>1
    DEF TypeOK, CallMade, Thread, Goto, poolVars
<1>2. ASSUME NEW t \in Thread, Work(t)
      PROVE  TypeOK' /\ CallMade'
  <2>1. ASSUME NEW h \in Host, Acquire(t, h)
        PROVE  TypeOK' /\ CallMade'
    <3>1. Slot(h) \in Nat
      BY DEF Slot, Later, LimiterTypeOK
    <3>2. [host |-> h, start |-> Slot(h), resends |-> 0] \in Call
      BY <3>1 DEF Call
    <3> QED
      BY <2>1, <3>2 DEF Acquire, Step
  <2>2. ASSUME NEW h \in Host, LimitReached(t, h)
        PROVE  TypeOK' /\ CallMade'
    BY <2>2 DEF LimitReached, Step
  <2>3. CASE Send(t)
    <3>1. [call[t] EXCEPT !.start = 0] \in Call
      BY <2>3 DEF Send, Call
    <3> QED
      BY <2>3, <3>1 DEF Send, Step
  <2>4. CASE Resend(t)
    <3>1. [call[t] EXCEPT !.resends = @ + 1] \in Call
      BY <2>4 DEF Resend, Call
    <3> QED
      BY <2>4, <3>1 DEF Resend, Step
  <2>5. CASE Answer(t)
    BY <2>5 DEF Answer, Continue, Step
  <2>6. CASE AnswerPushBack(t)
    BY <2>6 DEF AnswerPushBack, Continue, Step
  <2> QED
    BY <1>2, <2>1, <2>2, <2>3, <2>4, <2>5, <2>6 DEF Work
<1>3. ASSUME NEW w \in Worker, TakePath(w)
      PROVE  TypeOK' /\ CallMade'
  BY <1>3 DEF TakePath, Step
<1>4. CASE OpenPool
  BY <1>4 DEF OpenPool, Step
<1>5. CASE JoinPool \/ ChecksDone
  BY <1>5 DEF JoinPool, ChecksDone, Step
<1>6. CASE Report
  BY <1>6 DEF Report, Step, Snapshot, LimiterTypeOK
<1>7. CASE TickStep \/ UNCHANGED vars
  BY <1>7 DEF TickStep, trafficVars, vars
<1> QED
  BY <1>2, <1>3, <1>4, <1>5, <1>6, <1>7 DEF Next, MainStep

\* The invariant of all theorems below.
Inv == TypeOK /\ CallMade /\ LimiterInv /\ PoolDiscipline /\ BudgetKept

\* Workers are at work only while the main thread waits for them, a refusal
\* is remembered by the limiter.
LEMMA PoolKept ==
  ASSUME TypeOK, PoolDiscipline, [Next]_vars
  PROVE  PoolDiscipline'
<1> USE TrafficAssumption DEF PoolDiscipline, TypeOK, Thread, Goto, poolVars,
        limiterVars
<1>1. ASSUME NEW t \in Thread, Work(t)
      PROVE  PoolDiscipline'
  <2>1. t # Main => pc[Main] = "joining" \/ pc[t] = "idle"
    OBVIOUS
  <2>2. ASSUME NEW h \in Host, Acquire(t, h)
        PROVE  PoolDiscipline'
    BY <2>1, <2>2 DEF Acquire, Grant
  <2>3. ASSUME NEW h \in Host, LimitReached(t, h)
        PROVE  PoolDiscipline'
    BY <2>1, <2>3, LimiterAssumption DEF LimitReached, Refuse, StopReason
  <2>4. CASE Send(t) \/ Resend(t)
    BY <2>1, <2>4 DEF Send, Resend
  <2>5. CASE Answer(t)
    BY <2>1, <2>5 DEF Answer, Continue
  <2>6. CASE AnswerPushBack(t)
    BY <2>1, <2>6 DEF AnswerPushBack, Continue, PushBack
  <2> QED
    BY <1>1, <2>2, <2>3, <2>4, <2>5, <2>6 DEF Work
<1>2. ASSUME NEW w \in Worker, TakePath(w)
      PROVE  PoolDiscipline'
  BY <1>2 DEF TakePath
<1>3. CASE OpenPool
  BY <1>3 DEF OpenPool
<1>4. CASE JoinPool
  BY <1>4 DEF JoinPool, PoolDone
<1>5. CASE ChecksDone
  BY <1>5 DEF ChecksDone
<1>6. CASE Report
  BY <1>6 DEF Report
<1>7. CASE TickStep \/ UNCHANGED vars
  BY <1>7 DEF TickStep, Tick, trafficVars, vars
<1> QED
  BY <1>1, <1>2, <1>3, <1>4, <1>5, <1>6, <1>7 DEF Next, MainStep

\* Every granted request is either sent or waits for its slot.
LEMMA BudgetStep ==
  ASSUME TypeOK, BudgetKept, [Next]_vars
  PROVE  BudgetKept'
<1>1. IsFiniteSet(Waiting)
  BY TrafficAssumption, FS_AddElement, FS_Subset DEF Waiting, Thread
<1>2. /\ Waiting' = Waiting
      /\ requests' = requests
      /\ sent' = sent
      => BudgetKept'
  BY DEF BudgetKept
<1>3. Cardinality(Waiting) \in Nat
  BY <1>1, FS_CardinalityType
<1> USE TrafficAssumption, LimiterAssumption
    DEF TypeOK, LimiterTypeOK, Thread, Waiting, Goto, poolVars,
        limiterVars
<1>4. ASSUME NEW t \in Thread, Work(t)
      PROVE  BudgetKept'
  <2>1. ASSUME NEW h \in Host, Acquire(t, h)
        PROVE  BudgetKept'
    <3>1. Waiting' = Waiting \cup {t} /\ t \notin Waiting
      BY <2>1 DEF Acquire, Step
    <3>2. Cardinality(Waiting') = Cardinality(Waiting) + 1
      BY <1>1, <3>1, FS_AddElement
    <3>3. requests' = requests + 1 /\ sent' = sent
      BY <2>1 DEF Acquire, Grant
    <3> QED
      BY <1>3, <2>1, <3>2, <3>3 DEF BudgetKept, Acquire, Grant, BudgetSpent
  <2>2. ASSUME NEW h \in Host, LimitReached(t, h)
        PROVE  BudgetKept'
    BY <1>2, <2>2 DEF LimitReached, Refuse
  <2>3. CASE Send(t)
    <3>1. Waiting' = Waiting \ {t} /\ t \in Waiting
      BY <2>3 DEF Send
    <3>2. Cardinality(Waiting') = Cardinality(Waiting) - 1
      <4> HIDE DEF Waiting
      <4> QED
        BY <1>1, <3>1, FS_RemoveElement
    <3>3. requests' = requests /\ sent' = sent + 1
      BY <2>3 DEF Send
    <3>4. Cardinality(Waiting') \in Nat
      BY <1>1, <3>1, FS_RemoveElement, FS_CardinalityType
    <3> QED
      BY <1>3, <3>2, <3>3, <3>4 DEF BudgetKept
  <2>4. CASE Resend(t)
    BY <1>2, <2>4 DEF Resend
  <2>5. CASE Answer(t)
    BY <1>2, <2>5 DEF Answer, Continue
  <2>6. CASE AnswerPushBack(t)
    BY <1>2, <2>6 DEF AnswerPushBack, Continue, PushBack
  <2> QED
    BY <1>4, <2>1, <2>2, <2>3, <2>4, <2>5, <2>6 DEF Work
<1>5. ASSUME NEW w \in Worker, TakePath(w)
      PROVE  BudgetKept'
  BY <1>2, <1>5 DEF TakePath
<1>6. CASE OpenPool \/ JoinPool \/ ChecksDone \/ Report
  BY <1>2, <1>6 DEF OpenPool, JoinPool, ChecksDone, Report
<1>7. CASE TickStep \/ UNCHANGED vars
  BY <1>2, <1>7 DEF TickStep, Tick, trafficVars, vars
<1> QED
  BY <1>4, <1>5, <1>6, <1>7 DEF Next, MainStep

\* The invariant holds at the start and is kept by every step.
LEMMA InvStart ==
  ASSUME Init
  PROVE  Inv
<1>1. LimiterInv
  BY LimiterStart DEF Init
<1>2. TypeOK /\ CallMade
  BY <1>1, TrafficAssumption, LimiterAssumption
  DEF Init, TypeOK, CallMade, LimiterInv, Thread, Step
<1>3. PoolDiscipline
  BY TrafficAssumption DEF Init, PoolDiscipline, Thread
<1>4. BudgetKept
  <2>1. Waiting = {}
    BY TrafficAssumption DEF Init, Waiting, Thread
  <2>2. Cardinality(Waiting) = 0
    BY <2>1, FS_EmptySet
  <2> QED
    BY <2>2, LimiterAssumption DEF Init, LimiterInit, BudgetKept
<1> QED
  BY <1>1, <1>2, <1>3, <1>4 DEF Inv

LEMMA InvKept ==
  ASSUME Inv, [Next]_vars
  PROVE  Inv' /\ LimiterNext
<1>1. LimiterNext
  BY TrafficSteps DEF Inv
<1>2. LimiterInv'
  BY <1>1, LimiterKept DEF Inv
<1>3. TypeOK' /\ CallMade'
  BY TrafficTypes DEF Inv
<1>4. PoolDiscipline'
  BY PoolKept DEF Inv
<1>5. BudgetKept'
  BY BudgetStep DEF Inv
<1> QED
  BY <1>1, <1>2, <1>3, <1>4, <1>5 DEF Inv

THEOREM InvHolds == Spec => []Inv
<1>1. Init => Inv
  BY InvStart
<1>2. Inv /\ [Next]_vars => Inv'
  BY InvKept
<1> QED
  BY <1>1, <1>2, PTL DEF Spec

\* Every variable has its type.
THEOREM TrafficTypeCorrect == Spec => []TypeOK
<1>1. Inv => TypeOK
  BY DEF Inv
<1> QED
  BY <1>1, InvHolds, PTL

\* The slot of no host lies beyond the global one.
THEOREM GlobalAlwaysCovers == Spec => []GlobalCoversHosts
<1>1. Inv => GlobalCoversHosts
  BY DEF Inv, LimiterInv
<1> QED
  BY <1>1, InvHolds, PTL

\* What is counted is what is sent or about to be, within the budget.
THEOREM BudgetAlwaysKept == Spec => []BudgetKept
<1>1. Inv => BudgetKept
  BY DEF Inv
<1> QED
  BY <1>1, InvHolds, PTL

\* The report's limits are final, and tell of every stop: the main thread has
\* left the pool, so nothing waits and all that was counted has been sent.
THEOREM ReportAlwaysFinal == Spec => []ReportIsFinal
<1> DEFINE Final == Inv /\ ReportIsFinal
<1> USE TrafficAssumption
<1>1. Init => Final
  <2> SUFFICES ASSUME Init PROVE Final
    OBVIOUS
  <2>1. report = None
    BY DEF Init
  <2> QED
    BY <2>1, InvStart DEF ReportIsFinal
<1>2. ASSUME Final, [Next]_vars
      PROVE  Final'
  <2>1. Inv' /\ LimiterNext
    BY <1>2, InvKept
  <2>2. CASE report # None
    <3>1. pc[Main] = "over" /\ \A w \in Worker : pc[w] = "idle"
      BY <1>2, <2>2 DEF Inv, PoolDiscipline
    <3>2. queued = 0
      BY <1>2, <3>1 DEF Inv, PoolDiscipline
    <3>3. /\ report' = report /\ UNCHANGED <<pc, sent, slowdowns, stoppedBy>>
          /\ raised' = raised
      <4>1. \A t \in Thread : ~Work(t)
        BY <3>1 DEF Thread, Work, Acquire, LimitReached, Send, Resend, Answer,
                    AnswerPushBack
      <4>2. \A w \in Worker : ~TakePath(w)
        BY <3>2, <1>2 DEF TakePath, Inv, TypeOK
      <4>3. ~MainStep
        BY <3>1 DEF MainStep, OpenPool, JoinPool, ChecksDone, Report
      <4>4. TickStep \/ UNCHANGED vars
        BY <1>2, <4>1, <4>2, <4>3 DEF Next
      <4> QED
        BY <4>4 DEF TickStep, Tick, trafficVars, limiterVars, vars
    <3> QED
      BY <1>2, <2>1, <2>2, <3>3 DEF ReportIsFinal
  <2>3. CASE report = None /\ report' # None
    <3>1. Report
      <4>1. ASSUME NEW t \in Thread, Work(t)
            PROVE  report' = report
        BY <4>1 DEF Work, Acquire, LimitReached, Send, Resend, Answer,
                    AnswerPushBack
      <4>2. ASSUME NEW w \in Worker, TakePath(w)
            PROVE  report' = report
        BY <4>2 DEF TakePath
      <4>3. OpenPool \/ JoinPool \/ ChecksDone \/ TickStep \/ UNCHANGED vars
            => report' = report
        BY DEF OpenPool, JoinPool, ChecksDone, TickStep, trafficVars, vars
      <4> QED
        BY <1>2, <2>3, <4>1, <4>2, <4>3 DEF Next, MainStep
    <3>2. pc[Main] = "ending" /\ \A w \in Worker : pc[w] = "idle"
      BY <1>2, <3>1 DEF Report, Inv, PoolDiscipline
    <3>3. Waiting = {}
      BY <3>2 DEF Waiting, Thread
    <3>4. requests = sent
      <4>1. Cardinality(Waiting) = 0
        BY <3>3, FS_EmptySet
      <4> QED
        BY <1>2, <4>1 DEF Inv, BudgetKept, TypeOK
    <3>5. \A w \in Worker : pc'[w] = "idle"
      BY <1>2, <3>1, <3>2 DEF Report, Goto, Inv, TypeOK, Thread
    <3>6. "limit" \in raised => stoppedBy # None
      BY <1>2 DEF Inv, PoolDiscipline
    <3> QED
      BY <2>1, <3>1, <3>4, <3>5, <3>6
      DEF Report, ReportIsFinal, limiterVars, poolVars
  <2>4. CASE report' = None
    BY <2>1, <2>4 DEF ReportIsFinal
  <2> QED
    BY <2>2, <2>3, <2>4
<1> QED
  BY <1>1, <1>2, PTL DEF Spec

\* Once a request has been refused none is granted, and the reason stays.
THEOREM StopAlwaysFinal == Spec => StopIsFinal
<1> USE LimiterAssumption
    DEF LimiterInv, LimiterTypeOK, GlobalCoversHosts, BudgetSpent,
        PastDeadline, Later, StopReason, limiterVars
<1>1. ASSUME LimiterInv, LimiterNext, stoppedBy # None
      PROVE  stoppedBy' = stoppedBy /\ requests' = requests
  <2>1. ASSUME NEW h \in Host, Grant(h)
        PROVE  FALSE
    BY <1>1, <2>1 DEF Grant, Slot
  <2>2. ASSUME NEW h \in Host, Refuse(h)
        PROVE  stoppedBy' = stoppedBy /\ requests' = requests
    BY <1>1, <2>2 DEF Refuse
  <2>3. ASSUME NEW h \in Host, PushBack(h)
        PROVE  stoppedBy' = stoppedBy /\ requests' = requests
    BY <2>3 DEF PushBack
  <2> QED
    BY <1>1, <2>1, <2>2, <2>3 DEF LimiterNext, Tick
<1>2. Inv /\ [Next]_vars
        => [stoppedBy # None
              => stoppedBy' = stoppedBy /\ requests' = requests]_<<
                 clock, limiterVars>>
  BY <1>1, InvKept DEF Inv
<1> QED
  BY <1>2, InvHolds, PTL DEF Spec, StopIsFinal

\* Granted starts are an interval apart.
THEOREM SlotsAlwaysSpaced == Spec => SlotsSpaced
<1>1. ASSUME LimiterInv, LimiterNext, requests' > requests, lastSlot # None
      PROVE  lastSlot' >= lastSlot + Interval
  <2>1. PICK h \in Host : Grant(h)
    BY <1>1, LimiterAssumption
    DEF LimiterInv, LimiterTypeOK, LimiterNext, Refuse, PushBack, Tick,
        limiterVars
  <2> QED
    BY <1>1, <2>1, LimiterAssumption
    DEF Grant, Slot, LimiterInv, LimiterTypeOK, Later
<1>2. Inv /\ [Next]_vars
        => [requests' > requests /\ lastSlot # None
              => lastSlot' >= lastSlot + Interval]_<<clock, limiterVars>>
  BY <1>1, InvKept DEF Inv
<1> QED
  BY <1>2, InvHolds, PTL DEF Spec, SlotsSpaced

\* No start granted after a push-back is before the time it asked for.
THEOREM BackoffAlwaysKept == Spec => BackoffKept
<1>1. ASSUME LimiterInv, LimiterNext, requests' > requests
      PROVE  lastSlot' >= heldUntil
  <2>1. PICK h \in Host : Grant(h)
    BY <1>1, LimiterAssumption
    DEF LimiterInv, LimiterTypeOK, LimiterNext, Refuse, PushBack, Tick,
        limiterVars
  <2> QED
    BY <1>1, <2>1, LimiterAssumption
    DEF Grant, Slot, LimiterInv, LimiterTypeOK, Later
<1>2. Inv /\ [Next]_vars
        => [requests' > requests => lastSlot' >= heldUntil]_<<
             clock, limiterVars>>
  BY <1>1, InvKept DEF Inv
<1> QED
  BY <1>2, InvHolds, PTL DEF Spec, BackoffKept

(***************************************************************************)
(* The pace.                                                               *)
(***************************************************************************)
\* The threads whose slot has come by time x.
Due(x) == {t \in Waiting : call[t].start <= x}

\* When n requests may have gone out by time x, the rate allows that many.
Room(n, x) == n > 0 => (n - 1) * Interval <= x

\* By any time from now on no more can have been sent than the rate allows: the
\* last slot leaves room for all that were granted, and what is sent by x had
\* its slot by then.
PaceInv ==
  /\ requests > 0 => lastSlot # None /\ Room(requests, lastSlot)
  /\ \A x \in Nat : x >= clock => Room(sent + Cardinality(Due(x)), x)

\* Products of naturals grow with each factor.
LEMMA TimesMonotone ==
  ASSUME NEW a \in Nat, NEW b \in Nat, NEW i \in Nat, a <= b
  PROVE  a * i <= b * i
OBVIOUS

\* Who is due is finite, and no more than who waits.
LEMMA DueFinite ==
  ASSUME NEW x \in Nat
  PROVE  /\ IsFiniteSet(Waiting) /\ Cardinality(Waiting) \in Nat
         /\ IsFiniteSet(Due(x)) /\ Cardinality(Due(x)) \in Nat
         /\ Cardinality(Due(x)) <= Cardinality(Waiting)
<1>1. IsFiniteSet(Waiting)
  BY TrafficAssumption, FS_AddElement, FS_Subset DEF Waiting, Thread
<1>2. Due(x) \subseteq Waiting
  BY DEF Due
<1>3. IsFiniteSet(Due(x)) /\ Cardinality(Due(x)) <= Cardinality(Waiting)
  BY <1>1, <1>2, FS_Subset
<1> QED
  BY <1>1, <1>3, FS_CardinalityType

\* A granted start is an interval after the last one, so there is room for one
\* more request by then, and by no earlier time has anything changed.
LEMMA PaceOfAcquire ==
  ASSUME Inv, Inv', PaceInv, NEW t \in Thread, NEW h \in Host, Acquire(t, h)
  PROVE  PaceInv'
<1> DEFINE S == Slot(h)
<1>1. /\ requests' = requests + 1 /\ lastSlot' = S /\ clock' = clock /\ sent' = sent
      /\ requests \in Nat /\ S \in Nat /\ clock \in Nat /\ sent \in Nat
      /\ requests' \in Nat /\ Interval \in Nat
      /\ call'[t].start = S
      /\ \A u \in Thread \ {t} : call'[u] = call[u] /\ pc'[u] = pc[u]
      /\ pc[t] = "ready"
  BY LimiterAssumption
  DEF Acquire, Grant, Inv, TypeOK, LimiterTypeOK, Slot, Later, Goto
<1>2. requests > 0 => requests * Interval <= S
  <2> SUFFICES ASSUME requests > 0
               PROVE  requests * Interval <= S
    OBVIOUS
  <2>1. lastSlot \in Nat /\ Room(requests, lastSlot)
    BY DEF PaceInv, Inv, TypeOK, LimiterTypeOK
  <2>2. lastSlot + Interval <= S
    BY <2>1, LimiterAssumption
    DEF Inv, LimiterInv, LimiterTypeOK, Slot, Later, GlobalCoversHosts
  <2>3. (requests - 1) * Interval + Interval = requests * Interval
    BY <1>1
  <2> QED
    BY <1>1, <2>1, <2>2, <2>3 DEF Room
<1>3. requests * Interval <= S
  <2>1. requests = 0 => requests * Interval = 0
    BY <1>1
  <2> QED
    BY <1>1, <1>2, <2>1
<1>4. ASSUME NEW x \in Nat, x >= clock
      PROVE  Room(sent' + Cardinality(Due(x)'), x)
  <2>1. CASE x < S
    <3>1. Due(x)' = Due(x)
      BY <1>1, <2>1 DEF Due, Waiting
    <3> QED
      BY <1>1, <1>4, <3>1 DEF PaceInv
  <2>2. CASE S <= x
    <3>1. requests' = sent' + Cardinality(Waiting')
      BY DEF Inv, BudgetKept
    <3>2. Cardinality(Due(x)') \in Nat /\ Cardinality(Due(x)') <= Cardinality(Waiting')
            /\ Cardinality(Waiting') \in Nat
      <4>1. IsFiniteSet(Waiting')
        BY TrafficAssumption, FS_AddElement, FS_Subset DEF Waiting, Thread
      <4>2. Due(x)' \subseteq Waiting'
        BY DEF Due
      <4> QED
        BY <4>1, <4>2, FS_Subset, FS_CardinalityType
    <3> DEFINE n == sent' + Cardinality(Due(x)')
    <3>3. n \in Nat /\ n <= requests'
      BY <1>1, <3>1, <3>2
    <3> HIDE DEF n
    <3> SUFFICES ASSUME n > 0
                 PROVE  (n - 1) * Interval <= x
      BY DEF Room, n
    <3>4. (n - 1) * Interval <= requests * Interval
      BY <1>1, <3>3, TimesMonotone
    <3>5. (n - 1) * Interval \in Nat /\ requests * Interval \in Nat
      BY <1>1, <3>3
    <3> QED
      BY <1>1, <1>3, <2>2, <3>4, <3>5
  <2> QED
    BY <1>1, <2>1, <2>2
<1>5. lastSlot' # None /\ Room(requests', lastSlot')
  BY <1>1, <1>3, LimiterAssumption DEF Room
<1> QED
  BY <1>1, <1>4, <1>5 DEF PaceInv

\* A request goes out once its slot has come: it was due before.
LEMMA PaceOfSend ==
  ASSUME Inv, PaceInv, NEW t \in Thread, Send(t)
  PROVE  PaceInv'
<1>1. /\ UNCHANGED <<requests, lastSlot, clock>> /\ sent' = sent + 1
      /\ sent \in Nat /\ clock \in Nat
      /\ t \in Waiting /\ call[t].start <= clock /\ call[t].start \in Nat
      /\ pc'[t] = "wire"
      /\ \A u \in Thread \ {t} : call'[u] = call[u] /\ pc'[u] = pc[u]
  BY DEF Send, limiterVars, Inv, TypeOK, LimiterTypeOK, Waiting, CallMade, Call, Goto
<1>2. ASSUME NEW x \in Nat, x >= clock
      PROVE  sent' + Cardinality(Due(x)') = sent + Cardinality(Due(x))
  <2>1. t \in Due(x) /\ Due(x)' = Due(x) \ {t}
    BY <1>1, <1>2 DEF Due, Waiting
  <2>2. Cardinality(Due(x) \ {t}) = Cardinality(Due(x)) - 1
    BY <2>1, DueFinite, FS_RemoveElement
  <2> QED
    BY <1>1, <2>1, <2>2, DueFinite
<1>3. ASSUME NEW x \in Nat, x >= clock
      PROVE  Room(sent' + Cardinality(Due(x)'), x)
  BY <1>2, <1>3 DEF PaceInv
<1> QED
  BY <1>1, <1>3 DEF PaceInv

\* No other step changes who is due when, or it is the clock that moves on.
LEMMA PaceOfOthers ==
  ASSUME Inv, PaceInv,
         UNCHANGED <<requests, lastSlot, sent>>,
         clock' \in Nat /\ clock' >= clock,
         \A u \in Thread : pc'[u] = "waiting" <=> pc[u] = "waiting",
         \A u \in Thread : pc[u] = "waiting" => call'[u] = call[u]
  PROVE  PaceInv'
<1>1. \A x \in Nat : Due(x)' = Due(x)
  BY DEF Due, Waiting
<1>2. clock \in Nat
  BY DEF Inv, TypeOK, LimiterTypeOK
<1> QED
  BY <1>1, <1>2 DEF PaceInv

LEMMA PaceKeptByStep ==
  ASSUME Inv, Inv', PaceInv, [Next]_vars
  PROVE  PaceInv'
<1> USE DEF Goto, poolVars, limiterVars
<1>1. /\ clock \in Nat /\ clock' \in Nat
      /\ pc \in [Thread -> Step] /\ call \in [Thread -> Call \cup {None}]
  BY DEF Inv, TypeOK, LimiterTypeOK
<1>2. ASSUME NEW t \in Thread, Work(t)
      PROVE  PaceInv'
  <2>1. ASSUME NEW h \in Host, Acquire(t, h)
        PROVE  PaceInv'
    BY <2>1, PaceOfAcquire
  <2>2. CASE Send(t)
    BY <2>2, PaceOfSend
  <2>3. ASSUME NEW h \in Host, LimitReached(t, h)
        PROVE  PaceInv'
    BY <1>1, <2>3, PaceOfOthers DEF LimitReached, Refuse
  <2>4. CASE Resend(t)
    BY <1>1, <2>4, PaceOfOthers DEF Resend
  <2>5. CASE Answer(t)
    BY <1>1, <2>5, PaceOfOthers DEF Answer, Continue
  <2>6. CASE AnswerPushBack(t)
    BY <1>1, <2>6, PaceOfOthers DEF AnswerPushBack, Continue, PushBack
  <2> QED
    BY <1>2, <2>1, <2>2, <2>3, <2>4, <2>5, <2>6 DEF Work
<1>3. ASSUME NEW w \in Worker, TakePath(w)
      PROVE  PaceInv'
  BY <1>1, <1>3, PaceOfOthers DEF TakePath, Thread
<1>4. CASE MainStep
  BY <1>1, <1>4, PaceOfOthers DEF MainStep, OpenPool, JoinPool, ChecksDone, Report, Thread
<1>5. CASE TickStep
  BY <1>1, <1>5, PaceOfOthers DEF TickStep, Tick, trafficVars
<1>6. CASE UNCHANGED vars
  BY <1>1, <1>6, PaceOfOthers DEF vars, trafficVars
<1> QED
  BY <1>2, <1>3, <1>4, <1>5, <1>6 DEF Next

\* By any time no more has been sent than the rate allows.
THEOREM PaceAlwaysKept == Spec => []PaceKept
<1>1. Init => PaceInv
  <2> SUFFICES ASSUME Init
               PROVE  PaceInv
    OBVIOUS
  <2>1. Waiting = {} /\ requests = 0 /\ sent = 0
    BY TrafficAssumption DEF Init, LimiterInit, Waiting, Thread
  <2>2. \A x \in Nat : Due(x) = {}
    BY <2>1 DEF Due
  <2>3. \A x \in Nat : Cardinality(Due(x)) = 0
    BY <2>2, FS_EmptySet
  <2> QED
    BY <2>1, <2>3, LimiterAssumption DEF PaceInv, Room
<1>2. Inv /\ Inv' /\ PaceInv /\ [Next]_vars => PaceInv'
  BY PaceKeptByStep
<1>3. Inv /\ PaceInv => PaceKept
  <2> SUFFICES ASSUME Inv, PaceInv, sent > 0
               PROVE  (sent - 1) * Interval <= clock
    BY DEF PaceKept
  <2>1. clock \in Nat /\ sent \in Nat /\ Interval \in Nat
    BY LimiterAssumption DEF Inv, TypeOK, LimiterTypeOK
  <2> DEFINE n == sent + Cardinality(Due(clock))
  <2>2. n \in Nat /\ sent <= n
    BY <2>1, DueFinite
  <2>3. Room(n, clock)
    BY <2>1 DEF PaceInv
  <2> HIDE DEF n
  <2>4. n - 1 \in Nat /\ sent - 1 \in Nat /\ sent - 1 <= n - 1
    BY <2>1, <2>2
  <2>5. (sent - 1) * Interval <= (n - 1) * Interval
    BY <2>1, <2>4, TimesMonotone
  <2>6. (n - 1) * Interval \in Nat /\ (sent - 1) * Interval \in Nat
    BY <2>1, <2>4
  <2> QED
    BY <2>1, <2>2, <2>3, <2>5, <2>6 DEF Room
<1> QED
  BY <1>1, <1>2, <1>3, InvHolds, PTL DEF Spec

=============================================================================

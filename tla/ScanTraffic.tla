----------------------------- MODULE ScanTraffic -----------------------------
(***************************************************************************)
(* The threads of one scan that send through its ScanLimiter: run_scan in  *)
(* the main thread and the thread pool of check_sensitive_paths, each      *)
(* request by way of _TrustAdapter.send, down to the snapshot of the       *)
(* limiter that goes into the report.                                      *)
(*                                                                         *)
(* The order of the checks of the main thread is left open: it sends any   *)
(* number of requests before and after the pool.  A TLS connection is a    *)
(* request whose answer asks for no wait.                                  *)
(***************************************************************************)
EXTENDS ScanLimiter, FiniteSets

CONSTANTS Main, Worker,
          Paths,      \* the number of sensitive paths, one future each
          Resends     \* how often urllib3 sends a request again on its own

ASSUME TrafficAssumption ==
  /\ IsFiniteSet(Worker) /\ Main \notin Worker
  /\ Paths \in Nat /\ Resends \in Nat

Thread == Worker \cup {Main}

VARIABLES
  pc,       \* what each thread is doing
  call,     \* the request it is about: its host, acquire's local start until
            \* it is sent, how often it has been sent again
  pool,     \* "unopened", "open" or "closed"
  queued,   \* the futures no worker has taken yet
  raised,   \* how the futures that ended with an exception ended
  sent,     \* history: requests handed to the transport
  report    \* the limits in the report, once there is one

trafficVars == <<pc, call, pool, queued, raised, sent, report>>
vars == <<clock, limiterVars, trafficVars>>

\* "ready": in a check, about to send; "waiting": asleep until its slot;
\* "wire": waiting for an answer.  A worker is "idle" between futures, the
\* main thread "joining" while it waits for the pool, "ending" when it leaves
\* the checks, and "over" with the report made.
Step == {"idle", "ready", "waiting", "wire", "joining", "ending", "over"}
Call == [host : Host, start : Nat, resends : 0 .. Resends]
Snapshot == [requests_sent : Nat, slowdowns : Nat,
             stopped_by : StopReason \cup {None}]

TypeOK ==
  /\ LimiterTypeOK
  /\ pc \in [Thread -> Step]
  /\ call \in [Thread -> Call \cup {None}]
  /\ pool \in {"unopened", "open", "closed"}
  /\ queued \in 0 .. Paths
  /\ raised \subseteq {"limit", "broken"}
  /\ sent \in Nat
  /\ report \in Snapshot \cup {None}

Init ==
  /\ LimiterInit
  /\ pc = [t \in Thread |-> IF t = Main THEN "ready" ELSE "idle"]
  /\ call = [t \in Thread |-> None]
  /\ pool = "unopened" /\ queued = 0 /\ raised = {}
  /\ sent = 0
  /\ report = None

Goto(t, step) == pc' = [pc EXCEPT ![t] = step]

poolVars == <<pool, queued, raised>>

(***************************************************************************)
(* _TrustAdapter.send.                                                     *)
(***************************************************************************)
\* acquire: the slot is taken, the thread sleeps until then.
Acquire(t, h) ==
  /\ pc[t] = "ready"
  /\ Grant(h)
  /\ call' = [call EXCEPT ![t] =
                [host |-> h, start |-> Slot(h), resends |-> 0]]
  /\ Goto(t, "waiting")
  /\ UNCHANGED <<poolVars, sent, report>>

\* Mutant of LimitReached: a worker whose request is refused never ends.
LimitReachedStuck(t, h) ==
  /\ pc[t] = "ready"
  /\ Refuse(h)
  /\ IF t = Main THEN Goto(t, "ending") /\ UNCHANGED raised
     ELSE raised' = raised \cup {"limit"} /\ UNCHANGED pc
  /\ UNCHANGED <<call, pool, queued, sent, report>>

\* acquire raises: out of run_scan's checks in the main thread (the crawl
\* catches it itself and is the last to send), out of its future in a worker.
LimitReached(t, h) ==
  /\ pc[t] = "ready"
  /\ Refuse(h)
  /\ IF t = Main THEN Goto(t, "ending") /\ UNCHANGED raised
     ELSE Goto(t, "idle") /\ raised' = raised \cup {"limit"}
  /\ UNCHANGED <<call, pool, queued, sent, report>>

\* Mutant of Send: the thread does not wait for its slot.
SendNow(t) ==
  /\ pc[t] = "waiting"
  /\ sent' = sent + 1
  /\ call' = [call EXCEPT ![t].start = 0]
  /\ Goto(t, "wire")
  /\ UNCHANGED <<clock, limiterVars, poolVars, report>>

\* The sleep is over, perhaps long after the slot.
Send(t) ==
  /\ pc[t] = "waiting"
  /\ clock >= call[t].start
  /\ sent' = sent + 1
  /\ call' = [call EXCEPT ![t].start = 0]
  /\ Goto(t, "wire")
  /\ UNCHANGED <<clock, limiterVars, poolVars, report>>

\* urllib3 sends again by itself, below the adapter: after a failed
\* connection or read, and after a 413, 429 or 503 with a Retry-After header
\* (its Retry honours that header unless told otherwise).
Resend(t) ==
  /\ pc[t] = "wire"
  /\ call[t].resends < Resends
  /\ call' = [call EXCEPT ![t].resends = @ + 1]
  /\ UNCHANGED <<clock, limiterVars, pc, poolVars, sent, report>>

\* What a thread does after an answer or a network error: the next request
\* of the same job (a redirect hop, the main thread's next check), or the end
\* of a future, with its result or with an error that is not a network error.
Continue(t) ==
  /\ call' = [call EXCEPT ![t] = None]
  /\ \/ Goto(t, "ready") /\ UNCHANGED raised
     \/ t # Main /\ Goto(t, "idle") /\ UNCHANGED raised
     \/ t # Main /\ Goto(t, "idle") /\ raised' = raised \cup {"broken"}

Answer(t) ==
  /\ pc[t] = "wire"
  /\ Continue(t)
  /\ UNCHANGED <<clock, limiterVars, pool, queued, sent, report>>

\* 429 or 503.
AnswerPushBack(t) ==
  /\ pc[t] = "wire"
  /\ PushBack(call[t].host)
  /\ Continue(t)
  /\ UNCHANGED <<pool, queued, sent, report>>

(***************************************************************************)
(* check_sensitive_paths.                                                  *)
(***************************************************************************)
OpenPool ==
  /\ pc[Main] = "ready" /\ pool = "unopened"
  /\ pool' = "open" /\ queued' = Paths
  /\ Goto(Main, "joining")
  /\ UNCHANGED <<clock, limiterVars, call, raised, sent,
                 report>>

TakePath(w) ==
  /\ pc[w] = "idle" /\ queued > 0
  /\ queued' = queued - 1
  /\ Goto(w, "ready")
  /\ UNCHANGED <<clock, limiterVars, call, pool, raised,
                 sent, report>>

\* Mutant of PoolDone: leaving the pool waits for no future in progress.
PoolAbandoned == queued = 0

\* Leaving the pool waits for all futures, those not yet started included.
PoolDone == queued = 0 /\ \A w \in Worker : pc[w] = "idle"

\* fut.result() raises again what the first failed future raised, and which
\* one comes first is open.  ScanLimitReached ends the checks; any other
\* error is a broken check, and the scan goes on.
JoinPool ==
  /\ pc[Main] = "joining" /\ PoolDone
  /\ pool' = "closed"
  /\ \/ raised # {"limit"} /\ Goto(Main, "ready")
     \/ "limit" \in raised /\ Goto(Main, "ending")
  /\ UNCHANGED <<clock, limiterVars, call, queued, raised,
                 sent, report>>

(***************************************************************************)
(* The end of run_scan.                                                    *)
(***************************************************************************)
\* All checks done, or the home page could not be fetched.
ChecksDone ==
  /\ pc[Main] = "ready"
  /\ Goto(Main, "ending")
  /\ UNCHANGED <<clock, limiterVars, call, poolVars, sent,
                 report>>

\* finally: result.limits = limiter.snapshot()
Report ==
  /\ pc[Main] = "ending"
  /\ report' = [requests_sent |-> requests, slowdowns |-> slowdowns,
                stopped_by |-> stoppedBy]
  /\ Goto(Main, "over")
  /\ UNCHANGED <<clock, limiterVars, call, poolVars, sent>>

Work(t) ==
  \/ \E h \in Host : Acquire(t, h) \/ LimitReached(t, h)
  \/ Send(t) \/ Resend(t) \/ Answer(t) \/ AnswerPushBack(t)

MainStep == OpenPool \/ JoinPool \/ ChecksDone \/ Report

TickStep == Tick /\ UNCHANGED trafficVars

Next ==
  \/ \E t \in Thread : Work(t)
  \/ \E w \in Worker : TakePath(w)
  \/ MainStep
  \/ TickStep

Spec == Init /\ [][Next]_vars

\* Threads are scheduled, a request ends within its timeout, time passes.
FairSpec ==
  /\ Spec
  /\ WF_vars(MainStep) /\ WF_vars(TickStep)
  /\ \A t \in Thread : WF_vars(Work(t))
  /\ \A w \in Worker : WF_vars(TakePath(w))

(***************************************************************************)
(* What the limits promise of the scan.                                    *)
(***************************************************************************)
Waiting == {t \in Thread : pc[t] = "waiting"}

\* Every granted request is sent or about to be, and there are never more of
\* them than max_requests, however many threads send
\* (limits.py:120-123).
BudgetKept ==
  /\ requests = sent + Cardinality(Waiting)
  /\ MaxRequests # None => requests <= MaxRequests

\* By any time no more has been sent than the rate allows, for all hosts
\* together: one request at once and one more for each interval that passed
\* (limits.py:74-87).
PaceKept == sent > 0 => (sent - 1) * Interval <= clock

\* The limits in the report are the final ones: when the snapshot is taken no
\* thread of the scan still sends, everything counted has gone out, and the
\* reason of a stop noticed in any thread is in it (cli.py:437-448,
\* exposure.py:42-45).
ReportIsFinal ==
  report # None =>
    /\ \A w \in Worker : pc[w] = "idle"
    /\ report = [requests_sent |-> sent, slowdowns |-> slowdowns,
                 stopped_by |-> stoppedBy]
    /\ "limit" \in raised => report.stopped_by # None

\* A scan with a budget or a deadline ends with a report: at a limit each
\* future still queued fails at once and the pool is left, and no thread
\* sleeps for a slot after the deadline (exposure.py:42-45, limits.py:75-77).
ScanEnds == <>(report # None)

=============================================================================

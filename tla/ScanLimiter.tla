----------------------------- MODULE ScanLimiter -----------------------------
(***************************************************************************)
(* The traffic limits of one scan (limits.py): how fast, how many, how     *)
(* long.  acquire and note_response work on the limiter's fields under its *)
(* lock and are one step each here; what a thread does around them         *)
(* (sleeping to its slot, sending, reading the answer) is in ScanTraffic.  *)
(*                                                                         *)
(* Time is counted in units from the creation of the limiter.              *)
(***************************************************************************)
EXTENDS Integers

CONSTANTS Host, None,
          Interval,       \* 1 / rate_limit, 0 when there is no rate limit
          MaxRequests,    \* max_requests or None
          MaxDuration,    \* max_duration or None
          BackoffSeconds, MaxBackoffSeconds,
          RetryAfter,     \* Retry-After headers: numbers, or None for those
                          \* that are absent or not a number
          MaxTime,        \* bound on the clock
          MaxSlowdowns    \* bound on the 429 and 503 answers

Earlier(s, t) == IF s < t THEN s ELSE t
Later(s, t) == IF s < t THEN t ELSE s

\* The wait after the n-th 429 or 503 answer, when the answer names none.
Backoff(n) == Earlier(BackoffSeconds * 2 ^ (n - 1), MaxBackoffSeconds)

StopReason == {"max-requests", "max-duration"}

ASSUME LimiterAssumption ==
  /\ None \notin Int \cup StopReason
  /\ Interval \in Nat
  /\ MaxRequests \in (Nat \ {0}) \cup {None}
  /\ MaxDuration \in (Nat \ {0}) \cup {None}
  /\ MaxBackoffSeconds \in Nat
  /\ RetryAfter \subseteq Int \cup {None}
  /\ MaxTime \in Nat /\ MaxSlowdowns \in Nat
  /\ \A n \in 1 .. MaxSlowdowns : Backoff(n) \in Nat

VARIABLES
  clock,
  requests, slowdowns, stoppedBy,  \* _requests, _slowdowns, _stopped_by
  nextGlobal, nextByHost,          \* _next_global, _next_by_host
  lastSlot,    \* history: the latest start granted, None before the first
  heldUntil    \* history: the latest time the target has asked to wait for

limiterVars == <<requests, slowdowns, stoppedBy, nextGlobal, nextByHost,
                 lastSlot, heldUntil>>

LimiterTypeOK ==
  /\ clock \in Nat
  /\ requests \in Nat /\ slowdowns \in 0 .. MaxSlowdowns
  /\ stoppedBy \in StopReason \cup {None}
  /\ nextGlobal \in Nat /\ nextByHost \in [Host -> Nat]
  /\ lastSlot \in Nat \cup {None}
  /\ heldUntil \in Nat

LimiterInit ==
  /\ clock = 0
  /\ requests = 0 /\ slowdowns = 0 /\ stoppedBy = None
  /\ nextGlobal = 0 /\ nextByHost = [h \in Host |-> 0]
  /\ lastSlot = None /\ heldUntil = 0

(***************************************************************************)
(* acquire(url), for a URL of host h.                                      *)
(***************************************************************************)
\* Mutant of BudgetSpent: the cap is noticed one request late.
BudgetSpentLate == MaxRequests # None /\ requests > MaxRequests

BudgetSpent == MaxRequests # None /\ requests >= MaxRequests

PastDeadline(t) == MaxDuration # None /\ t >= MaxDuration

Slot(h) == Later(clock, Later(nextGlobal, nextByHost[h]))

\* One more request may start at Slot(h).
Grant(h) ==
  /\ ~BudgetSpent /\ ~PastDeadline(Slot(h))
  /\ requests' = requests + 1
  /\ lastSlot' = Slot(h)
  /\ IF Interval > 0
     THEN /\ nextGlobal' = Slot(h) + Interval
          /\ nextByHost' = [nextByHost EXCEPT ![h] = Slot(h) + Interval]
     ELSE UNCHANGED <<nextGlobal, nextByHost>>
  /\ UNCHANGED <<clock, slowdowns, stoppedBy, heldUntil>>

\* ScanLimitReached.  A slot is never before now, so the two looks at the
\* deadline, at now and at the slot, come to one.
Refuse(h) ==
  /\ \/ BudgetSpent /\ stoppedBy' = "max-requests"
     \/ ~BudgetSpent /\ PastDeadline(Slot(h)) /\ stoppedBy' = "max-duration"
  /\ UNCHANGED <<clock, requests, slowdowns, nextGlobal, nextByHost, lastSlot,
                 heldUntil>>

(***************************************************************************)
(* note_response(url, 429 or 503, retry_after); other answers change       *)
(* nothing.                                                                *)
(***************************************************************************)
Penalty(header) ==
  IF header # None /\ header > 0 THEN Earlier(header, MaxBackoffSeconds)
                                 ELSE Backoff(slowdowns + 1)

\* Mutant of PushBack: the last answer decides, also when it asks for less.
PushBackLatest(h) ==
  /\ slowdowns < MaxSlowdowns
  /\ slowdowns' = slowdowns + 1
  /\ \E header \in RetryAfter :
       LET resume == clock + Penalty(header) IN
       /\ nextGlobal' = resume
       /\ nextByHost' = [nextByHost EXCEPT ![h] = resume]
       /\ heldUntil' = Later(heldUntil, resume)
  /\ UNCHANGED <<clock, requests, stoppedBy, lastSlot>>

\* Mutant of PushBack: only the host that answered is given room.
PushBackHost(h) ==
  /\ slowdowns < MaxSlowdowns
  /\ slowdowns' = slowdowns + 1
  /\ \E header \in RetryAfter :
       LET resume == clock + Penalty(header) IN
       /\ nextByHost' = [nextByHost EXCEPT ![h] = Later(@, resume)]
       /\ heldUntil' = Later(heldUntil, resume)
  /\ UNCHANGED <<clock, requests, stoppedBy, nextGlobal, lastSlot>>

PushBack(h) ==
  /\ slowdowns < MaxSlowdowns
  /\ slowdowns' = slowdowns + 1
  /\ \E header \in RetryAfter :
       LET resume == clock + Penalty(header) IN
       /\ nextGlobal' = Later(nextGlobal, resume)
       /\ nextByHost' = [nextByHost EXCEPT ![h] = Later(@, resume)]
       /\ heldUntil' = Later(heldUntil, resume)
  /\ UNCHANGED <<clock, requests, stoppedBy, lastSlot>>

Tick ==
  /\ clock < MaxTime
  /\ clock' = clock + 1
  /\ UNCHANGED limiterVars

(***************************************************************************)
(* What the limiter promises.                                              *)
(***************************************************************************)
\* Every request is granted a start at least an interval after the last, whatever
\* threads ask, for whatever hosts, and whatever push-backs come between:
\* slots are claimed under the lock before anyone sleeps (limits.py:71-81).
SlotsSpaced ==
  [][requests' > requests /\ lastSlot # None =>
       lastSlot' >= lastSlot + Interval]_<<clock, limiterVars>>

\* The next slot of every host is covered by the global one, so that what is
\* refused to one host is refused to all and a stop needs no memory of the
\* host it was noticed at (limits.py:74-80, 100-101).
GlobalCoversHosts ==
  \A h \in Host : nextByHost[h] <= nextGlobal

\* Once one request has been refused no other is ever granted, and the reason
\* the report gives never changes, although acquire itself never looks at
\* _stopped_by: a later answer, thread or host cannot revive the scan
\* (limits.py:120-129).
StopIsFinal ==
  [][stoppedBy # None => stoppedBy' = stoppedBy /\ requests' = requests]_<<
     clock, limiterVars>>

\* A request granted after the target pushed back starts no earlier than the
\* latest time any answer asked to wait for, also when answers to requests
\* sent together arrive late and ask for less (limits.py:94-101).
BackoffKept ==
  [][requests' > requests => lastSlot' >= heldUntil]_<<
     clock, limiterVars>>

=============================================================================

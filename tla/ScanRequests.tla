---------------------------- MODULE ScanRequests -----------------------------
(***************************************************************************)
(* POST /v1/scans (service/api.py create_scan) down to the transaction of  *)
(* Repository.create_scan: the checks made before it, the moment it reads  *)
(* the clock, idempotency keys and their expiry, and the queue limits.     *)
(* Requests of several agencies run in threads of their own; meanwhile     *)
(* clients are deleted, scans leave the queue, time passes, and the        *)
(* process stops.  Of the runner only the row update that takes a scan off *)
(* the queue appears (see ScanRunner for how it makes it).                 *)
(*                                                                         *)
(* A request body is its client and its target host: these and the other   *)
(* fields are hashed together, and the others would only add more bodies.  *)
(* Time is counted in units of which an idempotency key lives Ttl.         *)
(***************************************************************************)
EXTENDS ScanTable

CONSTANTS Client, ClientAgency,  \* [Client -> Agency], whose client each is
          Key,                   \* Idempotency-Key values
          Request,               \* request-handling threads
          Ttl,                   \* Settings.idempotency_ttl_seconds
          BusyTimeout,           \* the longest wait for BEGIN IMMEDIATE
          MaxTime                \* bound on the clock

ASSUME RequestAssumption ==
  /\ ClientAgency \in [Client -> Agency]
  /\ Ttl \in Nat /\ BusyTimeout \in Nat /\ MaxTime \in Nat
  /\ 0 < BusyTimeout /\ BusyTimeout < Ttl

Body == [client : Client, host : Host]

\* A row of the idempotency table, a request, and how a scan came to be.
KeyRow == [body : Body, scan : Scan, at : Nat]
Call == [agency : Agency, key : Key \cup {None}, body : Body, now : Nat,
         answer : Scan \cup {None}]
Making == [agency : Agency, key : Key \cup {None}, body : Body, at : Nat, done : Nat]

ASSUME NothingAssumption == None \notin Key \cup KeyRow \cup Call \cup Making

VARIABLES
  live,   \* the clients whose status is active
  idem,   \* the idempotency table, by agency and key
  clock,
  pc,     \* where each request is
  call,   \* what each request asks for, the time it read, its answer
  made    \* the request each scan was made for, its created_at and the time
          \* its transaction committed

vars == <<status, agency, host, error, live, idem, clock, pc, call, made>>

Init ==
  /\ TableInit
  /\ live = Client
  /\ idem = [p \in Agency \X Key |-> None]
  /\ clock = 0
  /\ pc = [r \in Request |-> "off"]
  /\ call = [r \in Request |-> None]
  /\ made = [s \in Scan |-> None]

requestVars == <<live, idem, clock, pc, call, made>>

(***************************************************************************)
(* Before the transaction.                                                 *)
(***************************************************************************)
Done(r) ==
  /\ pc' = [pc EXCEPT ![r] = "off"]
  /\ call' = [call EXCEPT ![r] = None]

Goto(r, step) == pc' = [pc EXCEPT ![r] = step]

OwnActive(a, c) == c \in live /\ ClientAgency[c] = a

\* A request that passed authentication, acting for agency a, finds the
\* client it names.  (When it does not it ends with a 404 and no trace.)
Arrive(r) ==
  /\ pc[r] = "off"
  /\ \E a \in Agency, k \in Key \cup {None}, b \in Body :
       /\ OwnActive(a, b.client)
       /\ call' = [call EXCEPT ![r] =
            [agency |-> a, key |-> k, body |-> b, now |-> 0, answer |-> None]]
  /\ Goto(r, "target")
  /\ UNCHANGED <<tableVars, live, idem, clock, made>>

\* After the DNS lookups of refuse_target create_scan starts: it reads the
\* clock, then waits for the write lock of the database.
AcceptTarget(r) ==
  /\ pc[r] = "target"
  /\ call' = [call EXCEPT ![r].now = clock]
  /\ Goto(r, "commit")
  /\ UNCHANGED <<tableVars, live, idem, clock, made>>

RefuseTarget(r) ==
  /\ pc[r] = "target"
  /\ Done(r)
  /\ UNCHANGED <<tableVars, live, idem, clock, made>>

(***************************************************************************)
(* The transaction of create_scan, one action per way out of it.  Raising  *)
(* rolls back, so a refusal undoes the deletion of expired keys as well.   *)
(***************************************************************************)
KeyOf(r) == <<call[r].agency, call[r].key>>

\* Mutant of Purged: keys expire one unit early.
PurgedEarly(r) ==
  [p \in Agency \X Key |->
     IF idem[p] # None /\ idem[p].at <= call[r].now - Ttl + 1
     THEN None ELSE idem[p]]

Purged(r) ==
  IF call[r].key = None THEN idem
  ELSE [p \in Agency \X Key |->
          IF idem[p] # None /\ idem[p].at <= call[r].now - Ttl
          THEN None ELSE idem[p]]

Seen(r) == IF call[r].key = None THEN None ELSE Purged(r)[KeyOf(r)]

\* Mutant of ClientKnown: the check made before the transaction is trusted.
ClientTrusted(r) == TRUE

ClientKnown(r) == OwnActive(call[r].agency, call[r].body.client)

\* Mutant of Refuse: the key is stored although the request is refused.
RefuseKeepingKey(r) ==
  /\ pc[r] = "commit"
  /\ Seen(r) = None /\ call[r].key # None
  /\ ~QueueHasRoom(call[r].agency)
  /\ Rows("none") # {}
  /\ idem' = [idem EXCEPT ![KeyOf(r)] =
                [body |-> call[r].body, at |-> call[r].now,
                 scan |-> CHOOSE s \in Rows("none") : TRUE]]
  /\ Done(r)
  /\ UNCHANGED <<tableVars, live, clock, made>>

\* NotFound, IdempotencyConflict and QueueFull.
Refuse(r) ==
  /\ pc[r] = "commit"
  /\ \/ ~ClientKnown(r)
     \/ Seen(r) # None /\ Seen(r).body # call[r].body
     \/ Seen(r) = None /\ ~QueueHasRoom(call[r].agency)
  /\ Done(r)
  /\ UNCHANGED <<tableVars, live, idem, clock, made>>

\* Mutant of Replay: the body of the first request is not compared.
ReplayAnyBody(r) ==
  /\ pc[r] = "commit"
  /\ ClientKnown(r)
  /\ Seen(r) # None
  /\ idem' = Purged(r)
  /\ call' = [call EXCEPT ![r].answer = Seen(r).scan]
  /\ Goto(r, "pump")
  /\ UNCHANGED <<tableVars, live, clock, made>>

Replay(r) ==
  /\ pc[r] = "commit"
  /\ ClientKnown(r)
  /\ Seen(r) # None
  /\ Seen(r).body = call[r].body
  /\ idem' = Purged(r)
  /\ call' = [call EXCEPT ![r].answer = Seen(r).scan]
  /\ Goto(r, "pump")
  /\ UNCHANGED <<tableVars, live, clock, made>>

\* Ids play no part here, so a new scan takes the next unused one.
NextId == CHOOSE s \in Rows("none") : \A t \in Rows("none") : s <= t

Queue(r) ==
  /\ pc[r] = "commit"
  /\ ClientKnown(r)
  /\ Seen(r) = None
  /\ Rows("none") # {}
  /\ LET s == NextId
         c == call[r] IN
       /\ InsertScan(s, c.agency, c.body.host)
       /\ idem' = IF c.key = None THEN idem
                  ELSE [Purged(r) EXCEPT ![KeyOf(r)] =
                          [body |-> c.body, scan |-> s, at |-> c.now]]
       /\ made' = [made EXCEPT ![s] = [agency |-> c.agency, key |-> c.key,
                                       body |-> c.body, at |-> c.now,
                                       done |-> clock]]
       /\ call' = [call EXCEPT ![r].answer = s]
  /\ Goto(r, "pump")
  /\ UNCHANGED <<live, clock>>

\* runner.pump(), then the 202.
Answer(r) ==
  /\ pc[r] = "pump"
  /\ Done(r)
  /\ UNCHANGED <<tableVars, live, idem, clock, made>>

(***************************************************************************)
(* Everything else.                                                        *)
(***************************************************************************)
DeleteClient(c) ==
  /\ c \in live
  /\ live' = live \ {c}
  /\ UNCHANGED <<tableVars, idem, clock, pc, call, made>>

\* The runner claims a scan.  How the scan ends plays no part here: only
\* rows that are queued count towards the limits.
LeaveQueue(s) ==
  /\ status[s] = "queued"
  /\ MarkRunning(s)
  /\ UNCHANGED requestVars

\* The process stops, with every request in it, and comes back.
Restart ==
  /\ \E r \in Request : pc[r] # "off"
  /\ pc' = [r \in Request |-> "off"]
  /\ call' = [r \in Request |-> None]
  /\ UNCHANGED <<tableVars, live, idem, clock, made>>

\* No transaction waits for the lock longer than BusyTimeout.  The code ends the
\* request that has waited so long with a 500 and no other effect; here time waits
\* for it instead.
Tick ==
  /\ clock < MaxTime
  /\ \A r \in Request : pc[r] = "commit" => clock - call[r].now < BusyTimeout
  /\ clock' = clock + 1
  /\ UNCHANGED <<tableVars, live, idem, pc, call, made>>

Next ==
  \/ \E r \in Request :
       \/ Arrive(r) \/ AcceptTarget(r) \/ RefuseTarget(r)
       \/ Refuse(r) \/ Replay(r) \/ Queue(r) \/ Answer(r)
  \/ \E c \in Client : DeleteClient(c)
  \/ \E s \in Scan : LeaveQueue(s)
  \/ Restart
  \/ Tick

Spec == Init /\ [][Next]_vars

(***************************************************************************)
(* Safety.                                                                 *)
(***************************************************************************)
\* "The same key with the same request returns the first scan and queues
\* nothing" for 24 hours (tutorial.md, Retrying safely): under one key of
\* one agency no second scan is committed within Ttl of the created_at of
\* the first, whatever requests overlap, whichever of them read the clock
\* first, and whoever's request purged the table in between.  (Between the
\* two created_at it may be less: the clock is read before the lock.)
OneScanPerKey ==
  \A s, t \in Scan :
    (/\ s < t /\ made[s] # None /\ made[t] # None
     /\ made[s].key # None
     /\ made[s].key = made[t].key /\ made[s].agency = made[t].agency)
    => made[t].done - made[s].at >= Ttl

\* What a request is answered is a scan of its own agency made for the same
\* body, and for the same key when it had one.
AnswerIsOwn ==
  \A r \in Request : pc[r] = "pump" =>
    LET s == call[r].answer IN
      /\ agency[s] = call[r].agency /\ host[s] = call[r].body.host
      /\ made[s].body = call[r].body /\ made[s].key = call[r].key

\* A refused request leaves nothing behind ("your Idempotency-Key is not
\* used up"): every remembered key leads to the scan it was used for.
KeysLeadToScans ==
  \A p \in Agency \X Key : idem[p] # None =>
    LET s == idem[p].scan IN
      /\ status[s] # "none"
      /\ made[s].agency = p[1] /\ made[s].key = p[2]
      /\ made[s].body = idem[p].body /\ made[s].at = idem[p].at

\* A client deleted after the early check gets no new scan.
NoScanForDeletedClient ==
  [][\A s \in Scan : made[s] = None /\ made'[s] # None =>
       made'[s].body.client \in live]_vars

=============================================================================

------------------------- MODULE ScanRequests_proofs -------------------------
(***************************************************************************)
(* Proofs about ScanRequests, for every number of agencies, clients, keys, *)
(* requests and scans, every queue limit, every lifetime of a key and a    *)
(* clock without end.                                                      *)
(***************************************************************************)
EXTENDS ScanRequests, WellFoundedInduction, TLAPS

Types ==
  /\ TableTypeOK
  /\ live \subseteq Client /\ clock \in Nat
  /\ idem \in [Agency \X Key -> KeyRow \cup {None}]
  /\ pc \in [Request -> {"off", "target", "commit", "pump"}]
  /\ call \in [Request -> Call \cup {None}]
  /\ \A r \in Request : pc[r] # "off" => call[r] \in Call /\ call[r].now <= clock
  /\ made \in [Scan -> Making \cup {None}]

\* A scan is in the table from the moment it was made, as it was asked for, and
\* ids are taken in order.
RowsMade ==
  /\ \A s \in Scan : made[s] = None <=> status[s] = "none"
  /\ \A s \in Scan : made[s] # None =>
       agency[s] = made[s].agency /\ host[s] = made[s].body.host
  /\ \A s, t \in Scan : (s < t /\ made[t] # None) => made[s] # None

\* The heart of it: a scan made with a key is either the one the key still leads
\* to, or as old as a key lives.
KeptOrOld ==
  \A s \in Scan : (made[s] # None /\ made[s].key # None) =>
    \/ made[s].at + Ttl <= clock
    \/ LET p == <<made[s].agency, made[s].key>>
       IN  idem[p] # None /\ idem[p].scan = s

\* A request that is about to be answered has a scan that was made.
Answered ==
  \A r \in Request : pc[r] = "pump" =>
    call[r].answer \in Scan /\ made[call[r].answer] # None

RequestInv ==
  /\ Types /\ RowsMade /\ KeysLeadToScans /\ KeptOrOld /\ Answered
  /\ OneScanPerKey /\ AnswerIsOwn

(* What a transaction reads *)

\* The next id is the least that is unused.
LEMMA NextIdIsLeast ==
  ASSUME Rows("none") # {}
  PROVE  NextId \in Scan /\ status[NextId] = "none" /\ \A t \in Rows("none") : NextId <= t
<1> DEFINE R == OpToRel(<, Nat)
<1>1. IsWellFoundedOn(R, Nat)
  BY NatLessThanWellFounded
<1>2. \A x, y \in Nat : y < x => <<y, x>> \in R
  BY DEF OpToRel
<1>3. Rows("none") \subseteq Nat
  BY TableAssumption DEF Rows
<1> HIDE DEF R
<1>4. PICK x \in Rows("none") : \A y \in Rows("none") : ~ <<y, x>> \in R
  BY <1>1, <1>3, WFMin
<1>5. ASSUME NEW y \in Rows("none")
      PROVE  x <= y
  <2>1. x \in Nat /\ y \in Nat
    BY <1>3
  <2>2. ~(y < x)
    BY <1>2, <1>4, <2>1
  <2> QED
    BY <2>1, <2>2
<1>6. \E s \in Rows("none") : \A t \in Rows("none") : s <= t
  BY <1>5
<1> QED
  BY <1>6 DEF NextId, Rows

\* Purging forgets rows that are as old as a key lives, and no other.
LEMMA PurgedSays ==
  ASSUME Types, NEW r \in Request, pc[r] = "commit"
  PROVE  /\ Purged(r) \in [Agency \X Key -> KeyRow \cup {None}]
         /\ \A p \in Agency \X Key :
              \/ Purged(r)[p] = idem[p]
              \/ idem[p] # None /\ Purged(r)[p] = None /\ idem[p].at + Ttl <= clock
<1>1. /\ call[r].now \in Nat /\ call[r].now <= clock /\ clock \in Nat /\ Ttl \in Nat
      /\ idem \in [Agency \X Key -> KeyRow \cup {None}]
  BY RequestAssumption DEF Types, Call
<1>2. CASE call[r].key = None
  BY <1>1, <1>2 DEF Purged
<1>3. CASE call[r].key # None
  <2>1. ASSUME NEW p \in Agency \X Key
        PROVE  \/ Purged(r)[p] = idem[p]
               \/ idem[p] # None /\ Purged(r)[p] = None /\ idem[p].at + Ttl <= clock
    <3>1. idem[p] # None => idem[p].at \in Nat
      BY <1>1 DEF KeyRow
    <3> QED
      BY <1>1, <1>3, <3>1 DEF Purged
  <2>2. Purged(r) \in [Agency \X Key -> KeyRow \cup {None}]
    BY <1>1, <1>3 DEF Purged
  <2> QED
    BY <2>1, <2>2
<1> QED
  BY <1>2, <1>3

\* What a request sees under its key is a row of the table.
LEMMA SeenSays ==
  ASSUME Types, NEW r \in Request, pc[r] = "commit", Seen(r) # None
  PROVE  call[r].key # None /\ KeyOf(r) \in Agency \X Key /\ Seen(r) = idem[KeyOf(r)]
<1>1. call[r].agency \in Agency /\ call[r].key \in Key \cup {None}
  BY DEF Types, Call
<1>2. call[r].key # None /\ Seen(r) = Purged(r)[KeyOf(r)]
  BY DEF Seen
<1>3. KeyOf(r) \in Agency \X Key
  BY <1>1, <1>2 DEF KeyOf
<1> QED
  BY <1>2, <1>3, PurgedSays

(* The steps *)

\* The steps that make no scan and leave the keys alone.
Quiet ==
  \/ \E r \in Request : Arrive(r) \/ AcceptTarget(r) \/ RefuseTarget(r) \/ Refuse(r) \/ Answer(r)
  \/ \E c \in Client : DeleteClient(c)
  \/ \E s \in Scan : LeaveQueue(s)
  \/ Restart \/ Tick \/ UNCHANGED vars

LEMMA QuietKeeps ==
  ASSUME RequestInv, Quiet
  PROVE  RequestInv'
<1> USE RequestAssumption, NothingAssumption
<1>1. /\ idem' = idem /\ made' = made /\ agency' = agency /\ host' = host
      /\ clock' \in Nat /\ clock' >= clock
  BY DEF Quiet, vars, Arrive, AcceptTarget, RefuseTarget, Refuse, Answer, DeleteClient,
     LeaveQueue, Restart, Tick, tableVars, requestVars, MarkRunning, RequestInv, Types
<1>2. /\ status' \in [Scan -> Status] /\ error' = error
      /\ \A s \in Scan : status'[s] = "none" <=> status[s] = "none"
  BY DEF Quiet, vars, Arrive, AcceptTarget, RefuseTarget, Refuse, Answer, DeleteClient,
     LeaveQueue, Restart, Tick, tableVars, requestVars, MarkRunning, RequestInv, Types,
     TableTypeOK, Status
<1>3. live' \subseteq Client
  BY DEF Quiet, vars, Arrive, AcceptTarget, RefuseTarget, Refuse, Answer, DeleteClient,
     LeaveQueue, Restart, Tick, requestVars, RequestInv, Types
<1>4. /\ pc' \in [Request -> {"off", "target", "commit", "pump"}]
      /\ call' \in [Request -> Call \cup {None}]
      /\ \A r \in Request : pc'[r] # "off" => call'[r] \in Call /\ call'[r].now <= clock'
      /\ \A r \in Request : pc'[r] = "pump" => pc[r] = "pump" /\ call'[r] = call[r]
  <2> DEFINE Calls == /\ pc' \in [Request -> {"off", "target", "commit", "pump"}]
                      /\ call' \in [Request -> Call \cup {None}]
                      /\ \A r \in Request :
                           pc'[r] # "off" => call'[r] \in Call /\ call'[r].now <= clock'
                      /\ \A r \in Request :
                           pc'[r] = "pump" => pc[r] = "pump" /\ call'[r] = call[r]
  <2>0. /\ pc \in [Request -> {"off", "target", "commit", "pump"}]
        /\ call \in [Request -> Call \cup {None}] /\ clock \in Nat
        /\ \A r \in Request : pc[r] # "off" => call[r] \in Call /\ call[r].now <= clock
    BY DEF RequestInv, Types
  <2>1. ASSUME NEW r \in Request, Arrive(r) PROVE Calls
    <3>1. PICK a \in Agency, k \in Key \cup {None}, b \in Body :
            call' = [call EXCEPT ![r] =
              [agency |-> a, key |-> k, body |-> b, now |-> 0, answer |-> None]]
      BY <2>1 DEF Arrive
    <3>2. [agency |-> a, key |-> k, body |-> b, now |-> 0, answer |-> None] \in Call
      BY DEF Call
    <3> QED
      BY <1>1, <2>0, <2>1, <3>1, <3>2 DEF Arrive, Goto
  <2>2. ASSUME NEW r \in Request, AcceptTarget(r) PROVE Calls
    <3>1. [call[r] EXCEPT !.now = clock] \in Call /\ [call[r] EXCEPT !.now = clock].now = clock
      BY <2>0, <2>2 DEF AcceptTarget, Call
    <3> QED
      BY <1>1, <2>0, <2>2, <3>1 DEF AcceptTarget, Goto
  <2>3. ASSUME NEW r \in Request, RefuseTarget(r) \/ Refuse(r) \/ Answer(r) PROVE Calls
    BY <1>1, <2>0, <2>3 DEF RefuseTarget, Refuse, Answer, Done
  <2>4. CASE UNCHANGED <<pc, call>>
    <3>1. \A r \in Request : pc[r] # "off" => call[r].now \in Nat
      BY <2>0 DEF Call
    <3> QED
      BY <1>1, <2>0, <2>4, <3>1
  <2>5. CASE Restart
    BY <1>1, <2>0, <2>5 DEF Restart
  <2> QED
    BY <2>1, <2>2, <2>3, <2>4, <2>5 DEF Quiet, DeleteClient, LeaveQueue, Tick, requestVars, vars
<1>5. Types'
  BY <1>1, <1>2, <1>3, <1>4 DEF RequestInv, Types, TableTypeOK
<1>6. RowsMade' /\ KeysLeadToScans'
  BY <1>1, <1>2 DEF RequestInv, Types, RowsMade, KeysLeadToScans, KeyRow
<1>7. KeptOrOld'
  <2>1. \A s \in Scan : made[s] # None => made[s].at \in Nat
    BY DEF RequestInv, Types, Making
  <2> QED
    BY <1>1, <2>1 DEF RequestInv, Types, KeptOrOld
<1>8. OneScanPerKey' /\ AnswerIsOwn' /\ Answered'
  BY <1>1, <1>4 DEF RequestInv, OneScanPerKey, AnswerIsOwn, Answered
<1> QED
  BY <1>5, <1>6, <1>7, <1>8 DEF RequestInv

\* After a purge the keys that are left lead to their scans, and the scans of the
\* others are old.
LEMMA PurgeKeeps ==
  ASSUME RequestInv, NEW r \in Request, pc[r] = "commit"
  PROVE  \A s \in Scan : (made[s] # None /\ made[s].key # None) =>
           \/ made[s].at + Ttl <= clock
           \/ LET p == <<made[s].agency, made[s].key>>
              IN  Purged(r)[p] # None /\ Purged(r)[p].scan = s
<1> SUFFICES ASSUME NEW s \in Scan, made[s] # None, made[s].key # None,
                    ~(made[s].at + Ttl <= clock)
             PROVE  LET p == <<made[s].agency, made[s].key>>
                    IN  Purged(r)[p] # None /\ Purged(r)[p].scan = s
  OBVIOUS
<1> DEFINE p == <<made[s].agency, made[s].key>>
<1>1. p \in Agency \X Key
  BY DEF RequestInv, Types, Making
<1>2. idem[p] # None /\ idem[p].scan = s
  BY DEF RequestInv, KeptOrOld
<1>3. idem[p].at = made[s].at
  BY <1>1, <1>2 DEF RequestInv, KeysLeadToScans
<1>4. Purged(r)[p] = idem[p]
  BY <1>1, <1>3, PurgedSays DEF RequestInv
<1> QED
  BY <1>2, <1>4

LEMMA ReplayKeeps ==
  ASSUME RequestInv, NEW r \in Request, Replay(r)
  PROVE  RequestInv'
<1> USE RequestAssumption, NothingAssumption
<1> DEFINE c == call[r]  row == idem[KeyOf(r)]
<1>1. /\ pc[r] = "commit" /\ Seen(r) # None /\ Seen(r).body = c.body
      /\ idem' = Purged(r) /\ pc' = [pc EXCEPT ![r] = "pump"]
      /\ call' = [call EXCEPT ![r].answer = Seen(r).scan]
      /\ UNCHANGED <<tableVars, live, clock, made>>
  BY DEF Replay, Goto
<1>2. c.key # None /\ KeyOf(r) \in Agency \X Key /\ Seen(r) = row /\ row \in KeyRow
  BY <1>1, SeenSays DEF RequestInv, Types
<1>3. /\ Purged(r) \in [Agency \X Key -> KeyRow \cup {None}]
      /\ \A p \in Agency \X Key : Purged(r)[p] = idem[p] \/ Purged(r)[p] = None
  BY <1>1, PurgedSays DEF RequestInv
<1>4. /\ c \in Call /\ c.now <= clock /\ call \in [Request -> Call \cup {None}]
      /\ pc \in [Request -> {"off", "target", "commit", "pump"}]
      /\ \A q \in Request : pc[q] # "off" => call[q] \in Call /\ call[q].now <= clock
  BY <1>1 DEF RequestInv, Types
<1>5. /\ [c EXCEPT !.answer = row.scan] \in Call
      /\ [c EXCEPT !.answer = row.scan].now = c.now
      /\ [c EXCEPT !.answer = row.scan].answer = row.scan
      /\ [c EXCEPT !.answer = row.scan].agency = c.agency
      /\ [c EXCEPT !.answer = row.scan].key = c.key
      /\ [c EXCEPT !.answer = row.scan].body = c.body
  BY <1>2, <1>4 DEF Call, KeyRow
<1>6. /\ call' \in [Request -> Call \cup {None}] /\ call'[r] = [c EXCEPT !.answer = row.scan]
      /\ \A q \in Request : q # r => call'[q] = call[q] /\ pc'[q] = pc[q]
      /\ pc'[r] = "pump" /\ pc' \in [Request -> {"off", "target", "commit", "pump"}]
  BY <1>1, <1>2, <1>4, <1>5
<1>7. Types'
  <2>1. TableTypeOK' /\ live' \subseteq Client /\ clock' \in Nat /\ clock' = clock
        /\ made' \in [Scan -> Making \cup {None}]
    BY <1>1 DEF RequestInv, Types, TableTypeOK, tableVars
  <2>2. idem' \in [Agency \X Key -> KeyRow \cup {None}]
    BY <1>1, <1>3
  <2>3. \A q \in Request : pc'[q] # "off" => call'[q] \in Call /\ call'[q].now <= clock'
    <3>1. call'[r] \in Call /\ call'[r].now <= clock'
      BY <1>4, <1>5, <1>6, <2>1
    <3>2. ASSUME NEW q \in Request, q # r, pc'[q] # "off"
          PROVE  call'[q] \in Call /\ call'[q].now <= clock'
      BY <1>4, <1>6, <2>1, <3>2
    <3> QED
      BY <3>1, <3>2
  <2> QED
    BY <1>6, <2>1, <2>2, <2>3 DEF Types
<1>8. RowsMade' /\ KeysLeadToScans'
  BY <1>1, <1>3 DEF RequestInv, RowsMade, KeysLeadToScans, tableVars
<1>9. KeptOrOld'
  BY <1>1, PurgeKeeps DEF KeptOrOld
<1>10. OneScanPerKey'
  BY <1>1 DEF RequestInv, OneScanPerKey
<1>11. AnswerIsOwn'
  <2>1. /\ status[row.scan] # "none" /\ row.scan \in Scan
        /\ made[row.scan].agency = c.agency /\ made[row.scan].key = c.key
        /\ made[row.scan].body = c.body
    BY <1>1, <1>2 DEF RequestInv, KeysLeadToScans, KeyOf, KeyRow
  <2>2. agency[row.scan] = c.agency /\ host[row.scan] = c.body.host
    BY <2>1 DEF RequestInv, RowsMade
  <2>3. /\ call'[r].answer = row.scan /\ call'[r].agency = c.agency
        /\ call'[r].body = c.body /\ call'[r].key = c.key
    BY <1>5, <1>6
  <2>4. agency' = agency /\ host' = host /\ made' = made
    BY <1>1 DEF tableVars
  <2> HIDE DEF c, row
  <2> QED
    BY <1>1, <1>6, <2>1, <2>2, <2>3, <2>4 DEF RequestInv, AnswerIsOwn
<1>12. Answered'
  <2>1. row.scan \in Scan /\ made[row.scan] # None
    BY <1>2 DEF RequestInv, KeysLeadToScans, RowsMade, KeyRow
  <2>2. call'[r].answer = row.scan /\ made' = made
    BY <1>1, <1>5, <1>6
  <2> HIDE DEF c, row
  <2> QED
    BY <1>1, <1>6, <2>1, <2>2 DEF RequestInv, Answered
<1> QED
  BY <1>7, <1>8, <1>9, <1>10, <1>11, <1>12 DEF RequestInv

LEMMA QueueKeeps ==
  ASSUME RequestInv, NEW r \in Request, Queue(r)
  PROVE  RequestInv'
<1> USE RequestAssumption, NothingAssumption
<1> DEFINE c == call[r]  s == NextId
           making == [agency |-> c.agency, key |-> c.key, body |-> c.body,
                      at |-> c.now, done |-> clock]
           row == [body |-> c.body, scan |-> s, at |-> c.now]
<1>1. /\ pc[r] = "commit" /\ Seen(r) = None /\ Rows("none") # {}
      /\ InsertScan(s, c.agency, c.body.host)
      /\ idem' = IF c.key = None THEN idem ELSE [Purged(r) EXCEPT ![KeyOf(r)] = row]
      /\ made' = [made EXCEPT ![s] = making]
      /\ call' = [call EXCEPT ![r].answer = s] /\ pc' = [pc EXCEPT ![r] = "pump"]
      /\ live' = live /\ clock' = clock
  BY DEF Queue, Goto
<1>2. s \in Scan /\ status[s] = "none" /\ \A t \in Rows("none") : s <= t
  BY <1>1, NextIdIsLeast
<1>3. /\ c \in Call /\ c.now <= clock /\ clock \in Nat
      /\ call \in [Request -> Call \cup {None}]
      /\ pc \in [Request -> {"off", "target", "commit", "pump"}]
      /\ \A q \in Request : pc[q] # "off" => call[q] \in Call /\ call[q].now <= clock
      /\ made \in [Scan -> Making \cup {None}]
      /\ idem \in [Agency \X Key -> KeyRow \cup {None}]
  BY <1>1 DEF RequestInv, Types
<1>4. making \in Making /\ row \in KeyRow /\ making # None /\ row # None
  BY <1>2, <1>3 DEF Call, Making, KeyRow
<1>5. /\ [c EXCEPT !.answer = s] \in Call
      /\ [c EXCEPT !.answer = s].now = c.now /\ [c EXCEPT !.answer = s].answer = s
      /\ [c EXCEPT !.answer = s].agency = c.agency /\ [c EXCEPT !.answer = s].key = c.key
      /\ [c EXCEPT !.answer = s].body = c.body
  BY <1>2, <1>3 DEF Call
<1>6. /\ made' \in [Scan -> Making \cup {None}] /\ made'[s] = making
      /\ \A t \in Scan : t # s => made'[t] = made[t]
      /\ made[s] = None
  BY <1>1, <1>2, <1>3, <1>4 DEF RequestInv, RowsMade
<1>7. /\ call' \in [Request -> Call \cup {None}] /\ call'[r] = [c EXCEPT !.answer = s]
      /\ \A q \in Request : q # r => call'[q] = call[q] /\ pc'[q] = pc[q]
      /\ pc'[r] = "pump" /\ pc' \in [Request -> {"off", "target", "commit", "pump"}]
  BY <1>1, <1>3, <1>5
<1>8. /\ TableTypeOK' /\ status'[s] = "queued" /\ agency'[s] = c.agency /\ host'[s] = c.body.host
      /\ \A t \in Scan : t # s =>
           status'[t] = status[t] /\ agency'[t] = agency[t] /\ host'[t] = host[t]
  BY <1>1, <1>2, <1>3 DEF RequestInv, Types, TableTypeOK, InsertScan, Status, Call, Body
<1>9. /\ idem' \in [Agency \X Key -> KeyRow \cup {None}]
      /\ c.key = None => idem' = idem
      /\ c.key # None =>
           /\ KeyOf(r) \in Agency \X Key /\ idem'[KeyOf(r)] = row
           /\ Purged(r)[KeyOf(r)] = None
           /\ \A p \in Agency \X Key : p # KeyOf(r) => idem'[p] = Purged(r)[p]
  <2>1. c.key # None => KeyOf(r) \in Agency \X Key
    BY <1>3 DEF Call, KeyOf
  <2>2. Purged(r) \in [Agency \X Key -> KeyRow \cup {None}]
    BY <1>1, PurgedSays DEF RequestInv
  <2>3. c.key # None => Purged(r)[KeyOf(r)] = None
    BY <1>1 DEF Seen
  <2> HIDE DEF row
  <2> QED
    BY <1>1, <1>3, <1>4, <2>1, <2>2, <2>3
<1> HIDE DEF s
<1>10. Types'
  BY <1>1, <1>3, <1>5, <1>6, <1>7, <1>8, <1>9 DEF RequestInv, Types
<1>11. RowsMade'
  <2>1. \A t \in Scan : t < s => made[t] # None
    <3> SUFFICES ASSUME NEW t \in Scan, t < s, made[t] = None PROVE FALSE
      OBVIOUS
    <3>1. t \in Rows("none")
      BY DEF RequestInv, RowsMade, Rows
    <3> QED
      BY <1>2, <3>1, TableAssumption
  <2>2. \A t \in Scan : ~(t < t)
    BY TableAssumption
  <2>3. making.agency = c.agency /\ making.body.host = c.body.host
    OBVIOUS
  <2> HIDE DEF making
  <2> QED
    BY <1>2, <1>4, <1>6, <1>8, <2>1, <2>2, <2>3 DEF RequestInv, RowsMade
<1>12. KeysLeadToScans'
  <2>1. ASSUME NEW p \in Agency \X Key, idem'[p] # None, idem'[p] = idem[p]
        PROVE  LET t == idem'[p].scan IN
                 /\ status'[t] # "none" /\ made'[t].agency = p[1] /\ made'[t].key = p[2]
                 /\ made'[t].body = idem'[p].body /\ made'[t].at = idem'[p].at
    <3>1. idem[p].scan \in Scan /\ idem[p].scan # s
      BY <1>2, <1>3, <2>1 DEF RequestInv, KeysLeadToScans, KeyRow
    <3> QED
      BY <1>6, <1>8, <2>1, <3>1 DEF RequestInv, KeysLeadToScans
  <2>2. ASSUME c.key # None
        PROVE  LET p == KeyOf(r) IN
                 /\ idem'[p].scan = s /\ status'[s] # "none"
                 /\ made'[s].agency = p[1] /\ made'[s].key = p[2]
                 /\ made'[s].body = idem'[p].body /\ made'[s].at = idem'[p].at
    BY <1>6, <1>8, <1>9, <2>2 DEF KeyOf
  <2>3. \A p \in Agency \X Key :
          \/ idem'[p] = None \/ idem'[p] = idem[p]
          \/ c.key # None /\ p = KeyOf(r)
    BY <1>1, <1>9, PurgedSays DEF RequestInv
  <2> QED
    BY <2>1, <2>2, <2>3 DEF KeysLeadToScans
<1>13. \A t \in Scan : (made[t] # None /\ made[t].key # None) =>
         \/ made[t].at + Ttl <= clock
         \/ LET p == <<made[t].agency, made[t].key>>
            IN  idem'[p] # None /\ idem'[p].scan = t /\ ~(c.key # None /\ p = KeyOf(r))
  <2> SUFFICES ASSUME NEW t \in Scan, made[t] # None, made[t].key # None
               PROVE  \/ made[t].at + Ttl <= clock
                      \/ LET p == <<made[t].agency, made[t].key>>
                         IN  /\ idem'[p] # None /\ idem'[p].scan = t
                             /\ ~(c.key # None /\ p = KeyOf(r))
    OBVIOUS
  <2> DEFINE p == <<made[t].agency, made[t].key>>
  <2>1. p \in Agency \X Key
    BY <1>3 DEF Making
  <2>2. CASE c.key = None
    BY <1>9, <2>2 DEF RequestInv, KeptOrOld
  <2>3. CASE c.key # None
    <3>1. made[t].at + Ttl <= clock \/ (Purged(r)[p] # None /\ Purged(r)[p].scan = t)
      BY <1>1, PurgeKeeps
    <3> QED
      BY <1>9, <2>1, <2>3, <3>1
  <2> QED
    BY <2>2, <2>3
<1>14. KeptOrOld'
  <2>1. c.key # None => idem'[<<making.agency, making.key>>] # None
                        /\ idem'[<<making.agency, making.key>>].scan = s
    BY <1>4, <1>9 DEF KeyOf
  <2> QED
    BY <1>1, <1>6, <1>13, <2>1 DEF KeptOrOld
<1>15. OneScanPerKey'
  <2>1. ASSUME NEW t \in Scan, made[t] # None, made[t].key # None,
               made[t].key = c.key, made[t].agency = c.agency
        PROVE  made'[s].done - made[t].at >= Ttl
    <3>1. <<made[t].agency, made[t].key>> = KeyOf(r)
      BY <2>1 DEF KeyOf
    <3>2. made[t].at + Ttl <= clock /\ made[t].at \in Nat
      BY <1>3, <1>13, <2>1, <3>1 DEF Making
    <3> QED
      BY <1>3, <1>6, <3>2
  <2>2. \A t \in Scan : s < t => made'[t] = None
    BY <1>2, <1>6, TableAssumption DEF RequestInv, RowsMade
  <2>3. \A t \in Scan : ~(t < t)
    BY TableAssumption
  <2>4. making.key = c.key /\ making.agency = c.agency
    OBVIOUS
  <2> HIDE DEF making
  <2> QED
    BY <1>2, <1>6, <2>1, <2>2, <2>3, <2>4 DEF RequestInv, OneScanPerKey
<1>16. AnswerIsOwn'
  <2>1. \A q \in Request : pc[q] = "pump" => call[q].answer \in Scan /\ call[q].answer # s
    BY <1>6 DEF RequestInv, Answered
  <2> QED
    BY <1>1, <1>5, <1>6, <1>7, <1>8, <2>1 DEF RequestInv, AnswerIsOwn
<1>17. Answered'
  <2>1. call'[r].answer = s /\ s \in Scan /\ made'[s] # None
    BY <1>2, <1>4, <1>5, <1>6, <1>7
  <2>2. ASSUME NEW q \in Request, q # r, pc'[q] = "pump"
        PROVE  call'[q].answer \in Scan /\ made'[call'[q].answer] # None
    <3>1. call[q].answer \in Scan /\ made[call[q].answer] # None /\ call'[q] = call[q]
      BY <1>7, <2>2 DEF RequestInv, Answered
    <3> QED
      BY <1>6, <3>1
  <2> QED
    BY <2>1, <2>2 DEF Answered
<1> QED
  BY <1>10, <1>11, <1>12, <1>14, <1>15, <1>16, <1>17 DEF RequestInv

(* The theorems *)

LEMMA RequestInvInitially == Init => RequestInv
<1> SUFFICES ASSUME Init PROVE RequestInv
  OBVIOUS
<1> USE RequestAssumption, NothingAssumption DEF Init, TableInit
<1>1. Types
  BY DEF Types, TableTypeOK, Status
<1>2. RowsMade /\ KeysLeadToScans /\ KeptOrOld
  BY DEF RowsMade, KeysLeadToScans, KeptOrOld
<1>3. OneScanPerKey /\ AnswerIsOwn /\ Answered
  BY DEF OneScanPerKey, AnswerIsOwn, Answered
<1> QED
  BY <1>1, <1>2, <1>3 DEF RequestInv

\* The inductive invariant of the requests and the table of keys
\* (service/api.py, service/db.py create_scan).
THEOREM RequestInvariant == Spec => []RequestInv
<1>1. RequestInv /\ [Next]_vars => RequestInv'
  <2> SUFFICES ASSUME RequestInv, [Next]_vars PROVE RequestInv'
    OBVIOUS
  <2>1. CASE Quiet
    BY <2>1, QuietKeeps
  <2>2. CASE \E r \in Request : Replay(r) \/ Queue(r)
    BY <2>2, ReplayKeeps, QueueKeeps
  <2> QED
    BY <2>1, <2>2 DEF Next, Quiet
<1> QED
  BY <1>1, RequestInvInitially, PTL DEF Spec

\* For every lifetime of a key and any overlap of requests, clock readings and
\* purges, no second scan is committed under a key while the key lives
\* (db.py create_scan, tutorial.md "Retrying safely").
THEOREM OneScanPerKeyEver == Spec => []OneScanPerKey
<1>1. RequestInv => OneScanPerKey
  BY DEF RequestInv
<1> QED
  BY <1>1, RequestInvariant, PTL

\* Whatever is replayed, it is the caller's own scan (api.py create_scan).
THEOREM AnswersAreOwn == Spec => []AnswerIsOwn
<1>1. RequestInv => AnswerIsOwn
  BY DEF RequestInv
<1> QED
  BY <1>1, RequestInvariant, PTL

\* A refused request uses no key up: every remembered key leads to its scan
\* (db.py create_scan).
THEOREM KeysAlwaysLeadToScans == Spec => []KeysLeadToScans
<1>1. RequestInv => KeysLeadToScans
  BY DEF RequestInv
<1> QED
  BY <1>1, RequestInvariant, PTL

\* A client that is deleted between the first check and the transaction gets no
\* scan (db.py create_scan).
THEOREM NoScanForTheDeleted == Spec => NoScanForDeletedClient
<1>1. RequestInv /\ [Next]_vars =>
        [\A s \in Scan : made[s] = None /\ made'[s] # None =>
           made'[s].body.client \in live]_vars
  <2> SUFFICES ASSUME RequestInv, Next, NEW s \in Scan, made[s] = None, made'[s] # None
               PROVE  made'[s].body.client \in live
    BY DEF vars
  <2>1. PICK r \in Request : Queue(r)
    BY DEF Next, Arrive, AcceptTarget, RefuseTarget, Refuse, Replay, Answer, DeleteClient,
       LeaveQueue, Restart, Tick, requestVars
  <2>2. made \in [Scan -> Making \cup {None}]
    BY DEF RequestInv, Types
  <2>3. made'[s].body = call[r].body
    BY <2>1, <2>2 DEF Queue
  <2>4. call[r].body.client \in live
    BY <2>1 DEF Queue, ClientKnown, OwnActive
  <2> QED
    BY <2>3, <2>4
<1> QED
  BY <1>1, RequestInvariant, PTL DEF Spec, NoScanForDeletedClient

=============================================================================

---------------------------- MODULE Service_proofs ----------------------------
(***************************************************************************)
(* Proofs about the two modules of the service's tenants.  ApiKeys: for     *)
(* every number of agencies, keys and requests, every lifetime and every   *)
(* scope, and a clock without end.  Clients: for every number of agencies, *)
(* requests and clients and every size of a page.                          *)
(***************************************************************************)
EXTENDS ApiKeys, Clients, FiniteSetTheorems, SequenceTheorems, WellFoundedInduction, TLAPS

-----------------------------------------------------------------------------
(* ApiKeys                                                                  *)

InProgress(r) == call[r].phase # "none"

\* A key belongs to an agency that exists, which is what makes activating an
\* agency the only way to unlock its keys.
Owned == \A k \in Key : key[k] # None => agency[Owner[k]] # None

\* What a request remembers of its arrival is still so: a key that had ended
\* stays ended, and the key of a suspended agency stays locked until the agency
\* is activated.
Remembered ==
  \A r \in Request : InProgress(r) =>
    /\ call[r].ended => Ended(call[r].key)
    /\ call[r].locked => agency[Owner[call[r].key]] # "active"

\* Between the reading of the key and that of the clock only an expiry can have
\* been missed; nothing is missed after both.
PastRow ==
  \A r \in Request :
    call[r].phase \in {"found", "valid", "timed", "noting", "touching", "known", "working"} =>
      /\ ~call[r].locked
      /\ call[r].ended => call[r].phase = "found" /\ Expired(call[r].key)

InScope ==
  \A r \in Request :
    call[r].phase = "working" => call[r].needs \in Granted[call[r].key]

KeysInv == KeysTypeOK /\ Owned /\ Remembered /\ PastRow /\ InScope


\* A row or a call with one field replaced is one again.
LEMMA RowChanged ==
  ASSUME NEW row \in Row
  PROVE  /\ [row EXCEPT !.revoked = TRUE] \in Row
         /\ \A at \in Nat : [row EXCEPT !.used = at] \in Row
BY DEF Row

LEMMA CallChanged ==
  ASSUME NEW c \in Call
  PROVE  /\ [c EXCEPT !.locked = FALSE] \in Call
         /\ \A p \in {"found", "valid", "timed", "noting", "touching", "known", "working"},
              at \in Nat :
              /\ [c EXCEPT !.phase = p] \in Call
              /\ [c EXCEPT !.phase = p, !.at = at] \in Call
BY DEF Call

\* The row of a key in use.
LEMMA RowOf ==
  ASSUME KeysTypeOK, NEW k \in Key, key[k] # None
  PROVE  key[k] \in Row
BY DEF KeysTypeOK

\* No key is lost, and what has ended stays so.
LEMMA EndedStays ==
  ASSUME KeysTypeOK, [KeysNext]_keyVars, NEW k \in Key, key[k] # None
  PROVE  /\ key'[k] # None /\ key'[k] \in Row
         /\ key'[k].expires = key[k].expires /\ (key[k].revoked => key'[k].revoked)
         /\ now' >= now
<1> DEFINE Goal == /\ key'[k] # None /\ key'[k] \in Row
                   /\ key'[k].expires = key[k].expires /\ (key[k].revoked => key'[k].revoked)
                   /\ now' >= now
<1>0. key[k] \in Row /\ key \in [Key -> Row \cup {None}] /\ now \in Nat
  BY RowOf DEF KeysTypeOK
<1> USE <1>0, KeysAssumption
<1>1. CASE Tick
  BY <1>1 DEF Tick
<1>2. CASE Operator
  <2>1. ASSUME NEW a \in Agency, CreateAgency(a) \/ \E s \in Status : SetAgencyStatus(a, s)
        PROVE  Goal
    BY <2>1 DEF CreateAgency, SetAgencyStatus
  <2>2. ASSUME NEW j \in Key, CreateKey(j)
        PROVE  Goal
    BY <2>2 DEF CreateKey
  <2>3. ASSUME NEW j \in Key, RevokeKey(j)
        PROVE  Goal
    <3>1. CASE j = k
      <4>1. key'[k] = [key[k] EXCEPT !.revoked = TRUE] /\ now' = now
        BY <2>3, <3>1 DEF RevokeKey
      <4> QED
        BY <4>1, RowChanged DEF Row
    <3>2. CASE j # k
      BY <2>3, <3>2 DEF RevokeKey
    <3> QED
      BY <3>1, <3>2
  <2> QED
    BY <1>2, <2>1, <2>2, <2>3 DEF Operator
<1>3. CASE Restart
  BY <1>3 DEF Restart
<1>4. ASSUME NEW r \in Request, Serve(r)
      PROVE  Goal
  <2>1. CASE TouchKey(r)
    <3>1. now' = now /\ call[r].at \in Nat
      BY <2>1 DEF TouchKey, KeysTypeOK, Call
    <3>2. key'[k] = key[k] \/ key'[k] = [key[k] EXCEPT !.used = call[r].at]
      BY <2>1 DEF TouchKey
    <3> QED
      BY <3>1, <3>2, RowChanged DEF Row
  <2>2. CASE ~TouchKey(r)
    BY <1>4, <2>2 DEF Serve, Arrive, FindKey, CheckExpiry, BeginTouch, ReadTouched,
       NoteTouch, TouchBreaks,
       CheckScope, Operate
  <2> QED
    BY <2>1, <2>2
<1>5. CASE UNCHANGED keyVars
  BY <1>5 DEF keyVars
<1> QED
  BY <1>1, <1>2, <1>3, <1>4, <1>5 DEF KeysNext

\* Every variable keeps its type.
LEMMA KeysTypes ==
  ASSUME KeysTypeOK, [KeysNext]_keyVars
  PROVE  KeysTypeOK'
<1> DEFINE Live == \A r \in Request : call[r].phase # "none" =>
                     call[r].key # None /\ key[call[r].key] # None
<1>0. /\ agency \in [Agency -> Status \cup {None}] /\ key \in [Key -> Row \cup {None}]
      /\ now \in Nat /\ touched \in [Key -> Nat \cup {None}]
      /\ call \in [Request -> Call] /\ Live
      /\ NoCall \in Call /\ NoCall.phase = "none"
      /\ \A r \in Request : call[r] \in Call /\ call[r].key \in Key \cup {None}
  BY KeysAssumption DEF KeysTypeOK, NoCall, Call
<1> USE <1>0, KeysAssumption
<1>1. CASE Tick
  BY <1>1 DEF Tick, KeysTypeOK
<1>2. CASE Operator
  <2>1. ASSUME NEW a \in Agency, CreateAgency(a)
        PROVE  KeysTypeOK'
    BY <2>1 DEF CreateAgency, KeysTypeOK, Status
  <2>2. ASSUME NEW a \in Agency, NEW s \in Status, SetAgencyStatus(a, s)
        PROVE  KeysTypeOK'
    <3>1. /\ agency' \in [Agency -> Status \cup {None}]
          /\ UNCHANGED <<key, now, touched>>
      BY <2>2 DEF SetAgencyStatus
    <3>2. \A r \in Request :
            \/ call'[r] = call[r]
            \/ call'[r] = [call[r] EXCEPT !.locked = FALSE]
      BY <2>2 DEF SetAgencyStatus
    <3>3. call' \in [Request -> Call]
      BY <2>2, CallChanged DEF SetAgencyStatus
    <3>4. \A r \in Request : call'[r].phase = call[r].phase /\ call'[r].key = call[r].key
      <4> TAKE r \in Request
      <4>1. call[r] \in Call
        OBVIOUS
      <4> QED
        BY <3>2, <4>1 DEF Call
    <3>5. Live'
      BY <3>1, <3>4
    <3> QED
      BY <3>1, <3>3, <3>5 DEF KeysTypeOK
  <2>3. ASSUME NEW k \in Key, CreateKey(k)
        PROVE  KeysTypeOK'
    <3>1. [expires |-> IF Lifetime[k] = None THEN None ELSE now + Lifetime[k],
           revoked |-> FALSE, used |-> None] \in Row
      BY DEF Row
    <3> QED
      BY <2>3, <3>1 DEF CreateKey, KeysTypeOK
  <2>4. ASSUME NEW k \in Key, RevokeKey(k)
        PROVE  KeysTypeOK'
    <3>1. [key[k] EXCEPT !.revoked = TRUE] \in Row
      BY <2>4, RowOf, RowChanged DEF RevokeKey
    <3> QED
      BY <2>4, <3>1 DEF RevokeKey, KeysTypeOK
  <2> QED
    BY <1>2, <2>1, <2>2, <2>3, <2>4 DEF Operator
<1>3. CASE Restart
  BY <1>3 DEF Restart, KeysTypeOK
<1>4. ASSUME NEW r \in Request, Serve(r)
      PROVE  KeysTypeOK'
  <2>1. ASSUME NEW c \in Call, call' = [call EXCEPT ![r] = c],
               \/ c.phase = "none"
               \/ c.key # None /\ c.key \in Key /\ key'[c.key] # None,
               \A k \in Key : key[k] # None => key'[k] # None
        PROVE  call' \in [Request -> Call] /\ Live'
    BY <2>1
  <2>2. CASE \E k \in Key, scope \in Needed : Arrive(r, k, scope)
    <3> PICK k \in Key, scope \in Needed : Arrive(r, k, scope)
      BY <2>2
    <3> DEFINE c == [phase |-> "asked", key |-> k, needs |-> scope, at |-> 0,
                     ended |-> Ended(k), locked |-> agency[Owner[k]] # "active"]
    <3>1. c \in Call /\ key[k] # None /\ k # None
      BY DEF Arrive, Call, Ended, Expired, Row
    <3> QED
      BY <2>1, <3>1 DEF Arrive, KeysTypeOK
  <2>3. ASSUME EndCall(r), UNCHANGED <<agency, key, now, touched>>
        PROVE  KeysTypeOK'
    BY <2>1, <2>3 DEF EndCall, KeysTypeOK
  <2>4. ASSUME InProgress(r),
               NEW p \in {"found", "valid", "timed", "noting", "touching", "known", "working"},
               NEW at \in Nat,
               \/ call' = [call EXCEPT ![r] = [call[r] EXCEPT !.phase = p]]
               \/ call' = [call EXCEPT ![r] = [call[r] EXCEPT !.phase = p, !.at = at]],
               \A k \in Key : key[k] # None => key'[k] # None
        PROVE  call' \in [Request -> Call] /\ Live'
    <3>1. PICK c \in Call : /\ c = [call[r] EXCEPT !.phase = p]
                               \/ c = [call[r] EXCEPT !.phase = p, !.at = at]
                            /\ call' = [call EXCEPT ![r] = c]
      BY <2>4, CallChanged
    <3>2. c.key = call[r].key
      BY <3>1 DEF Call
    <3>3. call[r].key \in Key /\ call[r].key # None /\ key[call[r].key] # None
      BY <2>4 DEF InProgress
    <3> QED
      BY <2>1, <2>4, <3>1, <3>2, <3>3
  <2>5. CASE FindKey(r)
    BY <2>3, <2>4, <2>5 DEF FindKey, Advance, InProgress, KeysTypeOK
  <2>6. CASE CheckExpiry(r)
    BY <2>3, <2>4, <2>6 DEF CheckExpiry, Advance, InProgress, KeysTypeOK
  <2>11. CASE BeginTouch(r)
    <3>1. /\ now \in Nat /\ UNCHANGED <<agency, key, now, touched>> /\ InProgress(r)
          /\ call' = [call EXCEPT ![r] = [call[r] EXCEPT !.phase = "timed", !.at = now]]
      BY <2>11 DEF BeginTouch, InProgress
    <3> QED
      BY <2>4, <3>1 DEF KeysTypeOK
  <2>12. CASE ReadTouched(r)
    <3>1. /\ UNCHANGED <<agency, key, now, touched>> /\ InProgress(r)
          /\ \/ call' = [call EXCEPT ![r] = [call[r] EXCEPT !.phase = "known", !.at = 0]]
             \/ call' = [call EXCEPT ![r] = [call[r] EXCEPT !.phase = "noting"]]
      BY <2>12 DEF ReadTouched, Advance, InProgress
    <3> QED
      BY <2>4, <3>1 DEF KeysTypeOK
  <2>7. CASE NoteTouch(r)
    BY <2>4, <2>7 DEF NoteTouch, Advance, InProgress, KeysTypeOK, Call
  <2>8. CASE TouchKey(r)
    <3>1. key' \in [Key -> Row \cup {None}] /\ \A k \in Key : key[k] # None => key'[k] # None
      <4>1. \A k \in Key : key[k] # None => key'[k] # None /\ key'[k] \in Row
        BY <1>4, <2>8, EndedStays DEF KeysNext
      <4>2. \A k \in Key : key[k] = None => key'[k] = None
        BY <2>8 DEF TouchKey, InProgress
      <4> QED
        BY <2>8, <4>1, <4>2 DEF TouchKey
    <3> QED
      BY <2>4, <2>8, <3>1 DEF TouchKey, InProgress, KeysTypeOK
  <2>9. CASE TouchBreaks(r) \/ Operate(r)
    BY <2>3, <2>9 DEF TouchBreaks, Operate
  <2>10. CASE CheckScope(r)
    BY <2>3, <2>4, <2>10 DEF CheckScope, Advance, InProgress, KeysTypeOK
  <2> QED
    BY <1>4, <2>2, <2>5, <2>6, <2>7, <2>8, <2>9, <2>10, <2>11, <2>12 DEF Serve
<1>5. CASE UNCHANGED keyVars
  BY <1>5 DEF keyVars, KeysTypeOK
<1> QED
  BY <1>1, <1>2, <1>3, <1>4, <1>5 DEF KeysNext

\* What a request remembers of its key stays true.
LEMMA KeysRemembered ==
  ASSUME KeysInv, KeysTypeOK', [KeysNext]_keyVars
  PROVE  Owned' /\ Remembered'
<1> USE KeysAssumption
<1> DEFINE Over(k) == key'[k].revoked \/ (key'[k].expires # None /\ key'[k].expires <= now')
           Held(r) == /\ call'[r].ended => Over(call'[r].key)
                      /\ call'[r].locked => agency'[Owner[call'[r].key]] # "active"
<1>0. /\ KeysTypeOK /\ Owned /\ Remembered
      /\ \A r \in Request : call[r] \in Call /\ call'[r] \in Call
      /\ \A r \in Request : InProgress(r) =>
           /\ call[r].key \in Key /\ key[call[r].key] # None
           /\ Owner[call[r].key] \in Agency
      /\ agency \in [Agency -> Status \cup {None}] /\ call \in [Request -> Call]
  BY DEF KeysInv, KeysTypeOK, InProgress, Call
<1>1. \A k \in Key : key[k] # None => key'[k] # None /\ (Ended(k) => Over(k))
  <2> TAKE k \in Key
  <2> HAVE key[k] # None
  <2>1. /\ key'[k] # None /\ key'[k] \in Row /\ key[k] \in Row
        /\ key'[k].expires = key[k].expires /\ (key[k].revoked => key'[k].revoked)
        /\ now' >= now /\ now \in Nat /\ now' \in Nat
    BY <1>0, EndedStays, RowOf DEF KeysTypeOK
  <2> QED
    BY <2>1 DEF Ended, Expired, Row
<1>2. Owned'
  <2>1. ASSUME NEW k \in Key, key[k] = None, key'[k] # None
        PROVE  agency[Owner[k]] # None
    <3>1. \A r \in Request : ~TouchKey(r)
      BY <1>0, <2>1 DEF TouchKey, KeysTypeOK
    <3> QED
      BY <1>0, <2>1, <3>1 DEF KeysNext, keyVars, Tick, Operator, CreateAgency, SetAgencyStatus,
         CreateKey, RevokeKey, Restart, Serve, Arrive, FindKey, CheckExpiry, BeginTouch,
         ReadTouched, NoteTouch,
         TouchBreaks, CheckScope, Operate, KeysTypeOK
  <2>2. \A a \in Agency : agency[a] # None => agency'[a] # None
    <3>1. ASSUME NEW b \in Agency, NEW s \in Status,
                 CreateAgency(b) \/ SetAgencyStatus(b, s), NEW a \in Agency, agency[a] # None
          PROVE  agency'[a] # None
      BY <1>0, <3>1 DEF CreateAgency, SetAgencyStatus, Status
    <3>2. \/ \E b \in Agency, s \in Status : CreateAgency(b) \/ SetAgencyStatus(b, s)
          \/ UNCHANGED agency
      BY DEF KeysNext, keyVars, Tick, Operator, CreateKey, RevokeKey, Restart, Serve, Arrive,
         FindKey, CheckExpiry, BeginTouch, ReadTouched, NoteTouch, TouchKey, TouchBreaks,
         CheckScope, Operate, Status
    <3> QED
      BY <3>1, <3>2
  <2> QED
    BY <1>0, <2>1, <2>2 DEF Owned

<1>3. \A r \in Request : InProgress(r)' => Held(r)
  <2> SUFFICES ASSUME NEW r \in Request, InProgress(r)'
               PROVE  Held(r)
    OBVIOUS
  <2> USE <1>0
  <2>1. CASE InProgress(r) /\ call'[r].key = call[r].key
             /\ call'[r].ended = call[r].ended /\ call'[r].locked = call[r].locked
             /\ UNCHANGED agency
    BY <1>1, <2>1 DEF Remembered
  <2>2. CASE Tick \/ UNCHANGED keyVars
    BY <2>1, <2>2 DEF Tick, keyVars, InProgress
  <2>3. ASSUME NEW a \in Agency, CreateAgency(a)
        PROVE  Held(r)
    <3>1. call'[r] = call[r] /\ InProgress(r) /\ agency[a] = None
          /\ agency' = [agency EXCEPT ![a] = "active"]
      BY <2>3 DEF CreateAgency, InProgress
    <3>2. Owner[call[r].key] # a
      BY <3>1 DEF Owned
    <3> QED
      BY <1>1, <3>1, <3>2 DEF Remembered
  <2>4. ASSUME NEW a \in Agency, NEW s \in Status, SetAgencyStatus(a, s)
        PROVE  Held(r)
    <3>1. CASE Owner[call[r].key] = a /\ call[r].key # None /\ s = "active"
      <4>1. call'[r] = [call[r] EXCEPT !.locked = FALSE]
        BY <2>4, <3>1 DEF SetAgencyStatus
      <4>2. /\ ~call'[r].locked /\ call'[r].ended = call[r].ended
            /\ call'[r].key = call[r].key /\ InProgress(r)
        BY <4>1 DEF Call, InProgress
      <4> QED
        BY <1>1, <4>2 DEF Remembered
    <3>2. CASE ~(Owner[call[r].key] = a /\ call[r].key # None /\ s = "active")
      <4>1. call'[r] = call[r] /\ agency' = [agency EXCEPT ![a] = s] /\ key' = key
        BY <2>4, <3>2 DEF SetAgencyStatus
      <4>2. InProgress(r) /\ call[r].key # None
        BY <4>1 DEF InProgress
      <4> QED
        BY <1>1, <2>4, <3>2, <4>1, <4>2 DEF Remembered
    <3> QED
      BY <3>1, <3>2
  <2>5. ASSUME NEW k \in Key, CreateKey(k) \/ RevokeKey(k)
        PROVE  call'[r] = call[r] /\ UNCHANGED agency
    BY <2>5 DEF CreateKey, RevokeKey
  <2>6. CASE Restart
    BY <2>6 DEF Restart, InProgress, NoCall
  <2>7. ASSUME NEW q \in Request, Serve(q), q # r
        PROVE  call'[r] = call[r] /\ UNCHANGED agency
    BY <1>0, <2>7 DEF Serve, Arrive, FindKey, CheckExpiry, BeginTouch, ReadTouched,
       NoteTouch, TouchKey, TouchBreaks,
       CheckScope, Operate, Advance, EndCall, KeysTypeOK
  <2>8. CASE \E k \in Key, scope \in Needed : Arrive(r, k, scope)
    <3> PICK k \in Key, scope \in Needed : Arrive(r, k, scope)
      BY <2>8
    <3>1. /\ call'[r].key = k /\ call'[r].ended = Ended(k)
          /\ call'[r].locked = (agency[Owner[k]] # "active")
          /\ UNCHANGED <<agency, key, now>>
      BY DEF Arrive
    <3> QED
      BY <3>1 DEF Ended, Expired
  <2>9. ASSUME Serve(r), ~\E k \in Key, scope \in Needed : Arrive(r, k, scope)
        PROVE  InProgress(r) /\ call'[r].key = call[r].key
               /\ call'[r].ended = call[r].ended /\ call'[r].locked = call[r].locked
               /\ UNCHANGED agency
    BY <1>0, <2>9 DEF Serve, FindKey, CheckExpiry, BeginTouch, ReadTouched, NoteTouch,
       TouchKey, TouchBreaks,
       CheckScope, Operate, Advance, EndCall, KeysTypeOK, InProgress, NoCall, Call
  <2>10. CASE call'[r] = call[r] /\ UNCHANGED agency
    BY <2>1, <2>10 DEF InProgress
  <2> QED
    BY <2>1, <2>2, <2>3, <2>4, <2>5, <2>6, <2>7, <2>8, <2>9, <2>10 DEF KeysNext, Operator
<1> QED
  BY <1>2, <1>3 DEF Remembered, InProgress, Ended, Expired

\* Nobody is let in on a key that had ended, or beyond its scopes.
LEMMA KeysLetIn ==
  ASSUME KeysInv, KeysTypeOK', [KeysNext]_keyVars
  PROVE  PastRow' /\ InScope'
<1> USE KeysAssumption
<1> DEFINE In == {"found", "valid", "timed", "noting", "touching", "known", "working"}
           Late(k) == key'[k].expires # None /\ key'[k].expires <= now'
           Held(r) == call'[r].phase \in In =>
                        /\ ~call'[r].locked
                        /\ call'[r].ended => call'[r].phase = "found" /\ Late(call'[r].key)
           Scoped(r) == call'[r].phase = "working" =>
                          call'[r].needs \in Granted[call'[r].key]
<1>0. /\ KeysTypeOK /\ Remembered /\ PastRow /\ InScope
      /\ call \in [Request -> Call]
      /\ \A r \in Request : call[r] \in Call /\ call'[r] \in Call
      /\ \A r \in Request : InProgress(r) => call[r].key \in Key /\ key[call[r].key] # None
  BY DEF KeysInv, KeysTypeOK, InProgress, Call
<1>1. \A k \in Key : key[k] # None /\ Expired(k) => Late(k)
  <2> TAKE k \in Key
  <2> HAVE key[k] # None /\ Expired(k)
  <2>1. /\ key'[k] \in Row /\ key[k] \in Row /\ key'[k].expires = key[k].expires
        /\ now' >= now /\ now \in Nat /\ now' \in Nat
    BY <1>0, EndedStays, RowOf DEF KeysTypeOK
  <2> QED
    BY <2>1 DEF Expired, Row
<1>2. ASSUME NEW r \in Request
      PROVE  Held(r) /\ Scoped(r)
  <2> USE <1>0
  <2>1. CASE \/ call'[r] = call[r]
             \/ call'[r] = [call[r] EXCEPT !.locked = FALSE]
    <3>1. /\ call'[r].phase = call[r].phase /\ call'[r].key = call[r].key
          /\ call'[r].needs = call[r].needs /\ call'[r].ended = call[r].ended
          /\ call'[r].locked => call[r].locked
      BY <2>1 DEF Call
    <3> QED
      BY <1>1, <3>1 DEF PastRow, InScope, InProgress
  <2>2. CASE call'[r].phase \notin In
    BY <2>2
  <2>3. CASE FindKey(r)
    <3>1. CASE KeyWorks(call[r].key)
      <4>1. /\ call'[r] = [call[r] EXCEPT !.phase = "found"] /\ InProgress(r)
            /\ UNCHANGED <<key, now>>
        BY <2>3, <3>1 DEF FindKey, Advance, InProgress
      <4>2. /\ call'[r].phase = "found" /\ call'[r].key = call[r].key
            /\ call'[r].ended = call[r].ended /\ call'[r].locked = call[r].locked
        BY <4>1 DEF Call
      <4>3. ~call[r].locked /\ (call[r].ended => Expired(call[r].key))
        BY <3>1, <4>1 DEF KeyWorks, Remembered, Ended
      <4> QED
        BY <4>1, <4>2, <4>3 DEF Expired
    <3>2. CASE ~KeyWorks(call[r].key)
      BY <2>2, <2>3, <3>2 DEF FindKey, EndCall, NoCall
    <3> QED
      BY <3>1, <3>2
  <2>4. CASE CheckExpiry(r)
    <3>1. CASE Expired(call[r].key)
      BY <2>2, <2>4, <3>1 DEF CheckExpiry, EndCall, NoCall
    <3>2. CASE ~Expired(call[r].key)
      <4>1. /\ call[r].phase = "found"
            /\ call'[r] = [call[r] EXCEPT !.phase = "valid"]
        BY <2>4, <3>2 DEF CheckExpiry, Advance
      <4>2. /\ call'[r].phase = "valid"
            /\ call'[r].ended = call[r].ended /\ call'[r].locked = call[r].locked
        BY <4>1 DEF Call
      <4> QED
        BY <3>2, <4>1, <4>2 DEF PastRow
    <3> QED
      BY <3>1, <3>2
  <2>5. CASE BeginTouch(r) \/ ReadTouched(r) \/ NoteTouch(r) \/ TouchKey(r)
    <3>1. /\ call[r].phase \in {"valid", "timed", "noting", "touching"}
          /\ \/ call'[r] = [call[r] EXCEPT !.phase = "timed", !.at = now]
             \/ \E p \in {"noting", "touching"} : call'[r] = [call[r] EXCEPT !.phase = p]
             \/ call'[r] = [call[r] EXCEPT !.phase = "known", !.at = 0]
      BY <2>5 DEF BeginTouch, ReadTouched, NoteTouch, TouchKey, Advance
    <3>2. /\ call'[r].phase \in {"timed", "noting", "touching", "known"}
          /\ call'[r].ended = call[r].ended /\ call'[r].locked = call[r].locked
      BY <3>1 DEF Call
    <3> QED
      BY <3>1, <3>2 DEF PastRow
  <2>6. CASE CheckScope(r)
    <3>1. CASE call[r].needs \in Granted[call[r].key]
      <4>1. /\ call[r].phase = "known"
            /\ call'[r] = [call[r] EXCEPT !.phase = "working"]
        BY <2>6, <3>1 DEF CheckScope, Advance
      <4>2. /\ call'[r].phase = "working" /\ call'[r].key = call[r].key
            /\ call'[r].needs = call[r].needs
            /\ call'[r].ended = call[r].ended /\ call'[r].locked = call[r].locked
        BY <4>1 DEF Call
      <4> QED
        BY <3>1, <4>1, <4>2 DEF PastRow
    <3>2. CASE call[r].needs \notin Granted[call[r].key]
      BY <2>2, <2>6, <3>2 DEF CheckScope, EndCall, NoCall
    <3> QED
      BY <3>1, <3>2
  <2>7. CASE TouchBreaks(r) \/ Operate(r) \/ Restart
    BY <2>2, <2>7 DEF TouchBreaks, Operate, Restart, EndCall, NoCall
  <2>8. CASE \E k \in Key, scope \in Needed : Arrive(r, k, scope)
    BY <2>2, <2>8 DEF Arrive
  <2>9. CASE \E q \in Request : q # r /\ Serve(q)
    BY <2>1, <2>9 DEF Serve, Arrive, FindKey, CheckExpiry, BeginTouch, ReadTouched,
       NoteTouch, TouchKey, TouchBreaks,
       CheckScope, Operate, Advance, EndCall
  <2>10. CASE Tick \/ Operator \/ UNCHANGED keyVars
    <3>1. \/ call'[r] = call[r]
          \/ call'[r] = [call[r] EXCEPT !.locked = FALSE]
      BY <2>10 DEF Tick, Operator, keyVars, CreateAgency, SetAgencyStatus, CreateKey, RevokeKey
    <3> QED
      BY <2>1, <3>1
  <2> QED
    BY <2>3, <2>4, <2>5, <2>6, <2>7, <2>8, <2>9, <2>10 DEF KeysNext, Serve
<1> QED
  BY <1>2 DEF PastRow, InScope, Expired

-----------------------------------------------------------------------------
(* The theorems.                                                            *)

THEOREM KeysInvariant == KeysSpec => []KeysInv
<1>1. KeysInit => KeysInv
  BY KeysAssumption DEF KeysInit, KeysInv, KeysTypeOK, Owned, Remembered, PastRow, InScope, InProgress,
     NoCall, Call
<1>2. KeysInv /\ [KeysNext]_keyVars => KeysInv'
  BY KeysTypes, KeysRemembered, KeysLetIn DEF KeysInv
<1> QED
  BY <1>1, <1>2, PTL DEF KeysSpec

\* Every variable of the authentication has its type, and a request under way
\* has a key that exists (db.py, api.py).
THEOREM KeysTypeCorrect == KeysSpec => []KeysTypeOK
<1>1. KeysInv => KeysTypeOK
  BY DEF KeysInv
<1> QED
  BY <1>1, KeysInvariant, PTL

\* Whatever the operator does meanwhile, no request gets past authentication with
\* a key that had ended when it arrived or whose agency was suspended, nor
\* further than the scopes of its key (api.py:172-198).
THEOREM NoKeyEverAfterItsEnd == KeysSpec => []NoKeyAfterItsEnd
<1>1. KeysInv => NoKeyAfterItsEnd
  BY DEF KeysInv, PastRow, InScope, NoKeyAfterItsEnd
<1> QED
  BY <1>1, KeysInvariant, PTL

\* However requests overlap and the service restarts, last_used_at only moves
\* forward, by more than the resolution, and no key is ever brought back
\* (db.py:259-291).
THEOREM KeyRowsChangeRightly == KeysSpec => KeyRowChanges
<1>1. ASSUME KeysTypeOK, [KeysNext]_keyVars, NEW k \in Key, key[k] # None, key'[k] # key[k]
      PROVE  \/ /\ key'[k] = [key[k] EXCEPT !.used = key'[k].used]
                /\ key[k].used # None => key'[k].used > key[k].used + Resolution
             \/ key'[k] = [key[k] EXCEPT !.revoked = TRUE]
  <2> USE <1>1, KeysAssumption
  <2>0. key[k] \in Row /\ key \in [Key -> Row \cup {None}]
    BY RowOf DEF KeysTypeOK
  <2>1. CASE \E r \in Request : TouchKey(r)
    <3> PICK r \in Request : TouchKey(r)
      BY <2>1
    <3> DEFINE at == call[r].at
    <3>1. at \in Nat
      BY DEF KeysTypeOK, Call
    <3>2. key'[k] = [key[k] EXCEPT !.used = at] /\ Stale(k, at)
      BY <2>0 DEF TouchKey
    <3> HIDE DEF at
    <3>3. key'[k].used = at
      BY <2>0, <3>2 DEF Row
    <3> QED
      BY <2>0, <3>1, <3>2, <3>3 DEF Stale, Row
  <2>2. CASE \E j \in Key : RevokeKey(j)
    BY <2>0, <2>2 DEF RevokeKey
  <2>3. CASE ~\E r \in Request : TouchKey(r)
    BY <2>0, <2>2, <2>3 DEF KeysNext, keyVars, Tick, Operator, CreateAgency, SetAgencyStatus, CreateKey,
       Restart, Serve, Arrive, FindKey, CheckExpiry, BeginTouch, ReadTouched, NoteTouch,
       TouchBreaks, CheckScope, Operate
  <2> QED
    BY <2>1, <2>3
<1>2. KeysTypeOK /\ [KeysNext]_keyVars =>
        [\A k \in Key : (key[k] # None /\ key'[k] # key[k]) =>
           \/ /\ key'[k] = [key[k] EXCEPT !.used = key'[k].used]
              /\ key[k].used # None => key'[k].used > key[k].used + Resolution
           \/ key'[k] = [key[k] EXCEPT !.revoked = TRUE]]_keyVars
  BY <1>1
<1> QED
  BY <1>2, KeysTypeCorrect, PTL DEF KeysSpec, KeyRowChanges

-----------------------------------------------------------------------------
(* Clients                                                                  *)

Client == [agency : Agency, ref : Ref \cup {None}, status : {"active", "deleted"}]
Pending == [agency : Agency, op : {"create", "update", "delete"}, id : Id,
            ref : Ref \cup {None}]

ClientsTypeOK ==
  /\ clients \in [Id -> Client \cup {None}]
  /\ request \in [Request -> Pending \cup {Quiet}]
  /\ walk \in [agency : Agency \cup {None}, cursor : Nat, seen : Seq(SUBSET Id),
               first : SUBSET Id, done : BOOLEAN]

Creating(r) == request[r].op = "create"

\* The id of a client that is being created is its own: nobody has it yet.
Reserved ==
  /\ \A r \in Request : Creating(r) => clients[request[r].id] = None
  /\ \A q, r \in Request :
       Creating(q) /\ Creating(r) /\ request[q].id = request[r].id => q = r

\* Where the walk is: what it has seen lies before its cursor, in order, and all
\* that it should have seen there it has.
Own == \A p \in DOMAIN walk.seen : \A i \in walk.seen[p] :
         clients[i] # None /\ clients[i].agency = walk.agency
Behind == ~walk.done => \A p \in DOMAIN walk.seen : \A i \in walk.seen[p] : i <= walk.cursor
InOrder == \A p, q \in DOMAIN walk.seen :
             p < q => \A i \in walk.seen[p], j \in walk.seen[q] : i < j
Covered ==
  /\ \A i \in walk.first : clients[i] # None
  /\ \A i \in walk.first \cap Active(walk.agency) :
       walk.done \/ i <= walk.cursor => \E p \in DOMAIN walk.seen : i \in walk.seen[p]

ClientsInv == ClientsTypeOK /\ Reserved /\ Own /\ Behind /\ InOrder /\ Covered

(* Pages *)

\* The parts of a set of ids are finite.
LEMMA IdsFinite ==
  ASSUME NEW S \in SUBSET Id
  PROVE  IsFiniteSet(S) /\ Cardinality(S) \in Nat
<1>1. IsFiniteSet(Id)
  BY ClientsAssumption, FS_Interval DEF Id
<1> QED
  BY <1>1, FS_Subset, FS_CardinalityType

\* A set of ids that is not empty has a least element.
LEMMA Smallest ==
  ASSUME NEW S \in SUBSET Id, S # {}
  PROVE  \E m \in S : \A y \in S : m <= y
<1> DEFINE R == OpToRel(<, Nat)
<1>1. IsWellFoundedOn(R, Nat) /\ \A x, y \in Nat : y < x => <<y, x>> \in R
  BY NatLessThanWellFounded DEF OpToRel
<1>2. S \subseteq Nat
  BY DEF Id
<1> HIDE DEF R
<1>3. PICK m \in S : \A y \in S : ~ <<y, m>> \in R
  BY <1>1, <1>2, WFMin
<1>4. \A y \in S : ~(y < m)
  BY <1>1, <1>2, <1>3
<1> QED
  BY <1>2, <1>4

\* And a greatest one.
LEMMA Greatest ==
  ASSUME NEW S \in SUBSET Id, S # {}
  PROVE  Max(S) \in S /\ \A y \in S : y <= Max(S)
<1> DEFINE U == {m \in Id : \A y \in S : y <= m}
<1>1. MaxClients \in Nat /\ Id = 1 .. MaxClients
  BY ClientsAssumption DEF Id
<1>2. MaxClients \in U /\ U \in SUBSET Id
  <2>1. PICK y \in S : TRUE
    OBVIOUS
  <2>2. y \in Id /\ \A x \in S : x \in Id
    OBVIOUS
  <2>3. MaxClients \in Id /\ \A x \in S : x <= MaxClients
    BY <1>1, <2>2
  <2> QED
    BY <2>3
<1>3. PICK m \in U : \A u \in U : m <= u
  BY <1>2, Smallest
<1>4. m \in S
  <2> SUFFICES ASSUME m \notin S PROVE FALSE
    OBVIOUS
  <2>1. m \in 1 .. MaxClients /\ \A y \in S : y \in 1 .. MaxClients /\ y <= m /\ y # m
    BY <1>1, <1>3
  <2>2. \A y \in S : y <= m - 1
    BY <1>1, <2>1
  <2>3. PICK y \in S : TRUE
    OBVIOUS
  <2>4. m - 1 \in 1 .. MaxClients
    BY <1>1, <2>1, <2>2, <2>3
  <2>5. m - 1 \in U
    BY <1>1, <2>2, <2>4
  <2> QED
    BY <1>1, <1>3, <2>1, <2>5
<1>5. \E x \in S : \A y \in S : x >= y
  BY <1>1, <1>3, <1>4
<1>6. Max(S) \in S /\ \A y \in S : Max(S) >= y
  BY <1>5 DEF Max
<1> QED
  BY <1>1, <1>6

Below(S, x) == {j \in S : j < x}

\* What Least leaves out comes after what it takes.
LEMMA LeastFirst ==
  ASSUME NEW S \in SUBSET Id, NEW n \in Nat, NEW x \in Least(S, n), NEW y \in S, y < x
  PROVE  y \in Least(S, n)
<1>1. x \in Id /\ y \in Id /\ x \in Nat /\ y \in Nat
  BY DEF Least, Id
<1>2. Below(S, y) \in SUBSET Below(S, x) /\ Below(S, x) \in SUBSET Id
  <2>1. ASSUME NEW j \in S, j < y
        PROVE  j < x
    <3>1. j \in Nat
      BY DEF Id
    <3> QED
      BY <1>1, <2>1, <3>1
  <2> QED
    BY <2>1 DEF Below
<1>3. Cardinality(Below(S, y)) <= Cardinality(Below(S, x))
      /\ Cardinality(Below(S, y)) \in Nat /\ Cardinality(Below(S, x)) \in Nat
  BY <1>2, IdsFinite, FS_Subset
<1>4. Cardinality(Below(S, x)) < n
  BY DEF Least, Below
<1>5. Cardinality(Below(S, y)) < n
  BY <1>3, <1>4
<1> QED
  BY <1>5 DEF Least, Below

\* Least takes something when there is something and it may.
LEMMA LeastSome ==
  ASSUME NEW S \in SUBSET Id, NEW n \in Nat \ {0}, S # {}
  PROVE  Least(S, n) # {}
<1>1. PICK m \in S : \A y \in S : m <= y
  BY Smallest
<1>2. Below(S, m) = {}
  <2>1. \A y \in S : y \in Nat
    BY DEF Id
  <2> QED
    BY <1>1, <2>1 DEF Below
<1>3. Cardinality(Below(S, m)) < n
  BY <1>2, FS_EmptySet
<1> QED
  BY <1>1, <1>3 DEF Least, Below

RowsOf(S) == Least(S, PageSize + 1)
PageOf(S) == Least(RowsOf(S), PageSize)

\* A page that is all the rows read is all there is.
LEMMA LastPage ==
  ASSUME NEW S \in SUBSET Id, RowsOf(S) = PageOf(S)
  PROVE  PageOf(S) = S
<1>1. PageSize \in Nat /\ PageSize + 1 \in Nat \ {0}
  BY ClientsAssumption
<1>2. PageOf(S) \subseteq S /\ PageOf(S) \in SUBSET Id /\ RowsOf(S) \in SUBSET Id
  BY DEF PageOf, RowsOf, Least
<1> SUFFICES ASSUME S \ PageOf(S) # {} PROVE FALSE
  BY <1>2
<1>3. PICK m \in S \ PageOf(S) : \A y \in S \ PageOf(S) : m <= y
  BY Smallest
<1>4. \A j \in S : j \in Nat
  BY DEF Id
<1>5. Below(S, m) \subseteq PageOf(S)
  BY <1>3, <1>4 DEF Below
<1>6. PageOf(S) # {}
  BY <1>1, <1>3, LeastSome DEF RowsOf
<1> DEFINE z == Max(PageOf(S))
<1>7. z \in PageOf(S) /\ \A y \in PageOf(S) : y <= z
  BY <1>2, <1>6, Greatest
<1> HIDE DEF z
<1>8. Cardinality(Below(RowsOf(S), z)) < PageSize
  BY <1>7 DEF PageOf, Least, Below
<1>9. Below(S, m) \in SUBSET (Below(RowsOf(S), z) \cup {z})
  <2>1. \A j \in PageOf(S) : j = z \/ j < z
    BY <1>2, <1>4, <1>7
  <2> QED
    BY <1>5, <2>1 DEF Below
<1>10. /\ IsFiniteSet(Below(RowsOf(S), z)) /\ Cardinality(Below(RowsOf(S), z)) \in Nat
       /\ z \notin Below(RowsOf(S), z) /\ Cardinality(Below(S, m)) \in Nat
  <2>1. Below(RowsOf(S), z) \in SUBSET Id /\ Below(S, m) \in SUBSET Id
    BY <1>2 DEF Below
  <2>2. z \in Nat
    BY <1>2, <1>4, <1>7
  <2> QED
    BY <2>1, <2>2, IdsFinite DEF Below
<1>11. /\ IsFiniteSet(Below(RowsOf(S), z) \cup {z})
       /\ Cardinality(Below(RowsOf(S), z) \cup {z}) = Cardinality(Below(RowsOf(S), z)) + 1
  BY <1>10, FS_AddElement
<1>12. Cardinality(Below(S, m)) <= Cardinality(Below(RowsOf(S), z)) + 1
  BY <1>9, <1>11, FS_Subset
<1>13. Cardinality(Below(S, m)) < PageSize + 1
  BY <1>1, <1>8, <1>10, <1>12
<1>14. m \in RowsOf(S)
  BY <1>3, <1>13 DEF RowsOf, Least, Below
<1> QED
  BY <1>3, <1>14

\* Any other page has a last client, and every client before that one.
LEMMA PageSays ==
  ASSUME NEW S \in SUBSET Id, RowsOf(S) # PageOf(S)
  PROVE  /\ Max(PageOf(S)) \in PageOf(S)
         /\ \A y \in PageOf(S) : y <= Max(PageOf(S))
         /\ \A j \in S : j <= Max(PageOf(S)) => j \in PageOf(S)
<1>1. PageSize \in Nat \ {0} /\ PageSize + 1 \in Nat /\ PageSize \in Nat
  BY ClientsAssumption
<1>2. PageOf(S) \in SUBSET Id /\ RowsOf(S) \in SUBSET Id /\ PageOf(S) \subseteq RowsOf(S)
  BY DEF PageOf, RowsOf, Least
<1>3. PageOf(S) # {}
  <2>1. RowsOf(S) # {}
    BY <1>2
  <2> QED
    BY <1>1, <1>2, <2>1, LeastSome DEF PageOf
<1> DEFINE z == Max(PageOf(S))
<1>4. z \in PageOf(S) /\ \A y \in PageOf(S) : y <= z
  BY <1>2, <1>3, Greatest
<1> HIDE DEF z
<1>5. ASSUME NEW j \in S, j <= z
      PROVE  j \in PageOf(S)
  <2>1. j \in Nat /\ z \in Nat
    BY <1>2, <1>4 DEF Id
  <2>2. CASE j < z
    <3>1. j \in RowsOf(S)
      BY <1>1, <1>2, <1>4, <2>2, LeastFirst DEF RowsOf
    <3> QED
      BY <1>1, <1>2, <1>4, <2>2, <3>1, LeastFirst DEF PageOf
  <2> QED
    BY <1>4, <1>5, <2>1, <2>2
<1> QED
  BY <1>4, <1>5 DEF z

(* The clients *)

LEMMA Distinct ==
  /\ None \notin Client /\ None \notin {"create", "update", "delete"}
  /\ \A action \in {"client.create", "client.update", "client.delete"}, i \in Id, a \in Agency :
       Entry(action, i, a) # None
  /\ Quiet.op = None /\ Quiet \notin Pending
BY ClientsAssumption DEF Client, Entry, Id, Quiet, Pending

\* A request is taken in, for a client that is new if it is to create one.
Arrives(r, a, op, i, ref) ==
  /\ Receive(r, a, op, i, ref)
  /\ op = "create" =>
       clients[i] = None /\ \A q \in Request : Creating(q) => request[q].id # i
  /\ NoAudit /\ UNCHANGED <<clients, walk>>

\* A request ends and leaves the clients as they were.
Ends(r) ==
  /\ Leave(r) /\ UNCHANGED <<clients, walk>>
  /\ audit' = None \/ \E i \in Id, a \in Agency : Audit("client.update", i, a)

Inserts(r) == Creating(r) /\ CreateClient(r) /\ ~Taken(request[r].agency, request[r].ref)

Deletes(r) ==
  request[r].op = "delete" /\ DeleteClient(r) /\ Deletable(request[r].agency, request[r].id)

Walks ==
  /\ ListClients \/ EndWalk \/ \E a \in Agency : BeginWalk(a)
  /\ UNCHANGED <<clients, request>>

ClientsStep ==
  \/ Walks
  \/ \E r \in Request :
       \/ Ends(r) \/ Inserts(r) \/ Deletes(r)
       \/ \E a \in Agency, i \in Id, ref \in Ref \cup {None},
             op \in {"create", "update", "delete"} : Arrives(r, a, op, i, ref)

\* What is known of a request that is under way.
LEMMA UnderWay ==
  ASSUME ClientsTypeOK, NEW r \in Request, request[r].op \in {"create", "update", "delete"}
  PROVE  /\ request[r] \in Pending
         /\ request[r].agency \in Agency /\ request[r].id \in Id
         /\ request[r].ref \in Ref \cup {None}
<1>1. request[r] \in Pending
  BY Distinct DEF ClientsTypeOK
<1> QED
  BY <1>1 DEF Pending

\* Every step is one of these.
LEMMA NextIsStep ==
  ASSUME ClientsTypeOK, ClientsNext
  PROVE  ClientsStep
<1>1. CASE ListClients \/ EndWalk \/ \E a \in Agency : BeginWalk(a)
  BY <1>1 DEF ClientsStep, Walks, ListClients, EndWalk, BeginWalk
<1>2. ASSUME NEW r \in Request, NEW a \in Agency, NEW i \in Id, NEW ref \in Ref \cup {None},
             NewClient(r, a, i, ref)
      PROVE  ClientsStep
  <2>1. Arrives(r, a, "create", i, ref)
    BY <1>2 DEF NewClient, Arrives, Creating
  <2> QED
    BY <2>1 DEF ClientsStep
<1>3. ASSUME NEW r \in Request, NEW a \in Agency, NEW i \in Id, NEW op \in {"update", "delete"},
             Ask(r, a, op, i)
      PROVE  ClientsStep
  <2>1. Arrives(r, a, op, i, None)
    BY <1>3 DEF Ask, Arrives
  <2> QED
    BY <2>1 DEF ClientsStep
<1>4. ASSUME NEW r \in Request, CreateClient(r)
      PROVE  ClientsStep
  <2>1. CASE Taken(request[r].agency, request[r].ref)
    BY <1>4, <2>1 DEF ClientsStep, Ends, CreateClient, NoAudit
  <2>2. CASE ~Taken(request[r].agency, request[r].ref)
    BY <1>4, <2>2 DEF ClientsStep, Inserts, CreateClient, Creating
  <2> QED
    BY <2>1, <2>2
<1>5. ASSUME NEW r \in Request, UpdateClient(r)
      PROVE  ClientsStep
  <2>1. request[r].agency \in Agency /\ request[r].id \in Id
    BY <1>5, UnderWay DEF UpdateClient
  <2>2. Ends(r)
    BY <1>5, <2>1 DEF Ends, UpdateClient, NoAudit
  <2> QED
    BY <2>2 DEF ClientsStep
<1>6. ASSUME NEW r \in Request, DeleteClient(r)
      PROVE  ClientsStep
  <2>1. CASE Deletable(request[r].agency, request[r].id)
    BY <1>6, <2>1 DEF ClientsStep, Deletes, DeleteClient
  <2>2. CASE ~Deletable(request[r].agency, request[r].id)
    BY <1>6, <2>2 DEF ClientsStep, Ends, DeleteClient, NoAudit
  <2> QED
    BY <2>1, <2>2
<1>7. ASSUME NEW r \in Request, Breaks(r)
      PROVE  ClientsStep
  BY <1>7 DEF ClientsStep, Ends, Breaks, NoAudit
<1> QED
  BY <1>1, <1>2, <1>3, <1>4, <1>5, <1>6, <1>7 DEF ClientsNext

\* What an insert and a delete do.
LEMMA InsertSays ==
  ASSUME ClientsTypeOK, Reserved, NEW r \in Request, Inserts(r)
  PROVE  /\ request[r].id \in Id /\ request[r].agency \in Agency
         /\ clients[request[r].id] = None
         /\ clients' \in [Id -> Client \cup {None}]
         /\ clients'[request[r].id] \in Client /\ clients'[request[r].id] # None
         /\ clients'[request[r].id].agency = request[r].agency
         /\ \A i \in Id : i # request[r].id => clients'[i] = clients[i]
         /\ audit' = Entry("client.create", request[r].id, request[r].agency)
         /\ walk' = walk /\ Leave(r)
<1>1. request[r].agency \in Agency /\ request[r].id \in Id /\ request[r].ref \in Ref \cup {None}
  BY UnderWay DEF Inserts, Creating
<1> DEFINE row == [agency |-> request[r].agency, ref |-> request[r].ref, status |-> "active"]
<1>2. row \in Client /\ row # None /\ row.agency = request[r].agency
  BY <1>1, Distinct DEF Client
<1>3. clients' = [clients EXCEPT ![request[r].id] = row] /\ walk' = walk /\ Leave(r)
      /\ audit' = Entry("client.create", request[r].id, request[r].agency)
  BY DEF Inserts, CreateClient, Audit
<1>4. clients[request[r].id] = None /\ clients \in [Id -> Client \cup {None}]
  BY DEF Inserts, Reserved, ClientsTypeOK
<1> HIDE DEF row
<1> QED
  BY <1>1, <1>2, <1>3, <1>4

LEMMA DeleteSays ==
  ASSUME ClientsTypeOK, NEW r \in Request, Deletes(r)
  PROVE  /\ request[r].id \in Id /\ request[r].agency \in Agency
         /\ clients[request[r].id] # None
         /\ clients[request[r].id].agency = request[r].agency
         /\ clients' \in [Id -> Client \cup {None}]
         /\ clients'[request[r].id] \in Client /\ clients'[request[r].id] # None
         /\ clients'[request[r].id] # clients[request[r].id]
         /\ clients'[request[r].id].agency = request[r].agency
         /\ clients'[request[r].id].status # "active"
         /\ \A i \in Id : i # request[r].id => clients'[i] = clients[i]
         /\ audit' = Entry("client.delete", request[r].id, request[r].agency)
         /\ walk' = walk /\ Leave(r)
<1>1. request[r].agency \in Agency /\ request[r].id \in Id
  BY UnderWay DEF Deletes
<1>2. /\ clients[request[r].id] # None /\ clients[request[r].id].status = "active"
      /\ clients[request[r].id].agency = request[r].agency
      /\ clients \in [Id -> Client \cup {None}]
  BY DEF Deletes, Deletable, Active, ClientsTypeOK
<1>3. clients[request[r].id] \in Client
  BY <1>1, <1>2
<1> DEFINE row == [clients[request[r].id] EXCEPT !.status = "deleted"]
<1>4. row \in Client /\ row.agency = request[r].agency /\ row.status = "deleted"
  BY <1>2, <1>3 DEF Client
<1>5. row # None /\ row # clients[request[r].id]
  BY <1>2, <1>4, Distinct
<1>6. clients' = [clients EXCEPT ![request[r].id] = row] /\ walk' = walk /\ Leave(r)
      /\ audit' = Entry("client.delete", request[r].id, request[r].agency)
  BY DEF Deletes, DeleteClient, Audit
<1> HIDE DEF row
<1> QED
  BY <1>1, <1>2, <1>4, <1>5, <1>6

(* The steps *)

\* The walk, when it does not move itself, only has clients deleted under it.
LEMMA WalkWatches ==
  ASSUME ClientsTypeOK, Own, Behind, InOrder, Covered, walk' = walk,
         \A i \in Id : clients[i] # None =>
           /\ clients'[i] # None /\ clients'[i].agency = clients[i].agency
           /\ clients'[i].status = "active" => clients[i].status = "active"
  PROVE  Own' /\ Behind' /\ InOrder' /\ Covered'
<1>1. \A p \in DOMAIN walk.seen : walk.seen[p] \subseteq Id
  BY DEF ClientsTypeOK
<1>2. walk.first \subseteq Id
  BY DEF ClientsTypeOK
<1>3. Own'
  BY <1>1 DEF Own
<1>4. Behind' /\ InOrder'
  BY DEF Behind, InOrder
<1>5. Covered'
  <2>1. \A i \in walk.first : i \in Active(walk.agency)' => i \in Active(walk.agency)
    BY <1>2 DEF Active, Covered
  <2> QED
    BY <1>2, <2>1 DEF Covered
<1> QED
  BY <1>3, <1>4, <1>5

\* A request that is answered leaves its place, and no other moves.
LEMMA RequestsSay ==
  ASSUME ClientsTypeOK, ClientsStep
  PROVE  /\ request' \in [Request -> Pending \cup {Quiet}]
         /\ \A q \in Request : Creating(q)' =>
              \/ Creating(q) /\ request'[q] = request[q]
              \/ /\ clients[request'[q].id] = None /\ UNCHANGED clients
                 /\ \A r \in Request : r # q =>
                      /\ request'[r] = request[r]
                      /\ Creating(r) => request[r].id # request'[q].id
<1>1. request \in [Request -> Pending \cup {Quiet}]
  BY DEF ClientsTypeOK
<1>2. CASE Walks
  BY <1>1, <1>2 DEF Walks, Creating
<1>3. ASSUME NEW r \in Request, Leave(r)
      PROVE  /\ request' \in [Request -> Pending \cup {Quiet}]
             /\ \A q \in Request : Creating(q)' => Creating(q) /\ request'[q] = request[q]
  BY <1>1, <1>3, Distinct DEF Leave, Creating
<1>4. ASSUME NEW r \in Request, Ends(r) \/ Inserts(r) \/ Deletes(r)
      PROVE  Leave(r)
  BY <1>4 DEF Ends, Inserts, Deletes, CreateClient, DeleteClient
<1>5. ASSUME NEW r \in Request, NEW a \in Agency, NEW i \in Id, NEW ref \in Ref \cup {None},
             NEW op \in {"create", "update", "delete"}, Arrives(r, a, op, i, ref)
      PROVE  /\ request' \in [Request -> Pending \cup {Quiet}]
             /\ \A q \in Request : Creating(q)' =>
                  \/ Creating(q) /\ request'[q] = request[q]
                  \/ /\ clients[request'[q].id] = None /\ UNCHANGED clients
                     /\ \A s \in Request : s # q =>
                          /\ request'[s] = request[s]
                          /\ Creating(s) => request[s].id # request'[q].id
  <2> DEFINE new == [agency |-> a, op |-> op, id |-> i, ref |-> ref]
  <2>1. new \in Pending /\ new.op = op /\ new.id = i
    BY DEF Pending
  <2>2. request' = [request EXCEPT ![r] = new]
    BY <1>5 DEF Arrives, Receive
  <2> HIDE DEF new
  <2>3. request'[r] = new /\ \A q \in Request : q # r => request'[q] = request[q]
    BY <1>1, <2>2
  <2>4. request' \in [Request -> Pending \cup {Quiet}]
    BY <1>1, <2>1, <2>2
  <2>5. ASSUME NEW q \in Request, Creating(q)', q # r
        PROVE  Creating(q) /\ request'[q] = request[q]
    BY <2>3, <2>5 DEF Creating
  <2>6. ASSUME Creating(r)'
        PROVE  /\ clients[request'[r].id] = None /\ UNCHANGED clients
               /\ \A s \in Request : s # r =>
                    /\ request'[s] = request[s]
                    /\ Creating(s) => request[s].id # request'[r].id
    BY <1>5, <2>1, <2>3, <2>6 DEF Creating, Arrives
  <2> QED
    BY <2>4, <2>5, <2>6
<1> QED
  BY <1>2, <1>3, <1>4, <1>5 DEF ClientsStep

\* The clients change by an insert or a delete, and never otherwise.
LEMMA ClientsSay ==
  ASSUME ClientsTypeOK, ClientsStep
  PROVE  \/ UNCHANGED clients
         \/ \E r \in Request : Inserts(r) \/ Deletes(r)
BY DEF ClientsStep, Walks, Ends, Arrives

LEMMA ReservedStep ==
  ASSUME ClientsTypeOK, Reserved, ClientsStep
  PROVE  Reserved'
<1>1. ASSUME NEW q \in Request, Creating(q)'
      PROVE  clients'[request'[q].id] = None
  <2>1. CASE UNCHANGED clients
    BY <1>1, <2>1, RequestsSay DEF Reserved
  <2>2. ASSUME NEW r \in Request, Inserts(r) \/ Deletes(r)
        PROVE  clients'[request'[q].id] = None
    <3>1. /\ request[r].id \in Id /\ clients'[request[r].id] # None
          /\ \A i \in Id : i # request[r].id => clients'[i] = clients[i]
          /\ request' = [request EXCEPT ![r] = Quiet]
      BY <2>2, InsertSays, DeleteSays DEF Leave
    <3>2. ~UNCHANGED clients
      BY <2>2, <3>1, InsertSays, DeleteSays
    <3>3. Creating(q) /\ request'[q] = request[q]
      BY <1>1, <3>2, RequestsSay
    <3>4. q # r
      BY <1>1, <3>1, Distinct DEF Creating, ClientsTypeOK
    <3>5. clients[request[q].id] = None /\ request[q].id \in Id
      BY <3>3, UnderWay DEF Reserved, Creating
    <3>6. request[q].id # request[r].id
      <4>1. CASE Inserts(r)
        BY <3>3, <3>4, <4>1 DEF Reserved, Inserts
      <4>2. CASE Deletes(r)
        BY <3>5, <4>2, DeleteSays
      <4> QED
        BY <2>2, <4>1, <4>2
    <3> QED
      BY <3>1, <3>3, <3>5, <3>6
  <2> QED
    BY <2>1, <2>2, ClientsSay
<1>2. ASSUME NEW q \in Request, NEW r \in Request, Creating(q)', Creating(r)',
             request'[q].id = request'[r].id, q # r
      PROVE  FALSE
  <2>1. CASE Creating(q) /\ request'[q] = request[q] /\ Creating(r) /\ request'[r] = request[r]
    BY <1>2, <2>1 DEF Reserved
  <2>2. CASE ~(Creating(q) /\ request'[q] = request[q])
    <3>1. request'[r] = request[r] /\ (Creating(r) => request[r].id # request'[q].id)
      BY <1>2, <2>2, RequestsSay
    <3> QED
      BY <1>2, <3>1 DEF Creating
  <2>3. CASE ~(Creating(r) /\ request'[r] = request[r])
    <3>1. request'[q] = request[q] /\ (Creating(q) => request[q].id # request'[r].id)
      BY <1>2, <2>3, RequestsSay
    <3> QED
      BY <1>2, <3>1 DEF Creating
  <2> QED
    BY <2>1, <2>2, <2>3
<1> QED
  BY <1>1, <1>2 DEF Reserved

\* What the next page adds to the walk.
LEMMA ListSays ==
  ASSUME ClientsTypeOK, ListClients
  PROVE  LET S == {i \in Active(walk.agency) : i > walk.cursor}
         IN  /\ S \in SUBSET Id /\ PageOf(S) \subseteq S /\ ~walk.done
             /\ walk'.seen = Append(walk.seen, PageOf(S))
             /\ walk'.done = (RowsOf(S) = PageOf(S))
             /\ walk'.agency = walk.agency /\ walk'.first = walk.first
             /\ RowsOf(S) # PageOf(S) => walk'.cursor = Max(PageOf(S))
             /\ walk' \in [agency : Agency \cup {None}, cursor : Nat, seen : Seq(SUBSET Id),
                           first : SUBSET Id, done : BOOLEAN]
<1> DEFINE S == {i \in Active(walk.agency) : i > walk.cursor}
           more == RowsOf(S) # PageOf(S)
<1>1. S \in SUBSET Id /\ PageOf(S) \subseteq S /\ PageOf(S) \in SUBSET Id
  BY DEF Active, PageOf, RowsOf, Least
<1>2. /\ ~walk.done
      /\ walk' = [walk EXCEPT !.seen = Append(@, PageOf(S)), !.done = ~more,
                              !.cursor = IF more THEN Max(PageOf(S)) ELSE @]
  BY DEF ListClients, RowsOf, PageOf, NextCursor
<1>3. more => Max(PageOf(S)) \in Nat
  BY <1>1, PageSays DEF Id
<1>4. walk.seen \in Seq(SUBSET Id)
  BY DEF ClientsTypeOK
<1>5. Append(walk.seen, PageOf(S)) \in Seq(SUBSET Id)
  BY <1>1, <1>4, AppendProperties
<1>6. more \in BOOLEAN
  OBVIOUS
<1> HIDE DEF S, more
<1>7. walk' \in [agency : Agency \cup {None}, cursor : Nat, seen : Seq(SUBSET Id),
                 first : SUBSET Id, done : BOOLEAN]
  BY <1>2, <1>3, <1>5, <1>6 DEF ClientsTypeOK
<1>8. /\ walk'.seen = Append(walk.seen, PageOf(S)) /\ walk'.done = ~more
      /\ walk'.agency = walk.agency /\ walk'.first = walk.first
      /\ more => walk'.cursor = Max(PageOf(S))
  BY <1>2 DEF ClientsTypeOK
<1> QED
  BY <1>1, <1>2, <1>7, <1>8 DEF S, more

LEMMA TypeStep ==
  ASSUME ClientsTypeOK, Reserved, ClientsStep
  PROVE  ClientsTypeOK'
<1>1. clients' \in [Id -> Client \cup {None}]
  BY ClientsSay, InsertSays, DeleteSays DEF ClientsTypeOK
<1>2. walk' \in [agency : Agency \cup {None}, cursor : Nat, seen : Seq(SUBSET Id),
                 first : SUBSET Id, done : BOOLEAN]
  <2>1. CASE ListClients
    BY <2>1, ListSays
  <2>2. NoWalk \in [agency : Agency \cup {None}, cursor : Nat, seen : Seq(SUBSET Id),
                    first : SUBSET Id, done : BOOLEAN]
    BY EmptySeq DEF NoWalk
  <2>3. CASE EndWalk
    BY <2>2, <2>3 DEF EndWalk
  <2>4. ASSUME NEW a \in Agency, BeginWalk(a)
        PROVE  walk' \in [agency : Agency \cup {None}, cursor : Nat, seen : Seq(SUBSET Id),
                          first : SUBSET Id, done : BOOLEAN]
    <3>1. Active(a) \in SUBSET Id
      BY DEF Active
    <3> QED
      BY <2>2, <2>4, <3>1 DEF BeginWalk
  <2>5. CASE walk' = walk
    BY <2>5 DEF ClientsTypeOK
  <2>6. Walks \/ walk' = walk
    BY InsertSays, DeleteSays DEF ClientsStep, Ends, Arrives
  <2> QED
    BY <2>1, <2>3, <2>4, <2>5, <2>6 DEF Walks
<1> QED
  BY <1>1, <1>2, RequestsSay DEF ClientsTypeOK

\* The next page keeps what the walk has: none missed, none twice, in order.
LEMMA ListKeeps ==
  ASSUME ClientsTypeOK, Own, Behind, InOrder, Covered, ListClients
  PROVE  Own' /\ Behind' /\ InOrder' /\ Covered'
<1> DEFINE S == {i \in Active(walk.agency) : i > walk.cursor}
           page == PageOf(S)
           n == Len(walk.seen)
<1>1. /\ S \in SUBSET Id /\ page \subseteq S /\ ~walk.done
      /\ walk'.seen = Append(walk.seen, page)
      /\ walk'.done = (RowsOf(S) = page)
      /\ walk'.agency = walk.agency /\ walk'.first = walk.first
      /\ RowsOf(S) # page => walk'.cursor = Max(page)
  BY ListSays
<1>2. UNCHANGED clients
  BY DEF ListClients
<1>3. walk.seen \in Seq(SUBSET Id) /\ walk.cursor \in Nat /\ walk.first \subseteq Id
  BY DEF ClientsTypeOK
<1>4. page \in SUBSET Id
  BY <1>1
<1>5. \A i \in S : /\ i \in Id /\ clients[i] # None /\ clients[i].agency = walk.agency
                   /\ walk.cursor < i
  BY DEF Active, Id
<1>6. RowsOf(S) = page => page = S
  BY <1>1, LastPage
<1>7. RowsOf(S) # page =>
        /\ Max(page) \in page /\ \A y \in page : y <= Max(page)
        /\ \A j \in S : j <= Max(page) => j \in page
  BY <1>1, PageSays
<1>8. \A i \in walk.first \cap Active(walk.agency) : i \in S \/ i <= walk.cursor
  BY <1>3 DEF Id
<1> HIDE DEF S, page
<1>9. /\ n \in Nat /\ DOMAIN walk.seen = 1 .. n /\ DOMAIN walk'.seen = 1 .. n + 1
      /\ walk'.seen[n + 1] = page
      /\ \A p \in 1 .. n : walk'.seen[p] = walk.seen[p]
  BY <1>1, <1>3, <1>4, AppendProperties, LenProperties
<1> HIDE DEF n
<1>10. \A p \in 1 .. n : \A i \in walk.seen[p] : i <= walk.cursor /\ i \in Nat
  <2>1. ASSUME NEW p \in 1 .. n, NEW i \in walk.seen[p]
        PROVE  i <= walk.cursor /\ i \in Nat
    <3>1. i <= walk.cursor
      BY <1>1, <1>9 DEF Behind
    <3>2. walk.seen[p] \in SUBSET Id
      BY <1>3, <1>9, ElementOfSeq DEF n
    <3> QED
      BY <3>1, <3>2 DEF Id
  <2> QED
    BY <2>1
<1>11. \A p \in 1 .. n + 1 : p \in 1 .. n \/ p = n + 1
  BY <1>9
<1>12. Own'
  <2>1. \A p \in 1 .. n : \A i \in walk'.seen[p] :
          clients[i] # None /\ clients[i].agency = walk.agency
    BY <1>9 DEF Own
  <2>2. \A i \in walk'.seen[n + 1] : clients[i] # None /\ clients[i].agency = walk.agency
    BY <1>1, <1>5, <1>9
  <2> QED
    BY <1>1, <1>2, <1>9, <1>11, <2>1, <2>2 DEF Own
<1>13. Behind'
  <2> SUFFICES ASSUME ~walk'.done
               PROVE  \A p \in 1 .. n + 1 : \A i \in walk'.seen[p] : i <= walk'.cursor
    BY <1>9 DEF Behind
  <2>1. walk'.cursor \in page /\ walk'.cursor \in S /\ \A y \in page : y <= walk'.cursor
    BY <1>1, <1>7
  <2>2. walk'.cursor \in Nat /\ walk.cursor < walk'.cursor
    BY <1>5, <2>1 DEF Id
  <2>3. \A p \in 1 .. n : \A i \in walk'.seen[p] : i <= walk'.cursor
    BY <1>3, <1>9, <1>10, <2>2
  <2> QED
    BY <1>9, <1>11, <2>1, <2>3
<1>14. InOrder'
  <2>1. ASSUME NEW p \in 1 .. n + 1, NEW q \in 1 .. n + 1, p < q,
               NEW i \in walk'.seen[p], NEW j \in walk'.seen[q]
        PROVE  i < j
    <3>1. p \in 1 .. n
      BY <1>9, <2>1
    <3>2. CASE q \in 1 .. n
      BY <1>9, <2>1, <3>1, <3>2 DEF InOrder
    <3>3. CASE q = n + 1
      <4>1. i <= walk.cursor /\ i \in Nat
        BY <1>9, <1>10, <3>1
      <4>2. j \in S
        BY <1>1, <1>9, <3>3
      <4>3. walk.cursor < j /\ j \in Nat
        BY <1>5, <4>2 DEF Id
      <4> QED
        BY <1>3, <4>1, <4>3
    <3> QED
      BY <1>11, <3>2, <3>3
  <2> QED
    BY <1>9, <2>1 DEF InOrder
<1>15. Covered'
  <2>1. \A i \in walk'.first : clients'[i] # None
    BY <1>1, <1>2 DEF Covered
  <2>2. ASSUME NEW i \in walk.first \cap Active(walk.agency), walk'.done \/ i <= walk'.cursor
        PROVE  \E p \in 1 .. n + 1 : i \in walk'.seen[p]
    <3>1. CASE i <= walk.cursor
      <4>1. PICK p \in 1 .. n : i \in walk.seen[p]
        BY <1>9, <3>1 DEF Covered
      <4>2. p \in 1 .. n + 1 /\ i \in walk'.seen[p]
        BY <1>9, <4>1
      <4> QED
        BY <4>2
    <3>2. CASE i \in S
      <4>1. i \in page
        BY <1>1, <1>6, <1>7, <2>2, <3>2
      <4> QED
        BY <1>9, <4>1
    <3> QED
      BY <1>8, <3>1, <3>2
  <2>3. walk'.first = walk.first /\ Active(walk.agency)' = Active(walk.agency)
    BY <1>1, <1>2 DEF Active
  <2> QED
    BY <1>9, <2>1, <2>2, <2>3 DEF Covered
<1> QED
  BY <1>12, <1>13, <1>14, <1>15

\* However the clients and the walk move, the walk keeps what it has.
LEMMA WalkStep ==
  ASSUME ClientsTypeOK, Reserved, Own, Behind, InOrder, Covered, ClientsStep
  PROVE  Own' /\ Behind' /\ InOrder' /\ Covered'
<1>1. CASE ListClients
  BY <1>1, ListKeeps
<1>2. CASE EndWalk
  <2>1. walk' = NoWalk /\ DOMAIN walk'.seen = {} /\ walk'.first = {}
    BY <1>2 DEF EndWalk, NoWalk
  <2> QED
    BY <2>1 DEF Own, Behind, InOrder, Covered
<1>3. ASSUME NEW a \in Agency, BeginWalk(a)
      PROVE  Own' /\ Behind' /\ InOrder' /\ Covered'
  <2>1. /\ walk'.agency = a /\ walk'.cursor = 0 /\ DOMAIN walk'.seen = {}
        /\ walk'.first = Active(a) /\ walk'.done = FALSE /\ UNCHANGED clients
    BY <1>3 DEF BeginWalk, NoWalk
  <2>2. \A i \in Active(a) : ~(i <= 0) /\ clients[i] # None
    BY DEF Active, Id
  <2> QED
    BY <2>1, <2>2 DEF Own, Behind, InOrder, Covered
<1>4. CASE UNCHANGED <<clients, walk>>
  BY <1>4, WalkWatches
<1>5. ASSUME NEW r \in Request, Inserts(r)
      PROVE  Own' /\ Behind' /\ InOrder' /\ Covered'
  <2>1. \A i \in Id : clients[i] # None => clients'[i] = clients[i]
    BY <1>5, InsertSays
  <2>2. walk' = walk
    BY <1>5, InsertSays
  <2> QED
    BY <2>1, <2>2, WalkWatches
<1>6. ASSUME NEW r \in Request, Deletes(r)
      PROVE  Own' /\ Behind' /\ InOrder' /\ Covered'
  <2>1. \A i \in Id : clients[i] # None =>
          /\ clients'[i] # None /\ clients'[i].agency = clients[i].agency
          /\ clients'[i].status = "active" => clients[i].status = "active"
    BY <1>6, DeleteSays
  <2>2. walk' = walk
    BY <1>6, DeleteSays
  <2> QED
    BY <2>1, <2>2, WalkWatches
<1> QED
  BY <1>1, <1>2, <1>3, <1>4, <1>5, <1>6 DEF ClientsStep, Walks, Ends, Arrives

(* The results *)

LEMMA ClientsInvInitially ==
  ASSUME ClientsInit
  PROVE  ClientsInv
<1>1. clients = [i \in Id |-> None] /\ request = [r \in Request |-> Quiet] /\ walk = NoWalk
  BY DEF ClientsInit
<1>2. NoWalk \in [agency : Agency \cup {None}, cursor : Nat, seen : Seq(SUBSET Id),
                  first : SUBSET Id, done : BOOLEAN]
  BY EmptySeq DEF NoWalk
<1>3. ClientsTypeOK
  BY <1>1, <1>2 DEF ClientsTypeOK
<1>4. Reserved
  BY <1>1, Distinct DEF Reserved, Creating
<1>5. DOMAIN walk.seen = {} /\ walk.first = {}
  BY <1>1 DEF NoWalk
<1>6. Own /\ Behind /\ InOrder /\ Covered
  BY <1>5 DEF Own, Behind, InOrder, Covered
<1> QED
  BY <1>3, <1>4, <1>6 DEF ClientsInv

LEMMA ClientsInvStep ==
  ASSUME ClientsInv, [ClientsNext]_clientVars
  PROVE  ClientsInv'
<1>1. CASE ClientsNext
  <2>1. ClientsStep
    BY <1>1, NextIsStep DEF ClientsInv
  <2> QED
    BY <2>1, TypeStep, ReservedStep, WalkStep DEF ClientsInv
<1>2. CASE UNCHANGED clientVars
  BY <1>2 DEF clientVars, ClientsInv, ClientsTypeOK, Reserved, Creating, Own, Behind, InOrder, Covered, Active
<1> QED
  BY <1>1, <1>2

\* Types, the ids of the clients being created, and what the walk has hold throughout.
THEOREM ClientsInvariant == ClientsSpec => []ClientsInv
<1>1. ClientsInit => ClientsInv
  BY ClientsInvInitially
<1>2. ClientsInv /\ [ClientsNext]_clientVars => ClientsInv'
  BY ClientsInvStep
<1> QED
  BY <1>1, <1>2, PTL DEF ClientsSpec

\* The pages of list_clients have every client that stays, once and in order,
\* whatever is created and deleted between them.
THEOREM PagesAlwaysComplete == ClientsSpec => []PagesComplete
<1>1. ClientsInv => PagesComplete
  <2> SUFFICES ASSUME ClientsInv PROVE PagesComplete
    OBVIOUS
  <2>1. \A i \in UNION {walk.seen[p] : p \in DOMAIN walk.seen} : clients[i].agency = walk.agency
    BY DEF ClientsInv, Own
  <2>2. walk.done => walk.first \cap Active(walk.agency)
                       \subseteq UNION {walk.seen[p] : p \in DOMAIN walk.seen}
    BY DEF ClientsInv, Covered
  <2> QED
    BY <2>1, <2>2 DEF ClientsInv, InOrder, PagesComplete
<1> QED
  BY <1>1, ClientsInvariant, PTL

Told ==
  \A i \in Id :
    LET entry(action) == \E a \in Agency : audit' = Entry(action, i, a)
    IN  /\ entry("client.create") <=> clients[i] = None /\ clients'[i] # None
        /\ entry("client.delete") <=> clients[i] # clients'[i] /\ clients[i] # None
        /\ clients'[i] # clients[i] => audit'.by = clients'[i].agency

\* The entry of one change is not that of another, nor of another client.
LEMMA EntriesDiffer ==
  \A c, d, i, j, a, b : Entry(c, i, a) = Entry(d, j, b) => c = d /\ i = j /\ a = b
<1> SUFFICES ASSUME NEW c, NEW d, NEW i, NEW j, NEW a, NEW b, Entry(c, i, a) = Entry(d, j, b)
             PROVE  c = d /\ i = j /\ a = b
  OBVIOUS
<1>1. Entry(c, i, a).action = c /\ Entry(c, i, a).subject = i /\ Entry(c, i, a).by = a
  BY DEF Entry
<1>2. Entry(d, j, b).action = d /\ Entry(d, j, b).subject = j /\ Entry(d, j, b).by = b
  BY DEF Entry
<1> QED
  BY <1>1, <1>2

LEMMA StepTells ==
  ASSUME ClientsInv, ClientsStep
  PROVE  Told
<1>0. ClientsTypeOK /\ Reserved
  BY DEF ClientsInv
<1>1. ASSUME NEW r \in Request, Inserts(r)
      PROVE  Told
  BY <1>0, <1>1, InsertSays, EntriesDiffer DEF Told, Entry
<1>2. ASSUME NEW r \in Request, Deletes(r)
      PROVE  Told
  BY <1>0, <1>2, DeleteSays, EntriesDiffer DEF Told, Entry
<1>3. ASSUME UNCHANGED clients,
             audit' = None \/ \E i \in Id, a \in Agency : audit' = Entry("client.update", i, a)
      PROVE  Told
  BY <1>3, Distinct, EntriesDiffer DEF Told
<1>4. CASE Walks
  BY <1>3, <1>4 DEF Walks, ListClients, EndWalk, BeginWalk, NoAudit
<1>5. ASSUME NEW r \in Request, Ends(r)
      PROVE  Told
  BY <1>3, <1>5 DEF Ends, Audit
<1>6. ASSUME NEW r \in Request, NEW a \in Agency, NEW i \in Id, NEW ref \in Ref \cup {None},
             NEW op \in {"create", "update", "delete"}, Arrives(r, a, op, i, ref)
      PROVE  Told
  BY <1>3, <1>6 DEF Arrives, NoAudit
<1> QED
  BY <1>1, <1>2, <1>4, <1>5, <1>6 DEF ClientsStep

\* create_client and delete_client tell the audit log in the transaction of the
\* change, update_client tells of no change of these, and nothing else tells it.
THEOREM AuditAlwaysTells == ClientsSpec => AuditTellsAll
<1>1. ClientsInv /\ [ClientsNext]_clientVars => [Told]_clientVars
  BY NextIsStep, StepTells DEF ClientsInv
<1>2. [Told]_clientVars <=>
        [\A i \in Id :
           LET entry(action) == \E a \in Agency : audit' = Entry(action, i, a)
           IN  /\ entry("client.create") <=> clients[i] = None /\ clients'[i] # None
               /\ entry("client.delete") <=> clients[i] # clients'[i] /\ clients[i] # None
               /\ clients'[i] # clients[i] => audit'.by = clients'[i].agency]_clientVars
  BY DEF Told
<1> QED
  BY <1>1, <1>2, ClientsInvariant, PTL DEF ClientsSpec, AuditTellsAll

=============================================================================

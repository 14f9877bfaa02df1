------------------------------- MODULE ApiKeys -------------------------------
(***************************************************************************)
(* Agencies and API keys, which the operator manages with admin.py while   *)
(* the service runs, and the authentication of a request (db.py, admin.py, *)
(* api.py, security.py).                                                   *)
(*                                                                         *)
(* A request is a thread of the service.  Each transaction, each reading   *)
(* of the clock and each access to the dictionary of touch_key is a step,  *)
(* so the operator, other requests and the clock come in between, and the  *)
(* service may stop at any of them.                                        *)
(***************************************************************************)
EXTENDS Naturals, Tenants

CONSTANTS
  Key,
  Owner,         \* the agency each key is made for
  Granted,       \* the scopes it is made with
  Lifetime,      \* for how long it is made, None: without end
  Needed,        \* bound: the scopes requests need
  Resolution,    \* key_touch_seconds
  MaxTime        \* bound: the clock

Scope == {"clients:read", "clients:write", "scans:read", "scans:write"}
Status == {"active", "suspended"}

\* A row of api_keys, as far as it changes or a request depends on it.
Row == [expires : Nat \cup {None}, revoked : BOOLEAN, used : Nat \cup {None}]

ASSUME KeysAssumption ==
  /\ Owner \in [Key -> Agency]
  /\ Granted \in [Key -> SUBSET Scope] /\ Needed \subseteq Scope
  /\ Lifetime \in [Key -> (Nat \ {0}) \cup {None}] /\ None \notin Nat
  /\ Resolution \in Nat \ {0} /\ MaxTime \in Nat
  /\ None \notin Key \cup Status /\ None \notin Row

VARIABLES
  agency,      \* agencies.status, None: no such agency
  key,         \* api_keys: expires_at, whether revoked, last_used_at
  now,         \* the clock
  touched,     \* Repository._touched of the running service
  call         \* the requests in progress

keyVars == <<agency, key, now, touched, call>>

NoCall == [phase |-> "none", key |-> None, needs |-> None, at |-> 0, ended |-> FALSE,
           locked |-> FALSE]

KeysInit ==
  /\ agency = [a \in Agency |-> None]
  /\ key = [k \in Key |-> None]
  /\ now = 0
  /\ touched = [k \in Key |-> None]
  /\ call = [r \in Request |-> NoCall]

Tick ==
  /\ now < MaxTime
  /\ now' = now + 1
  /\ UNCHANGED <<agency, key, touched, call>>

(* The operator: admin.py is another process on the same database *)

CreateAgency(a) ==
  /\ agency[a] = None
  /\ agency' = [agency EXCEPT ![a] = "active"]
  /\ UNCHANGED <<key, now, touched, call>>

\* set_agency_status.  A request that arrived while its agency was suspended does
\* not count as one of a suspended agency once the agency is active (`locked').
SetAgencyStatus(a, status) ==
  /\ agency[a] # None
  /\ agency' = [agency EXCEPT ![a] = status]
  /\ call' = [r \in Request |->
                IF call[r].key # None /\ Owner[call[r].key] = a /\ status = "active"
                THEN [call[r] EXCEPT !.locked = FALSE] ELSE call[r]]
  /\ UNCHANGED <<key, now, touched>>

\* create_key: an agency is never removed, so that it was looked up in another
\* transaction makes no difference.
CreateKey(k) ==
  /\ agency[Owner[k]] # None /\ key[k] = None
  /\ key' = [key EXCEPT ![k] =
               [expires |-> IF Lifetime[k] = None THEN None ELSE now + Lifetime[k],
                revoked |-> FALSE, used |-> None]]
  /\ UNCHANGED <<agency, now, touched, call>>

\* revoke_key, for good.  (A second time keeps the first moment.)
RevokeKey(k) ==
  /\ key[k] # None
  /\ key' = [key EXCEPT ![k].revoked = TRUE]
  /\ UNCHANGED <<agency, now, touched, call>>

(* A request *)

Expired(k) == key[k].expires # None /\ key[k].expires <= now
Ended(k) == key[k].revoked \/ Expired(k)

\* A request with the secret of a key arrives, for an operation that needs a scope.
\* `ended' and `locked' are what is true of the key at this moment; no step of the
\* service reads them.  (A request without a key that exists is refused at once.)
Arrive(r, k, scope) ==
  /\ call[r] = NoCall /\ key[k] # None
  /\ call' = [call EXCEPT ![r] =
                   [phase |-> "asked", key |-> k, needs |-> scope, at |-> 0,
                    ended |-> Ended(k), locked |-> agency[Owner[k]] # "active"]]
  /\ UNCHANGED <<agency, key, now, touched>>

Advance(r, phase) == call' = [call EXCEPT ![r].phase = phase]

\* The answer: 401, 403, 500, or that of the operation.
EndCall(r) == call' = [call EXCEPT ![r] = NoCall]

\* MUTANT of KeyWorks: the status of the agency is not looked at.
KeyWorksAlone(k) == ~key[k].revoked

\* find_key and what authenticate makes of the row.
KeyWorks(k) == ~key[k].revoked /\ agency[Owner[k]] = "active"

FindKey(r) ==
  /\ call[r].phase = "asked"
  /\ IF KeyWorks(call[r].key) THEN Advance(r, "found") ELSE EndCall(r)
  /\ UNCHANGED <<agency, key, now, touched>>

\* expires_at against the clock.
CheckExpiry(r) ==
  /\ call[r].phase = "found"
  /\ IF Expired(call[r].key) THEN EndCall(r) ELSE Advance(r, "valid")
  /\ UNCHANGED <<agency, key, now, touched>>

\* touch_key reads the clock itself, again.
BeginTouch(r) ==
  /\ call[r].phase = "valid"
  /\ call' = [call EXCEPT ![r].phase = "timed", ![r].at = now]
  /\ UNCHANGED <<agency, key, now, touched>>

\* Used recently, as far as the dictionary knows: the row is left alone.
ReadTouched(r) ==
  LET last == touched[call[r].key]
  IN  /\ call[r].phase = "timed"
      /\ IF last # None /\ call[r].at < last + Resolution
         THEN call' = [call EXCEPT ![r].phase = "known", ![r].at = 0]
         ELSE Advance(r, "noting")
      /\ UNCHANGED <<agency, key, now, touched>>

\* The dictionary is written before the database.
NoteTouch(r) ==
  /\ call[r].phase = "noting"
  /\ touched' = [touched EXCEPT ![call[r].key] = call[r].at]
  /\ Advance(r, "touching")
  /\ UNCHANGED <<agency, key, now>>

\* MUTANT of Stale: the dictionary is trusted to be right.
StaleAlways(k, at) == TRUE

\* WHERE last_used_at IS NULL OR last_used_at < floor
Stale(k, at) == key[k].used = None \/ key[k].used + Resolution < at

TouchKey(r) ==
  LET k == call[r].key  at == call[r].at
  IN  /\ call[r].phase = "touching"
      /\ key' = IF Stale(k, at) THEN [key EXCEPT ![k].used = at] ELSE key
      /\ call' = [call EXCEPT ![r].phase = "known", ![r].at = 0]
      /\ UNCHANGED <<agency, now, touched>>

\* The transaction does not get the write lock in time: the answer is a 500.
TouchBreaks(r) ==
  /\ call[r].phase = "touching"
  /\ EndCall(r)
  /\ UNCHANGED <<agency, key, now, touched>>

\* require: the scope of the operation.  The operation itself begins then.
CheckScope(r) ==
  /\ call[r].phase = "known"
  /\ IF call[r].needs \in Granted[call[r].key] THEN Advance(r, "working") ELSE EndCall(r)
  /\ UNCHANGED <<agency, key, now, touched>>

Operate(r) ==
  /\ call[r].phase = "working"
  /\ EndCall(r)
  /\ UNCHANGED <<agency, key, now, touched>>

\* The service stops and starts: its requests and its dictionary are gone.
Restart ==
  /\ touched' = [k \in Key |-> None]
  /\ call' = [r \in Request |-> NoCall]
  /\ UNCHANGED <<agency, key, now>>

Operator ==
  \/ \E a \in Agency : CreateAgency(a) \/ \E s \in Status : SetAgencyStatus(a, s)
  \/ \E k \in Key : CreateKey(k) \/ RevokeKey(k)

Serve(r) ==
  \/ \E k \in Key, scope \in Needed : Arrive(r, k, scope)
  \/ FindKey(r) \/ CheckExpiry(r) \/ BeginTouch(r) \/ ReadTouched(r) \/ NoteTouch(r)
  \/ TouchKey(r) \/ TouchBreaks(r) \/ CheckScope(r) \/ Operate(r)

KeysNext == Tick \/ Operator \/ Restart \/ \E r \in Request : Serve(r)

KeysSpec == KeysInit /\ [][KeysNext]_keyVars

(* Properties *)

\* A key that was revoked or had expired when its request arrived never gets past
\* authentication, nor does the key of an agency that was suspended then and was
\* not activated since: activating the agency, or noting the use of the key,
\* brings no ended key back; and what a request does is in the scopes of its key.
NoKeyAfterItsEnd ==
  \A r \in Request :
    /\ call[r].phase \in {"valid", "timed", "noting", "touching", "known", "working"} =>
         ~call[r].ended /\ ~call[r].locked
    /\ call[r].phase = "working" => call[r].needs \in Granted[call[r].key]

\* last_used_at is written at most once per resolution and never goes back,
\* whatever requests of the key overlap, and over restarts, which forget the
\* dictionary; nothing else about a key ever changes but that it is revoked.
KeyRowChanges ==
  [][\A k \in Key : (key[k] # None /\ key'[k] # key[k]) =>
       \/ /\ key'[k] = [key[k] EXCEPT !.used = key'[k].used]
          /\ key[k].used # None => key'[k].used > key[k].used + Resolution
       \/ key'[k] = [key[k] EXCEPT !.revoked = TRUE]]_keyVars

Call == [phase : {"none", "asked", "found", "valid", "timed", "noting", "touching", "known",
                  "working"},
         key : Key \cup {None}, needs : Scope \cup {None}, at : Nat,
         ended : BOOLEAN, locked : BOOLEAN]

\* The types; a request under way has a key that exists.
KeysTypeOK ==
  /\ agency \in [Agency -> Status \cup {None}]
  /\ key \in [Key -> Row \cup {None}]
  /\ now \in Nat
  /\ touched \in [Key -> Nat \cup {None}]
  /\ call \in [Request -> Call]
  /\ \A r \in Request : call[r].phase # "none" =>
       call[r].key # None /\ key[call[r].key] # None

=============================================================================

----------------------------- MODULE WebRequests -----------------------------
(***************************************************************************)
(* What the local web UI (web.py) answers to a request before any scan     *)
(* runs.  A request is a record of what its checks look at:                *)
(*                                                                         *)
(*   kind       "scan" (a POST) or "report" (a GET of a stored report)     *)
(*   path       TRUE: the path of the kind, its query string aside         *)
(*   host       TRUE: the Host header names a loopback address             *)
(*   origin     TRUE: no Origin header, or the server's own                *)
(*   header, query, cookie   the access token each of them carries, or None *)
(*   length     Content-Length: "ok", "over", or "bad" (no number, or < 0) *)
(*   type       TRUE: Content-Type is application/json                     *)
(*   body       "broken" (no JSON), "list" (JSON, no object) or "object"   *)
(*   extra      the names, in order, that are not the four accepted ones   *)
(*   userinfo   TRUE: a target that is a string with user:password@        *)
(*   authorized TRUE: the JSON value true                                  *)
(*   target     what is scanned, or "blank" or "foreign"                   *)
(*   id         of the report that is asked for                            *)
(*   checks     "absent", "valid", "shape" (no list of strings), "unknown" *)
(*   crawl      "absent", "boolean" or "other"                             *)
(***************************************************************************)
EXTENDS Naturals, Sequences, SequencesExt, FiniteSetsExt

CONSTANTS
  None,
  CredentialKeys,    \* names equal to a declared credential but for case, _ and -
  AllowedKeys,       \* names equal to an accepted field but for case, _ and -
  SensitiveNames     \* names that contain one of the words redaction masks

ASSUME NoneAssumption == None \notin [status : Nat, code : {None}, field : {None}]

\* An answer: its status and, for a refused field, the code and the field.
Answer(status) == [status |-> status, code |-> None, field |-> None]
Refused(code, field) == [status |-> 400, code |-> code, field |-> field]

LooksLikeCredential(name) ==
  \/ name \in CredentialKeys
  \/ name \notin AllowedKeys /\ name \in SensitiveNames

\* MUTANT of RejectedField: the first field that is refused decides.
RejectedFieldInOrder(r) ==
  CASE r.extra # <<>> /\ LooksLikeCredential(r.extra[1]) ->
         Refused("credential_not_accepted", r.extra[1])
    [] r.extra # <<>> /\ ~LooksLikeCredential(r.extra[1]) -> Refused("unknown_field", r.extra[1])
    [] r.extra = <<>> /\ r.userinfo -> Refused("credential_not_accepted", "target")
    [] OTHER -> None

RejectedField(r) ==
  LET credentials == {k \in DOMAIN r.extra : LooksLikeCredential(r.extra[k])}
  IN  CASE credentials # {} -> Refused("credential_not_accepted", r.extra[Min(credentials)])
        [] credentials = {} /\ r.userinfo -> Refused("credential_not_accepted", "target")
        [] credentials = {} /\ ~r.userinfo /\ r.extra # <<>> -> Refused("unknown_field", r.extra[1])
        [] OTHER -> None

\* A server bound to loopback answers loopback names only.
HostAllowed(loopback, r) == loopback => r.host

\* MUTANT of Supplied: the cookie before the query string.
SuppliedCookieFirst(r) == IF r.header # None THEN r.header
                          ELSE IF r.cookie # None THEN r.cookie ELSE r.query

\* Of the tokens a request carries only the first counts.
Supplied(r) == IF r.header # None THEN r.header
               ELSE IF r.query # None THEN r.query ELSE r.cookie

TokenAllowed(token, r) == token # None => Supplied(r) = token

\* Whether the answer sets the token cookie.
IssuesCookie(token, r) == token # None /\ TokenAllowed(token, r) /\ r.query = token

\* The first check that refuses the request, as pairs of a check and its answer.
FirstOf(checks) ==
  LET hits == {k \in DOMAIN checks : checks[k][1]}
  IN  IF hits = {} THEN None ELSE checks[Min(hits)][2]

\* do_POST up to the lock: None, or the answer that ends the request.
ScanRefusal(loopback, token, r) ==
  FirstOf(<< <<r.length = "bad", Answer(400)>>,
             <<r.length = "over", Answer(413)>>,
             <<~r.path \/ r.query # None, Answer(404)>>,   \* the path with its query string
             <<~HostAllowed(loopback, r) \/ ~r.origin, Answer(403)>>,
             <<~TokenAllowed(token, r), Answer(403)>>,
             <<~r.type, Answer(415)>>,
             <<r.body # "object", Answer(400)>>,
             <<RejectedField(r) # None, RejectedField(r)>>,
             <<~r.authorized, Answer(400)>>,
             <<r.target \in {"blank", "foreign"}, Answer(400)>>,
             <<r.checks \in {"shape", "unknown"}, Answer(400)>>,
             <<r.crawl = "other", Answer(400)>> >>)

\* do_GET of a stored report: the pattern matches the whole path, so a query
\* string makes it a path nobody serves.
ReportRefusal(loopback, token, r) ==
  FirstOf(<< <<~HostAllowed(loopback, r), Answer(403)>>,
             <<~TokenAllowed(token, r), Answer(403)>>,
             <<~r.path \/ r.query # None, Answer(404)>> >>)

\* A request of the page itself: same origin, and the browser adds the cookie.
PageRequest(kind, cookie) ==
  [kind |-> kind, path |-> TRUE, host |-> TRUE, origin |-> TRUE,
   header |-> None, query |-> None, cookie |-> cookie, id |-> None,
   length |-> "ok", type |-> TRUE, body |-> "object", extra |-> <<>>, userinfo |-> FALSE,
   authorized |-> TRUE, target |-> None, checks |-> "absent", crawl |-> "absent"]

=============================================================================

-------------------------------- MODULE WebUi --------------------------------
(***************************************************************************)
(* The local web UI: the server of web.py, with a thread for each request, *)
(* one lock that admits a single scan and a table of the latest reports,   *)
(* and the page of static/app.js in the tabs of one browser.               *)
(*                                                                         *)
(* Between two steps of a thread anything else may happen: the lock is     *)
(* free before the report of the scan is stored, a report may be evicted   *)
(* while it is being sent, a tab may be reloaded while it waits, and the   *)
(* server may be stopped and started with a new token.                     *)
(***************************************************************************)
EXTENDS WebRequests, FiniteSets

CONSTANTS
  Tab,          \* tabs of one browser, which share its cookie
  Thread,       \* bound: requests in progress at a time
  Target,       \* targets that can be scanned
  Calls,        \* requests of other programs
  Callers,      \* bound: the threads that requests of other programs get
  MaxStored,    \* _MAX_STORED_REPORTS
  MaxScans,     \* bound: scans that end with a report
  MaxStarts     \* bound: starts of the server

ASSUME WebAssumption ==
  /\ MaxStored \in Nat \ {0} /\ MaxScans \in Nat /\ MaxStarts \in Nat
  /\ Callers \subseteq Thread
  /\ None \notin Tab \cup Thread \cup Target \cup Nat
  /\ None \notin [id : Nat, target : Target \cup {None, "blank", "foreign"}]
  /\ "lost" \notin Thread /\ None # "lost"
  /\ \A r \in Calls : r.target \in Target \cup {None, "blank", "foreign"}
  /\ \A r \in Calls : DOMAIN r = DOMAIN PageRequest("scan", None) /\ DOMAIN r.extra \subseteq Nat
  /\ \A field \in {"target"} \cup UNION {Range(c.extra) : c \in Calls} :
       None # Refused("credential_not_accepted", field)

VARIABLES
  up, starts,   \* is the server running, and how often it was started
  loopback,     \* server.loopback_only
  token,        \* server.access_token
  lock,         \* server.scan_lock: the thread that holds it
  reports,      \* server.reports: ids, oldest first
  thread,       \* the request of each thread and how far it is
  cookie,       \* the browser's token cookie
  page,         \* the page in each tab
  issued        \* history: start and content of every report, by its id

server == <<up, starts, loopback, token>>
vars == <<up, starts, loopback, token, lock, reports, thread, cookie, page, issued>>

GivenToken == 0                       \* --token; the others are random, one per start
Tokens == 0 .. MaxStarts
Id == 1 .. MaxScans
Lost == "lost"

FreeThread == [phase |-> "free", request |-> None, wanted |-> None, answer |-> None]
Blank == [state |-> "closed", invited |-> FALSE, start |-> 0,
          shown |-> None, link |-> None, sent |-> None]

Init ==
  /\ up = FALSE /\ starts = 0 /\ loopback = TRUE /\ token = None
  /\ lock = None /\ reports = <<>> /\ issued = <<>>
  /\ thread = [i \in Thread |-> FreeThread]
  /\ cookie = None
  /\ page = [t \in Tab |-> Blank]

(* Start and stop *)

\* main: a host that is not loopback needs --allow-remote, and then a token.
Main(onLoopback, allowRemote, given) ==
  /\ ~up /\ starts < MaxStarts
  /\ onLoopback \/ allowRemote
  /\ up' = TRUE /\ starts' = starts + 1
  /\ loopback' = onLoopback
  /\ token' = IF onLoopback THEN None ELSE IF given THEN GivenToken ELSE starts + 1
  /\ lock' = None /\ reports' = <<>>
  /\ UNCHANGED <<thread, cookie, page, issued>>

\* Ctrl+C, or the end of the process: the threads of the requests are daemons.
Stop ==
  /\ up
  /\ up' = FALSE
  /\ thread' = [i \in Thread |-> FreeThread]
  /\ page' = [t \in Tab |-> IF page[t].sent = None THEN page[t] ELSE [page[t] EXCEPT !.sent = Lost]]
  /\ UNCHANGED <<starts, loopback, token, lock, reports, cookie, issued>>

(* The page *)

Busy(t) == page[t].sent # None

\* The page is opened or reloaded, with the token of a link or without one.  Its
\* scripts follow with the cookie.
OpenPage(t, query) ==
  /\ up
  /\ LET r == [PageRequest("page", cookie) EXCEPT !.query = query]
     IN  /\ page' = [page EXCEPT ![t] =
                       [Blank EXCEPT !.state = IF TokenAllowed(token, r) THEN "open" ELSE "refused",
                                     !.invited = (query = token), !.start = starts]]
         /\ cookie' = IF IssuesCookie(token, r) THEN token ELSE cookie
  /\ UNCHANGED <<server, lock, reports, thread, issued>>

Receive(i, request, wanted) ==
  /\ thread[i] = FreeThread
  /\ thread' = [thread EXCEPT ![i] = [phase |-> "received", request |-> request,
                                      wanted |-> wanted, answer |-> None]]

\* runScan up to its await: the form was complete, the link is taken away.
Submit(t, i, target) ==
  /\ page[t].state = "open" /\ ~Busy(t)
  /\ IF up
     THEN /\ Receive(i, [PageRequest("scan", cookie) EXCEPT !.target = target], None)
          /\ page' = [page EXCEPT ![t].link = None, ![t].sent = i]
     ELSE /\ page' = [page EXCEPT ![t].link = None, ![t].sent = Lost]
          /\ UNCHANGED thread
  /\ UNCHANGED <<server, lock, reports, cookie, issued>>

\* A click on the download link; the page stays as it is.
Click(t, i) ==
  /\ up /\ page[t].link # None
  /\ Receive(i, [PageRequest("report", cookie) EXCEPT !.id = page[t].link], page[t].shown)
  /\ UNCHANGED <<server, lock, reports, cookie, page, issued>>

\* Some other program calls.
Call(i, request) ==
  /\ up
  /\ Receive(i, request, None)
  /\ UNCHANGED <<server, lock, reports, cookie, page, issued>>

(* A thread of the server *)

Ends(i, phase, answer) == thread' = [thread EXCEPT ![i].phase = phase, ![i].answer = answer]

\* do_POST: every check, then the lock without waiting for it.
Judge(i) ==
  LET refusal == ScanRefusal(loopback, token, thread[i].request)
  IN  /\ thread[i].phase = "received" /\ thread[i].request.kind = "scan"
      /\ IF refusal # None THEN Ends(i, "answered", refusal) /\ UNCHANGED lock
         ELSE IF lock # None THEN Ends(i, "answered", Answer(429)) /\ UNCHANGED lock
         ELSE Ends(i, "scanning", None) /\ lock' = i
      /\ UNCHANGED <<server, reports, cookie, page, issued>>

\* Bound: the scans that may still end with a report.
MayStore == Len(issued) + Cardinality({i \in Thread : thread[i].phase = "scanned"}) < MaxScans

\* run_scan and build_report return, and the finally releases the lock.
ScanEnds(i) ==
  /\ thread[i].phase = "scanning" /\ MayStore
  /\ lock' = None
  /\ Ends(i, "scanned", None)
  /\ UNCHANGED <<server, reports, cookie, page, issued>>

\* MUTANT of ScanFails: the lock is released only where the scan returns.
ScanFailsLocked(i) ==
  /\ thread[i].phase = "scanning"
  /\ Ends(i, "answered", Answer(500))
  /\ UNCHANGED <<server, lock, reports, cookie, page, issued>>

\* They raise: the browser gets its answer after the lock is released.
ScanFails(i) ==
  /\ thread[i].phase = "scanning"
  /\ lock' = None
  /\ Ends(i, "answered", Answer(500))
  /\ UNCHANGED <<server, reports, cookie, page, issued>>

\* secrets.token_urlsafe: an id never given out before, by any start.
NewId == Len(issued) + 1

\* MUTANT of Latest: popitem() as it is by default, the newest.
LatestButNew(ids) == IF Len(ids) > MaxStored THEN Front(ids) ELSE ids

\* popitem(last=False) until no more than MaxStored are left.
Latest(ids) == IF Len(ids) > MaxStored THEN Tail(ids) ELSE ids

\* _store_report, under the reports lock, and the answer with the new link.
StoreReport(i) ==
  /\ thread[i].phase = "scanned"
  /\ reports' = Latest(Append(reports, NewId))
  /\ issued' = Append(issued, [start |-> starts, target |-> thread[i].request.target])
  /\ thread' = [thread EXCEPT ![i].phase = "answered", ![i].answer = Answer(200),
                              ![i].wanted = [id |-> NewId, target |-> thread[i].request.target]]
  /\ UNCHANGED <<server, lock, cookie, page>>

\* _send_report: the table is read under its lock, the report is rendered after.
ReadReport(i) ==
  LET r == thread[i].request
      refusal == ReportRefusal(loopback, token, r)
      found == r.id \in Range(reports)
  IN  /\ thread[i].phase = "received" /\ r.kind = "report"
      /\ Ends(i, "answered",
              IF refusal # None THEN refusal
              ELSE IF ~found THEN Answer(404)
              ELSE [Answer(200) EXCEPT !.field = issued[r.id].target])
      /\ UNCHANGED <<server, lock, reports, cookie, page, issued>>

\* MUTANT of Rendered: an error leaves the link away.
RenderedUnlinked(p, done) ==
  IF done.answer.status = 200
  THEN [p EXCEPT !.shown = done.wanted, !.link = done.wanted.id, !.sent = None]
  ELSE [p EXCEPT !.sent = None]

\* renderResult of an answer, or the error and the link of the result still shown.
Rendered(p, done) ==
  IF done.answer.status = 200
  THEN [p EXCEPT !.shown = done.wanted, !.link = done.wanted.id, !.sent = None]
  ELSE [p EXCEPT !.link = IF p.shown = None THEN None ELSE p.shown.id, !.sent = None]

\* The answer is written; a tab that was reloaded meanwhile no longer reads it.
Reply(i) ==
  /\ thread[i].phase = "answered"
  /\ thread' = [thread EXCEPT ![i] = FreeThread]
  /\ page' = [t \in Tab |-> IF page[t].sent = i THEN Rendered(page[t], thread[i]) ELSE page[t]]
  /\ UNCHANGED <<server, lock, reports, cookie, issued>>

\* fetch fails: the server is not there, or was stopped before it answered.
ConnectionLost(t) ==
  /\ page[t].sent = Lost
  /\ page' = [page EXCEPT ![t].link = IF page[t].shown = None THEN None ELSE page[t].shown.id,
                          ![t].sent = None]
  /\ UNCHANGED <<server, lock, reports, thread, cookie, issued>>

Serve(i) == Judge(i) \/ ScanEnds(i) \/ ScanFails(i) \/ StoreReport(i) \/ ReadReport(i) \/ Reply(i)

Next ==
  \/ \E onLoopback, allowRemote, given \in BOOLEAN : Main(onLoopback, allowRemote, given)
  \/ Stop
  \/ \E t \in Tab, query \in Tokens \cup {None} : OpenPage(t, query)
  \/ \E t \in Tab : ConnectionLost(t)
  \/ \E t \in Tab, i \in Thread, target \in Target \cup {"foreign"} : Submit(t, i, target)
  \/ \E t \in Tab, i \in Thread : Click(t, i)
  \/ \E i \in Callers, request \in Calls : Call(i, request)
  \/ \E i \in Thread : Serve(i)

Spec == Init /\ [][Next]_vars

(* Properties *)

\* One scan at a time (NFR-PERF-02), and the slot is taken only while it runs: the
\* thread that holds the lock is scanning, whatever way the others ended.
OneScanAtATime ==
  up => \A i \in Thread : thread[i].phase = "scanning" <=> lock = i

\* A download is the report of the result that was shown when the link was
\* clicked.  It is gone only when the server was restarted since, or as many
\* newer reports were stored as the server keeps.
DownloadTruthful ==
  \A i \in Thread : (thread[i].phase = "answered" /\ thread[i].request.kind = "report"
                     /\ thread[i].wanted # None) =>
    LET a == thread[i].answer  w == thread[i].wanted
    IN  /\ a.status = 200 => a.field = w.target
        /\ a.status = 404 => \/ issued[w.id].start # starts
                             \/ Len(issued) - w.id >= MaxStored

\* The link always refers to the result shown below it, and it is there whenever
\* a result is shown and nothing is under way: after a refusal, a failure or a
\* lost connection the result of the scan before is still to be had.
LinkIsOfShown ==
  \A t \in Tab :
    /\ page[t].link # None => page[t].shown # None /\ page[t].link = page[t].shown.id
    /\ (page[t].shown # None /\ ~Busy(t)) => page[t].link # None

\* The link printed at the start opens the page, an old cookie or not, and a page
\* it opened is not refused until the server is restarted; a scan was never
\* started by a request without the token.
SessionHolds ==
  /\ \A t \in Tab : (up /\ page[t].start = starts /\ page[t].invited)
                      => page[t].state # "refused"
  /\ \A t \in Tab, i \in Thread :
       (page[t].sent = i /\ thread[i].phase = "answered" /\ page[t].start = starts)
         => thread[i].answer.status # 403
  /\ \A i \in Thread : (thread[i].phase \in {"scanning", "scanned"} /\ token # None)
                         => token \in {thread[i].request.header, thread[i].request.cookie}

HasCredential(r) == r.userinfo \/ \E name \in Range(r.extra) : LooksLikeCredential(name)

\* The request without its credential, everything after the credential checks valid.
Harmless(r) == [r EXCEPT !.extra = <<>>, !.userinfo = FALSE, !.authorized = TRUE,
                         !.checks = "valid", !.crawl = "absent"]

\* A request with a credential never starts a scan, and is told so: the answer
\* about a credential never depends on whether the rest of the payload is valid,
\* nor on the order of its fields.
CredentialAnswered ==
  \A i \in Thread :
    (/\ thread[i].request # None /\ thread[i].request.kind = "scan"
     /\ HasCredential(thread[i].request))
    => /\ thread[i].phase \in {"received", "answered"}
       /\ thread[i].phase = "answered" =>
            \/ thread[i].answer.code = "credential_not_accepted"
            \/ thread[i].answer = ScanRefusal(loopback, token, Harmless(thread[i].request))

=============================================================================

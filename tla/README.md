# WebSec Scanner in TLA+

WebSec Scanner (`src/websec_scanner`) is a passive web security scanner with
three ways in: a command line, a local web UI, and a multi-tenant *agency
service* (an HTTP API backed by one SQLite database, with scans run by threads
of the same process). This directory holds models of what it does (the
concurrent and stateful parts step by step, the checks and the report as
functions), the TLC configurations that check them, and proofs for TLAPS.

Check a model with `tlc -config RunnerSafety.cfg MCScanRunner` (section 4 names
the other configurations), the proofs with `tlapm` on `ScanRunner_proofs.tla`,
`ScanRequests_proofs.tla`, `ScanTraffic_proofs.tla`, `Crawler_proofs.tla`,
`TlsCheck_proofs.tla`, `WebUi_proofs.tla`, `Service_proofs.tla` (on `ApiKeys` and
`Clients`) and `ScanCommand_proofs.tla`.

## 1. Inventory

| Component | State it keeps | Operations | What is hard |
|---|---|---|---|
| Scan queue (`service/db.py`, tables `scans`, `idempotency`) | a row per scan: status, agency, host, error, result path; a row per idempotency key | `create_scan`, `mark_running`, `finish_scan`, `fail_scan`, `recover_interrupted`, reads | requests race for the last place; keys expire while requests wait for the write lock; a stop between two transactions |
| `ScanRunner` (`service/runner.py`) | `_running`, `_lock`, `_closed`, worker threads | `recover`, `pump`, `close`, `_work`, `wait_idle` | several threads pump; limits; lost wake-ups; thread start, database and disk failures; recovery |
| Request path (`service/api.py` `create_scan`) | none of its own | checks, DNS lookups, transaction, `pump`, answer | checks made before the transaction are stale in it; retries |
| Report storage (`service/storage.py`) | files | `write_report` (temporary file, then `os.replace`), `read_report` | stop between the file and the row |
| Keys, agencies, clients, audit (`service/db.py`, `security.py`, `admin.py`) | tables `api_keys`, `agencies`, `clients`, `audit_log`; `_touched` | create, revoke, expire, suspend, authenticate; client create, update, delete; cursor pages | authentication is read before the operation; uniqueness of `external_ref` among active clients; pages while rows are inserted |
| `netguard`, `middleware` | none / bytes read | target check and connection guard; body limit, request id | a name that resolves differently later; a body longer than it says |
| `ScanLimiter` (`limits.py`) | budget, next send slot, back-off, stop reason | `acquire`, `note_response`, `snapshot` | threads of one scan share it; 429 answers arrive late; deadline while sleeping |
| HTTP client (`http_utils.py`) | per-thread session | GET with redirects, size limit | redirects, limits in the middle of a chain |
| Crawler (`crawler/`) | frontier, seen, pages | `crawl` | page, depth and time limits at different points of the loop; cycles and redirects; the first verdict on a URL is final |
| Checks (`checks/`, `soft404.py`) | none | headers, cookies, CORS, redirect, exposure | parallel path checks; a check that breaks; an answer that is missing |
| TLS check (`checks/tls_check.py`, `checks/tls_probe.py`) | connections opened, the probes' outcomes | read the certificate, probe each version and weak group, verify trust | answers that are late, cut short, or to something else; a budget of connections; no conclusion from silence |
| Result (`output.py`, `baseline.py`, `suppressions.py`) | none | gate, exit code, grouping, baseline, suppressions | which findings count when the scan is incomplete |
| Scan core (`cli.py` `run_scan`) | the result | phases in order | what a stop at a limit leaves behind |
| Web UI (`web.py`, `static/app.js`) | the scan lock, stored reports, token and cookie, the page | serve the page, scan, download | one scan at a time; eviction of a report that is still linked; reloads and restarts while a scan runs; the order of refusals |
| API specifications (`api/`) | none | load, resolve references, inventory | cycles, limits |
| Rules, catalog, configuration, redaction, report formats | static data | validate, format | nothing a model checker helps with |

How they interact: a request handler commits a row and calls `pump`; `pump`
reads the queue under the runner's lock, claims rows and starts a thread for
each; the thread runs `run_scan` (whose own threads share a `ScanLimiter`),
writes a file, updates the row, takes the lock to leave `_running`, and pumps.
Only the table and the files outlive the process; the next one fails what was
running and pumps before it serves.
The command line and the web UI call the same `run_scan`: the first for each
target in turn, the second in the thread of the request that holds the lock.

What makes each of the modelled components correct is stated as the properties
that section 4 lists; what is left out, and why, in section 7.

## 2. Plan

| Order | Module | Composes | State |
|---|---|---|---|
| 1 | `ScanTable`, `ScanJob`, `ScanRunner` | runner over table, implements job | modelled, checked, proved |
| 2 | `ScanRequests` | requests over table | modelled, checked, proved |
| 3 | `ScanLimiter`, `ScanTraffic` | the scan's threads over the limiter | modelled, checked, proved |
| 4 | `Crawler` | on its own, over an arbitrary site | modelled, checked, proved |
| 5 | `WebRequests`, `WebUi` | server, page and browser over the checks of a request | modelled, checked, proved |
| 6 | `Tenants`, `ApiKeys`, `Clients` | the rest of the repository and of the handlers | modelled, checked, proved |
| 7 | `TlsCheck` | handshake sequence and its verdicts, over an arbitrary server | modelled, checked, proved |
| 8 | `PageChecks`, `ScanReport`, `ScanCommand` | the command over the checks and the report | modelled, checked, proved |

What could still be stated: an abstract specification of `ScanRequests` (a
memory of one answer per key); overlapping callers of `wait_idle`; the pages of
`list_scans`, whose cursor is that of `list_clients`. Not planned: what section
7 lists.

## 3. Modules

### ScanTable
One row per scan. Each operation is one transaction: writers use
`BEGIN IMMEDIATE`, so it is one atomic step, and what it wrote survives a stop.
`status`, `agency`, `host`, `error` are the columns transitions depend on;
`completed` stands for `completed` with its `result_path`, which `finish_scan`
sets in the same statement. Scan ids are naturals compared with `<`; which
unused id a new row takes is free, since ids made in one millisecond sort in
random order (`service/ids.py`).

### ScanRunner
| TLA+ | code |
|---|---|
| `Start`, `Recover`, `LeavePump(Main)` | `create_app`: recover, pump, serve |
| `Stop`, `Forget` | the process goes at any point; daemon threads, `_lock`, `_running`, `_closed` with it |
| `CreateScan`, `ReplayScan` | the transaction of `POST /v1/scans`, then `pump` |
| `EnterPump`, `PumpClosed`, `Snapshot`, `ChooseScan`, `Launch`, `LaunchFails`, `Undo`, `EndPump`, `PumpBreaks` | `pump`: lock, `hosts`/`per_agency`, `queued_scans`, loop with its `break` and `continue`s, `mark_running`, thread start, `fail_scan`, return, exception |
| `RunScan`, `WriteReport`, `FinishRow`, `WorkBreaks`, `FailRow`, `FailBreaks`, `PopRunning` | `_work` |
| `Close` | `close` |
| `Wait...` | `wait_idle` |

A step is one transaction, one file, or one stretch of code under the lock with
neither. The pump's locals `hosts` and `per_agency` are both functions of the
scans counted so far, so one set `counted` stands for them, *including* the
scans whose thread did not start. `Faults` says which operations may raise.

### ScanJob
The promise without threads, locks or pumps: submitted within the queue's
bounds, claimed once, executed within the limits, report before completion,
failed as interrupted after a stop. `ScanRunner` implements it with
`executing <- InFlight`, the scans whose worker thread is alive.

### ScanRequests
`POST /v1/scans` with overlapping requests: `Arrive` (authenticated, client
found), `AcceptTarget`/`RefuseTarget` (the DNS lookups; `create_scan` then reads
the clock), and one action for each way out of the transaction: `Refuse` (404,
409, 429 — rolled back), `Replay`, `Queue`; `Answer` is the pump and the 202.
Around it: deletion of clients, scans leaving the queue, time, restarts.

### ScanLimiter, ScanTraffic
`ScanLimiter` has the fields of the class and one action for each stretch of
code under its lock: `Grant` and `Refuse` are the two ways through `acquire`
(`Slot` is the local `start`), `PushBack` is `note_response` for a 429 or 503
(`Penalty` is `_parse_retry_after` and the default back-off). `nextByHost` is
kept although `GlobalCoversHosts` shows that it never decides anything.

`ScanTraffic` has the threads: `run_scan` in the main thread, which sends any
number of requests and once opens the pool of `check_sensitive_paths`, and the
pool's workers. `Acquire`, `LimitReached`, `Send` (the end of the sleep),
`Resend` (urllib3), `Answer` and `AnswerPushBack` are `_TrustAdapter.send`;
`OpenPool`, `TakePath`, `JoinPool` the pool, whose `with` block waits for all
futures, and `Report` the `finally` of `run_scan`. A thread may wake long after
its slot. History variables: the last slot, the latest time a push-back asked
for, requests sent, requests that went out.

### Crawler
`crawl()` as one thread. The site is not a constant: what a URL answers and
links to is chosen when it is fetched, and as nothing is fetched twice that
covers every site over `Url`. `Consider` and the four actions built on it are
the ways through `consider()` (`Fate` has its conditions in their order); the
set `todo` is the `for` loop over a page's links, taken in any order. `NothingLeft`, `TimeUp`,
`PagesSpent`, `Pop`, `ReadRobots`, `RobotsUnavailable`, `RobotsDisallow`,
`LimitReached`, `FetchFails` and `FetchPage` are the branches of the `while` loop;
`RobotsUndecodable` and `PageUndecodable` leave it with an exception (`broken`) when
an answer names a charset Python does not know.
Time is a choice at the one point that looks at the clock, and
`ScanLimitReached` may come out of every request. `pages` is the length of the
list, `skipped` the reasons with a count above zero. History variables: what
became of each URL, what was requested, whether a redirect has been met.

### WebRequests, WebUi
`WebRequests` has the checks of `do_POST` and `do_GET` in their order
(`ScanRefusal`, `ReportRefusal`), the token and its cookie; a request is a record
of what they look at. `WebUi` composes three parties:

| TLA+ | code |
|---|---|
| `Main`, `Stop` | `web.main` with its refusals, the end of the process; every thread goes with it, a waiting tab loses its connection |
| `OpenPage`, `Submit`, `Click`, `Reply`, `ConnectionLost` | the page: load, `runScan` up to its `await`, the download link, `runScan` after the `await` (a tab that was reloaded no longer waits) |
| `Call` | any other program |
| `Judge` | the checks of a POST, then `scan_lock.acquire(blocking=False)` |
| `ScanEnds`, `ScanFails`, `StoreReport` | the scan, the lock released in `finally`, and only then the table of reports with its eviction |
| `ReadReport` | a GET of a stored report |

The history `issued` has the start and the content of every report, so that a
download can be compared with what the page showed when its link was clicked.

### Tenants, ApiKeys
`Tenants` has the constants of the agency side: agencies, requests and the absent
value. The operator (`admin.py`: `CreateAgency`, `SetAgencyStatus`, `CreateKey`,
`RevokeKey`) works on the database while the service runs. A request goes
through `authenticate` one transaction, one reading of the clock and one access
to `_touched` at a time: `Arrive`, `FindKey` (key and agency in one SELECT),
`CheckExpiry`, `BeginTouch`, `ReadTouched`, `NoteTouch`, `TouchKey` or `TouchBreaks`, `CheckScope`, `Operate`.
`Restart` loses the requests and the dictionary. Histories: `ended` and
`locked`, whether the key had ended, or its agency was suspended, when the
request arrived (and the agency was not activated since).

### Clients
`NewClient` takes an id before its transaction waits for the lock, `Ask` is any
other change; `CreateClient`, `UpdateClient` and `DeleteClient` are the
transactions with their refusals and audit entries, `Breaks` an exception that
rolls one back. `BeginWalk`, `ListClients` and `EndWalk` are a caller who follows
`next_cursor`. `audit` holds the entry the last step added and nothing else:
the log is append-only, and `AuditTellsAll` compares each step with its entry.

### TlsCheck
`CertificateConnection` reads the certificate without verifying it; each probe
is `SkipProbe` (no budget, or stopped), `Connect` or `ConnectFails`, and then
`ReadHello`, `ReadPart`, `ReadRefusal` or `ReadFails`; `Conclude` draws the
findings and the notes, `VerifyTrust`, `VerifyTrustFails` and `Finish` are the
verifying connection and the end; `LimitReached` may interrupt any connection.
`server`, the versions and suites it has, is what the code never sees and the
properties compare with: it can agree to a probe (`Accepts`) when it speaks the
version and has a suite among those that the probe offers. Nothing else is
assumed of it: any probe, also one it could agree to, may end in an alert, a
hang-up, a reset, silence, half an answer or an answer to something else.
The history `refused` has the probes that the server itself declined (an alert,
a hang-up, a reset, another version), the only ground on which the code calls a
probe off: `NothingPassedOver` says so.

### PageChecks, ScanReport, ScanCommand
`PageChecks` has the passive checks as functions of what they look at in an
answer, `ScanReport` everything from the findings to the verdict: suppressions,
baseline, gate, exit code, and what each output format says of the outcome.
`ScanCommand` runs them: `Parse` with what the command line refuses, then
`run_scan` phase by phase. `RunCheck` is `_run_check`: the check's name is
recorded, then the check ends or breaks. `LimitReached` may interrupt any phase
that sends requests. `Crawl`, `JudgePage`, `MergeFinding`, `PageJudged` and
`CrawlJudged` are the pages of a crawl, which `CrawlBreaks` ends with a traceback
and exit code 1 (a page in an unknown charset): `JudgePage` runs the checks of one page,
`MergeFinding` is one turn of the loop of `_run_page_check` (`pending` are its
findings still to come, `met` the set `seen` of `_run_crawl`, `Merge` and
`RecordUrl` what happens to the result), `PageJudged` puts the page into the
report. `Finish`, `Write` and `WriteFails` are the report of one target, after
which the next one starts.
Histories: `seen`, the fingerprints of all that checks returned; `looked`, the checks that came to
an end with an answer to judge; `concern`, whether an earlier target was not
clean. The crawl, the TLS check and the limiter appear here by what they return.

## 4. Runs

| Run | Question | Bounds |
|---|---|---|
| `runner_safety` (`RunnerSafety.cfg`) | Do limits, claims, the queue and outcomes survive faults and a stop at any point, and is every behaviour one of `ScanJob`? | 3 scans, 3 agencies, 3 hosts, 2 at once, 1 per agency, a queue of 2 and 1 per agency, 1 request thread; `finish_scan`, `fail_scan`, thread start, a pump's query and the start of the service may fail |
| `runner_wakeups` (`RunnerWakeups.cfg`) | Is any wake-up lost, any row left running, does `wait_idle` tell the truth, does every scan end? | 2 scans of 1 agency, 2 hosts, 2 request threads, 1 caller of `wait_idle`; the scan, its report or `finish_scan` may fail |
| `runner_no_thread` (`RunnerNoThread.cfg`) | (violation) the same wake-up question when a thread cannot be started | 3 scans, 2 agencies, 2 hosts |
| `requests` (`Requests.cfg`) | Idempotency, ownership of answers, refusals, deleted clients | 2 scans, 2 agencies with a client each, 2 hosts, 2 requests, 1 key, lifetime 2, lock wait 1, clock to 3 |
| `limiter` (`Limiter.cfg`) | Budget, rate, back-off, finality of a stop, end of the scan | main thread and 2 workers, 2 futures, 2 hosts, interval 2, budget 3, deadline 7, 2 push-backs with waits 1, 2 or 3, 1 resend |
| `crawler` (`Crawler.cfg`) | What is requested, why the crawl stops, and that it does | 7 URLs, two of them on one path, one excluded, one of another origin, one disallowed; depth 2, 3 pages, 2 queries per path, 3 URLs |
| `tls` (`Tls.cfg`) | What is concluded from the answers to the probes, and the budget of connections | every server over 3 versions (2 weak) and 4 suites; 3 groups of which 2 are probed, one suite with the markers of two; 7 connections |
| `command` (`Command.cfg`) | Exit code, verdicts of the formats, baseline, counts per page | command lines of each kind, 1 or 2 targets, every phase, checks that break, crawls of up to 2 pages |
| `command_fixed` (`CommandFixed.cfg`) | (violation) is a finding only called fixed when its check ran again? | 1 command line with a baseline of one finding |
| `web` (`Web.cfg`) | The scan slot, downloads, links, the session, what is said of a credential | 1 tab, 2 threads, 2 targets, 1 report kept, 2 scans, 2 starts, 21 requests of another program |
| `keys` (`Keys.cfg`) | What gets past authentication, and how the row of a key changes | 1 agency, 2 keys (one expires, one may only read), 2 requests, clock to 2 |
| `clients` (`Clients.cfg`) | Pages while clients come and go; the audit log | 2 agencies, 3 clients, one value of `external_ref`, pages of 2, 2 requests beside the walk; 1.2 million states |

Why the bounds are enough for what they ask: with three scans one can run, one
be started by the same pump, and one be skipped and still wait; two of them can
share a host or an agency, or not. The three thread roles that touch the lock
(a request, a worker, the recovering main thread) are all present, and in
`runner_wakeups`, where two requests may race for the last pump, a second
request thread is. In `requests` the clock is long enough for a key to expire
and be used again, and the wait for the lock long enough for a request to
commit with a time older than the latest one. `SnapshotLimit` is at least
`MaxQueued`, as with the defaults (1000, 100). Symmetry is used for agencies
and hosts (and for threads in `requests`, `keys` and `clients`) and never with
liveness; scan ids are ordered and so not symmetric.

In `limiter` the budget, the deadline and a push-back beyond the deadline can each
be what stops the scan, in the main thread or in a worker, with the other worker
asleep, sending or with a future still queued; of `RetryAfter`, 0 and `None` fall
back to the default and 5 is cut to the cap. In `crawler` two fetched pages with
any links among seven URLs make every kind of cycle, a page linked from two
levels and a redirect to each kind of URL; every limit but that on queries (as
many as URLs on the path, so that the queue fills) bites.

In `tls` the budget is exactly what the rules need (five probes and two
connections for the certificate), so one connection too many shows. In
`command` two pages are the least on which a merged finding differs from two,
and two targets the least on which the codes combine. In `web` a second report
evicts the first while its download may be on its way, and a second start makes
an old cookie stale. In `keys` the clock allows an expiry between two steps of
a request, and two requests can read `_touched` before either writes. In
`clients` a page of two leaves a third client for the next, and its id may be
older than the cursor when it is committed.

Some configurations turn the deadlock check off, each for the same reason: the
scan, the crawl or the check is over, or a bounded clock, id or start has run
out. The runner never stops, and its deadlock check is on.

What the properties say, by hazard:

- Runner: `LimitsHold` (pumps overlapping with workers that end),
  `WorkersClaimed` (late workers against recovery), `PumpDiscipline` (why
  limits hold), `ImplementsJob` (all of it: the queue's bounds, a report before
  completion, an outcome never rewritten), `WorkConserving` (lost wake-ups),
  `RunningIsOwned` (rows left running), `IdleMeansIdle` (three reads in a row),
  `EventuallyEnds` (progress).
- Requests: `OneScanPerKey` (expiry against requests in flight), `AnswerIsOwn`,
  `KeysLeadToScans` (retries and refusals), `NoScanForDeletedClient` (a check
  made too early).
- Limiter: `BudgetKept` and `PaceKept` (threads claiming slots), `BackoffKept`
  (late answers), `StopIsFinal` (a stop nothing looks at), `ReportIsFinal` (a
  snapshot before the last worker), `ScanEnds` (sleepers).
- Crawler: `EachOnce` and `CrawlEnds` (cycles), `RequestsAllowed` (lazy
  robots.txt, redirects), `ReasonTruthful` (several limits in one crawl),
  `DepthInOrder` (a first verdict that is final).
- TLS: `NothingPassedOver` (silence, half an answer or a probe not made taken for
  "not enabled"), `FindingsTrue`
  (an answer to something else taken for acceptance, a failed connection for a
  bad certificate), `BudgetSuffices` (the count of connections).
- Command: `ExitZeroMeansClean` (a target, a limit or a finding that the worst
  code forgets), `VerdictsAgree` (five places that decide the same thing),
  `BaselineAccounted` (what is fixed and what was not looked at),
  `PagesAddUp` (one finding on several pages).
- Web UI: `OneScanAtATime` (the lock when a scan fails), `DownloadTruthful`
  (eviction, restart), `LinkIsOfShown` (a page that waits, is refused or loses
  its connection), `SessionHolds` (old cookies, new tokens),
  `CredentialAnswered` (the order of refusals).
- Service: `NoKeyAfterItsEnd` (a key that ends between two steps),
  `KeyRowChanges` (two requests touching one key), `PagesComplete` (rows that
  come and go between pages), `AuditTellsAll` (a change without its entry).

`OneScanPerKey` compares the commit of the second scan with the `created_at` of
the first: because `create_scan` reads the clock before it waits for the write
lock, two `created_at` under one key may be closer than the lifetime, by up to
the five seconds a transaction waits.

`PaceKept` counts from the start of the scan: the limiter spaces slots, and a
thread that wakes late may send right before the next one, so within a short
window more than `rate_limit` requests may go out.

`PagesComplete` promises the clients that were there from the first request of
the walk to its end. One that is committed late, with an id before the cursor,
is in no page, and nothing in the code promises it is.

`NoKeyAfterItsEnd` is what the code does: a key that ends after its row was read
still serves that one request.

**Finding.** `runner_no_thread`: when `Thread.start` raises, `pump` takes the
scan out of `_running` and fails it but leaves `hosts` and `per_agency`
counting it (`runner.py:75-81`), so other queued scans of that host or agency
are skipped; if nothing else runs, nobody pumps until the next request. The
docstring promises to "Start every queued scan the limits allow".

**Finding.** `command_fixed`: `_run_check` records the name of a check before it
calls it (`cli.py:130`), so a check that breaks counts as run. The HSTS check of
a start host raises when that host does not answer, and the baseline's HSTS
finding is then reported as fixed, although `README.md:446` promises "fixed"
only "when its check ran again and the scan finished" and `baseline.py:82`
gives the reason: otherwise "nobody looked again".

Other places where code and documentation differ, found while modelling. No run
is spent on them; where a model covers the place, it does as the code does.

- urllib3's `Retry` honours `Retry-After` and repeats a request below the
  limiter (`http_utils.py:315`): such a repetition is not counted and not
  spaced, against "consulted before every outbound request" (`limits.py:3`).
  `Resend` models it; what the limiter promises holds of the requests it sees.
- `consider()` puts a URL into `seen` before it compares depths
  (`crawl.py:133`): a page first linked one level too deep is dropped even when
  a redirect leads to it within the limit, although "a redirect is not one level
  deeper" (`crawl.py:203`).
- A verifying TLS connection that fails leaves neither a finding nor a note
  (`tls_check.py:282`).
- "Not enabled" is claimed "only ever" from "an alert, or a hang-up after the
  hello" (`tls_probe.py:17-19`). A reset counts too, while the hello is sent
  (`tls_probe.py:322`) and after any part of a ServerHello (`tls_probe.py:299`);
  and a server that speaks a weak version only with suites the probe does not
  offer (`probe_suites`, `tls_probe.py:173`) declines it, which reads as the
  version being off. In both cases there is neither a finding nor a note. The
  answer is the server's own, and that is what `NothingPassedOver` promises: not
  that a version the server speaks is always mentioned.
- A charset that Python does not know ends the crawl with a `LookupError`
  (`crawl.py:207`, `crawl.py:245`), and with it the command; `decode_body`
  (`http_utils.py:384`) falls back to UTF-8 for the same answer.
- A finding merged over pages keeps the severity of its first page
  (`cli.py:510`), also when a later page's is higher.
- The token may come in the query string of every request (`web.py:242`), but
  `POST /api/scan` and the paths of reports are compared with the query string
  included (`web.py:291`, `web.py:266`), so such a request is answered 404.

## 5. Fairness

`ScanRunner`'s `FairSpec` (for `EventuallyEnds`): each thread that can step does (weak fairness of a pump's and a
worker's steps and of recovery): threads are scheduled by the system, a scan
has `max_duration` and each request a timeout, transactions wait at most 5 s.
Strong fairness only for a worker waiting for the lock (`PopRunning`): replayed
requests may take the lock again and again, and a lock that never starves a
waiter for ever is assumed. Nothing is assumed of clients, of `Stop` or
`Close`; the conclusion is asked only of behaviours where the service stays up.

`ScanTraffic`'s `FairSpec`: weak fairness of the main thread, each worker and the
clock: threads are scheduled, a request ends within its timeout, time passes.

`Crawler`'s `FairSpec`: its one thread goes on; each request ends by its timeout.

The other modules state no fairness and no liveness: what they do is safety of
single requests, or ends by itself after a fixed number of connections or
phases.

## 6. Proofs

### `ScanRunner_proofs`

For all values of the constants that satisfy `TableAssumption` and
`RunnerAssumption` (ids are naturals; limits are positive, as
`Settings.__post_init__` enforces; threads are distinct), and every set of
faults: `TypeCorrect`, `ClaimsCorrect`, `PumpsDisciplined`, `LimitsAlwaysHold`,
`OutcomesFinal`, `QueueAlwaysBounded`, `CompletedHaveReports`, and
`RunnerImplementsJob` (the refinement). The set of scans may be infinite.

The argument. `LimitsHold` is not inductive: what matters is that the scan a
pump is about to start still has its slot. `PumpDiscipline` says so
(`SlotKept`), and needs mutual exclusion of pumps (`Exclusive`), that
`_running` is what executes (`RunningIsInFlight`), that a pump counts at least
that (`PumpCounts`; more when a thread did not start) and that rows inserted
meanwhile are none of those counted; with `WorkersClaimed`, a queued row has no
worker. `WorkersClaimed` in turn needs recovery to run alone (`StartsAlone`).
Together with types and finiteness (`Discipline`) these are inductive, one
lemma per group of actions. Then only `Launch` enlarges what executes
(`FlightSteps`), and `LaunchWithinLimits` counts. `QueueAlwaysBounded` adds the
finiteness of the queue, `CompletedHaveReports` that a worker about to finish
has written (`ReportFirst`). `PumpDiscipline` and `WorkersClaimed` are also
checked by TLC (`RunnerSafety`).

Three more invariants are proved from these, each where the code can keep it.
`RunningAlwaysOwned` (no row says running without its thread) takes `fail_scan`
and the queries of a pump not to fail, for then the row does stay behind until
the next recovery; its invariant `OwnedInv` says in addition that a worker
about to leave `_running` has ended its row. `WorkAlwaysConserved` (no lost
wake-up) takes threads to start (the finding above is the counterexample), the
queries of a pump not to fail, and a snapshot that shows the whole queue.
`WakeInv` is the argument: whenever nobody is about to pump and the lock is
free, nothing can be started, and inside a pump nothing outside its `todo` can.
That blocked scans stay blocked while more runs (`StaysBlocked`), that the loop
passes over only what it may (`PassedOver`) and that the snapshot misses
nothing (`SnapshotWhole`) are lemmas. `IdleAlwaysMeansIdle` is stated for one
caller at a time, since the history `arrived` is kept for one: between its second
and third read the queue has been empty unless something arrived (`IdleInv`).

### `ScanTraffic_proofs`
For every number of workers, hosts and futures, every interval (0 included),
budget and duration (`None` included), every set of `Retry-After` values, with
`LimiterAssumption` (the back-off is a natural number for each push-back within
the bound; the provers cannot type a power) and `TrafficAssumption`:
`TrafficTypeCorrect`, `GlobalAlwaysCovers`, `BudgetAlwaysKept`,
`PaceAlwaysKept`, `ReportAlwaysFinal`, `StopAlwaysFinal`, `SlotsAlwaysSpaced`,
`BackoffAlwaysKept`.

The argument. Every step of a thread is a step of the limiter or leaves it alone
(`TrafficSteps`), so `LimiterInv` is shown for the limiter's four actions only:
the last slot and the latest push-back lie behind the later of now and the
global slot, no host's slot beyond the global one, and *the condition that
stopped the scan still holds*: the budget is still spent, or the earliest
possible slot is still past the deadline, which is where `GlobalCoversHosts` is
needed. Then no `Grant` is possible after a stop. `PoolDiscipline` (workers are
at work only while the main thread waits for them; a refusal in a worker is
remembered) and `BudgetKept` give `ReportAlwaysFinal`.

`PaceKept` speaks of what was sent, and threads send late, so it needs a
statement about the future (`PaceInv`): for every time `x` from now on, what is
sent already and what has its slot by `x` (`Due`) fits into `x` (`Room`); and
the last slot has room for all that were granted.

### `Crawler_proofs`
For every set of URLs, finite or not, every site over it and every limit
(`CrawlerAssumption`): `CrawlTypeCorrect`, `NothingTwice`, `OnlyAllowed`,
`ReasonAlwaysTruthful`, `DepthAlwaysInOrder`.

The argument. `CrawlInv` has one part for each kind of mistake. `Frontier`:
what is queued or at hand is allowed, seen, not requested, and in one place
only. `Phases`: what the loop has established at each point (robots.txt read
before a page, room for one more page). `Breadth`: without redirects the queue
holds two levels at most, in order, so the depth at which links are considered
never falls. `Accounts`: what was queued is requested, disallowed, at hand or
still in the queue, so an empty queue means that nothing is left out. Each part is
kept by every action, with its own lemma.

### `ScanRequests_proofs`
For every number of agencies, clients, keys, requests and scans, every queue
limit, lifetime and lock wait, and a clock without end: `OneScanPerKeyEver`,
`AnswersAreOwn`, `KeysAlwaysLeadToScans`, `NoScanForTheDeleted`.

The argument. `RequestInv` is `Types`, `RowsMade` (rows are as they were asked
for, ids are taken in order), `KeptOrOld` and `Answered` with three of the
properties. `KeptOrOld` is the heart: a scan made with a key is either the one
the key still leads to or at least as old as a key lives, whatever time the
purging request had read.

### `TlsCheck_proofs`
For every list of versions and groups the rules may hold (`RulesValid` is what
`rule_loader.py` demands), every set of suites and every server:
`NothingEverPassedOver`, `FindingsAreTrue`, `BudgetAlwaysSuffices`.

The argument. `TlsInv` has `Honest` (a probe noted as accepted is one the server can
agree to, one noted as rejected is in `refused`), `Settled` (every probe passed has an outcome), `Course` (what has
happened by each phase), `Counted` (a connection per probe until one fails, so
that the budget of the rules is enough) and `Told` (each weak version or group
that the server can agree to became a finding or a note, or is in `refused`). All the ways a probe may end are one lemma's
step (`Settles`).

### `WebUi_proofs`
For every number of tabs, threads, targets, calls and starts, and however many
reports are kept: `OneScanEver`, `DownloadsTruthful`, `LinksAreOfShown`,
`SessionsHold`.

The argument. `WebInv` has `Shape` (fields and numbers), `Slot` (the lock is the
scanning thread's), `Entitled` (who got as far as a scan has shown the token),
`CookieFits`, `Waiting` (what a tab waits for was sent with the cookie of its
time), `ShownStored` and `WantedStored` (what is shown or asked for was stored as
shown) and `Table` (the stored reports are the latest, without a gap). A report
that is gone was therefore followed by as many as the table holds, or a restart.
`Told` is about credentials: only a call of another program carries one, it is
never let through to a scan, and its answer is that of the credential check or of a
check before it. `CredentialRefused` shows the last part: the first check that
refuses either is the credential check or sees nothing of what `Harmless` changes,
so it is also the first to refuse the harmless call (`FirstRefuses` says that the
answer is the first refusal's).

### `Service_proofs`
`ApiKeys`, for every number of agencies, keys and requests, every lifetime and
scope, and a clock without end: `KeysTypeCorrect`, `NoKeyEverAfterItsEnd`,
`KeyRowsChangeRightly`.

The argument. `KeysInv` has, beside the types, `Owned` (a key's agency exists),
`Remembered` (what had ended stays ended, what was locked stays locked until the
agency is activated), `PastRow` (once the row is read only an expiry can have
been missed, and nothing once the clock is read too) and `InScope`.

`Clients`, for every number of agencies, requests and clients and every size of a
page: `PagesAlwaysComplete`, `AuditAlwaysTells`.

The argument. `ClientsInv` has `Reserved` (the id of a client being created is
nobody's), and of the walk `Own`, `Behind`, `InOrder` and `Covered` (all that was
there from the start and lies up to the cursor has been seen). What a page is
made of, the least ids beyond the cursor, is in lemmas on `Least` (`LeastFirst`,
`LastPage`, `PageSays`).

### `ScanCommand_proofs`
For every set of command lines, any number of targets, every site and crawl,
every set of TLS findings, baseline and suppression: `ZeroMeansClean`,
`FormatsAgree`, `BaselineSplit`, `CountsAddUp`. `CommandAssumption` is what they
need of the constants: the reasons why a scan is unfinished have names of their own, a threshold
is one of those `--fail-on` offers, the sets a check looks at are finite, and a TLS
finding has none of the ids that the page checks use.

The argument. None of the four properties is inductive, and no part of the
invariant `CommandInv` stands alone. `Course` says where a scan is: a phase is
entered only when its group is selected, and the target's own page is the first in
the report. `Kept`: whatever a check returned is among the findings, by its
fingerprint (`Merge` may fold it into an older one but never drops one), and a
check ran only if its group is selected. `Reported`: the report is computed from
the result as it stands, and its exit code is the last. `Worst`: a target that was
not clean left a 1 or a 3 among the codes, and the exit code 0 is chosen only when
there is neither; `UncleanHasCode` is the one step that needs it, from `Kept` and
the gate. `FormatsAgree` and `BaselineSplit` follow from `Reported`, `Kept` and
`Shape` by the definitions of `ScanReport`.

`CountsAddUp` compares two sums. Each is the cardinality of a set of pairs
(`OnPages`, `OnFindings`), so that what a step adds is a matter of finite sets and
needs no induction over sequences: one page adds what it counts (`PageAdds`), a
finding with a new fingerprint adds one pair (`NewCounts`), a known one gets one
page more (`AgainCounts`, with `RecordUrl` counting the first page only when the
second comes), and what other checks find adds none (`OthersDoNotCount`).
`Accounts` holds inside a page as well, where what is merged so far is in `met`,
and the first page, which counts before anything is merged, starts the sum
(`TargetPageCounts`). That a finding is a page check's exactly when its id is one
of theirs (`IsFound`) is why a page check never merges into another check's
finding. TLC checks `CommandInv` on the instance of `Command.cfg` too.

### Only model-checked
Liveness (`EventuallyEnds`, `ScanEnds`, `CrawlEnds`): out of the prover's reach.
Everything else that a passing run checks is stated by a theorem.

## 7. Not modelled

`PROJECT.json` has the components with status `partly` or `not_modelled` and a note
on each. In short:

- `netguard`: two pure functions of an address. What it does to a connection
  appears where it bites: a refused target, a failing connection, no answer.
- The API inventory and specification loader: one pass over a document that
  keeps no state; a model would repeat the code.
- Configuration and redaction: reading a file, rewriting strings. Which names
  look like credentials is a parameter of `WebRequests`.
- Formatting: HTML, messages, the look of the page. Of the report formats only what each
  says of the outcome is modelled.
- The bytes: HTML and links (`crawler/links.py`), header values, a ClientHello
  and a ServerHello, certificates, hashes and ids. The models have what the
  code reads out of them.
- The external parts: DNS, TLS libraries, urllib3 (but for its retries) and
  SQLite, whose commit is taken as durable and whose `BEGIN IMMEDIATE` as one
  writer at a time.
- `list_agencies`, `list_keys`, `list_scans` and the reading of a scan or a
  report by its id: single reads of rows that are modelled; the body limit of
  `middleware.py` counts the chunks of one request.

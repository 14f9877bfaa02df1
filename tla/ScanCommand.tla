----------------------------- MODULE ScanCommand -----------------------------
(***************************************************************************)
(* The scan command (cli.py): main over its targets, run_scan phase by     *)
(* phase, the checks of the pages a crawl found, the report of each target *)
(* and the exit code.  The site answers as it likes, anew at each request; *)
(* any check may break (an exception), and a traffic limit may be reached  *)
(* at any request.  The checks are those of PageChecks, the report is      *)
(* ScanReport.  The TLS check (TlsCheck), the limiter (ScanLimiter) and    *)
(* the crawl itself (Crawler) have models of their own and appear here by  *)
(* what they return.  Targets are scanned one after another; --parallel    *)
(* runs the same scans in a pool that shares nothing.                      *)
(***************************************************************************)
EXTENDS PageChecks, ScanReport, SequencesExt

CONSTANTS
  Options,        \* what the command line may say
  Today,
  Landings,       \* answers to the baseline request
  StartHosts,     \* answers of a start host asked for HSTS
  TlsResults,     \* sets of findings of the TLS check
  CorsAnswers,
  HopAnswers,     \* sequences of what plain HTTP answers, hop by hop
  ProbeAnswers,   \* answers to the two probes of paths that cannot exist
  PathAnswers,    \* answers to one well-known path
  SensitivePath, ListingPath, SeverityOf,
  Crawls,         \* what a crawl may find: sequences of pages
  MaxRedirects, MaxAffectedUrls

\* The ids of what the checks of a page find; no other check has them.
PageIds == {"HDR-MISSING", "HDR-XFO-WEAK", "HDR-CSP-UNSAFE", "HDR-XXP-LEGACY", "HDR-INFO",
            "COOKIE-FLAGS-MISSING"}

ASSUME CommandAssumption ==
  /\ NoLimit \notin {"home-page", "limit"}
  /\ \A o \in Options : o.failOn \in DOMAIN FailOn
  /\ \A found \in TlsResults : IsFiniteSet(found) /\ \A f \in found : f.id \notin PageIds
  /\ IsFiniteSet(SensitivePath) /\ IsFiniteSet(ListingPath)
  /\ \A l \in Landings : IsFiniteSet(DOMAIN l.cookies)
  /\ \A pages \in Crawls :
       pages \in Seq(ToSet(pages)) /\ \A p \in ToSet(pages) : IsFiniteSet(DOMAIN p.cookies)

VARIABLES
  phase,
  options,      \* the parsed command line
  target,       \* number of the target being scanned
  landed,       \* the answer to the baseline request
  probes,       \* the soft-404 profile
  crawled,      \* crawled pages still to be judged
  pending,      \* what the checks found on the first of them, still to be merged
  met,          \* _run_crawl's `seen': fingerprints found on that page
  result,       \* the ScanResult
  report,       \* of this target, once it is built
  codes, exit,
  seen,         \* history: fingerprints of all that checks returned
  looked,       \* history: checks that came to an end with an answer to judge
  concern       \* history: a target before this one was not clean

crawlVars == <<crawled, pending, met>>
scanVars == <<landed, probes, crawlVars, result, seen, looked>>
mainVars == <<options, target, report, codes, exit, concern>>
vars == <<phase, scanVars, mainVars>>

Want(g) == g \in options.groups

NotLanded ==
  [page |-> NoAnswer, chain |-> <<>>, otherHost |-> FALSE, blocked |-> FALSE,
   cookies |-> <<>>, url |-> NoAnswer]

NoResult(groups) ==
  [findings |-> <<>>, groups |-> groups, ran |-> {}, fetched |-> FALSE,
   stoppedBy |-> NoLimit, pages |-> <<>>]

-----------------------------------------------------------------------------
(* The command line.                                                        *)

\* What is refused with exit code 2 before any request is sent.
Refused(o) ==
  \/ o.targets = 0
  \/ o.outputDir /\ o.oneFile
  \/ o.targets > 1 /\ (o.oneFile \/ o.baselineFile)
  \/ o.baselineFile /\ o.baselineDir
  \/ o.hosts > 1 /\ o.credentials
  \/ o.crawlSettings /\ ~o.crawl
  \/ ~GroupsAccepted(o.groups)
  \/ \E t \in DOMAIN o.baselines :
       o.baselines[t] # NoBaseline /\ ~BaselineValid(o.baselines[t])
  \/ \E e \in o.entries : ~EntryValid(e)

BeginScan(groups) ==
  /\ landed' = NotLanded /\ probes' = {}
  /\ crawled' = <<>> /\ pending' = <<>> /\ met' = {}
  /\ result' = NoResult(groups)
  /\ seen' = {} /\ looked' = {}

Init ==
  /\ phase = "parse"
  /\ options \in Options
  /\ target = 1 /\ report = NoAnswer /\ codes = <<>> /\ exit = NoAnswer
  /\ concern = FALSE
  /\ landed = NotLanded /\ probes = {}
  /\ crawled = <<>> /\ pending = <<>> /\ met = {}
  /\ result = NoResult(options.groups) /\ seen = {} /\ looked = {}

\* parser.error, or no confirmation that the scan is authorised.
Parse ==
  /\ phase = "parse"
  /\ IF Refused(options) \/ ~options.consent
       THEN phase' = "ended" /\ exit' = 2
       ELSE phase' = "fetch" /\ exit' = exit
  /\ UNCHANGED <<options, target, report, codes, concern>> /\ UNCHANGED scanVars

-----------------------------------------------------------------------------
(* The order of run_scan after a baseline that succeeded, and what a phase  *)
(* depends on.                                                              *)

Phases == <<"headers", "start-hsts", "cookies", "page", "tls", "redirect", "cors",
            "profile", "paths", "listing", "robots", "crawl", "finish">>

\* Chain of the baseline: the schemes of the hops, the last one included.
Applies(p, at) ==
  CASE p = "headers" -> Want("headers")
    [] p = "start-hsts" -> Want("headers") /\ at.page.https /\ at.otherHost
    [] p = "cookies" -> Want("cookies")
    [] p = "tls" -> Want("tls") /\ \E i \in DOMAIN at.chain : at.chain[i] = "https"
    [] p = "redirect" -> Want("https_redirect") /\ (at.chain[1] = "https" \/ ~at.blocked)
    [] p = "cors" -> Want("cors")
    [] p = "profile" -> Want("exposed_files") \/ Want("directory_listing")
    [] p = "paths" -> Want("exposed_files")
    [] p = "listing" -> Want("directory_listing")
    [] p = "robots" -> Want("robots_sitemap")
    [] p = "crawl" -> options.crawl /\ (Want("headers") \/ Want("cookies"))
    [] OTHER -> TRUE

\* The first phase from number n on that applies.
PhaseFrom(n, at) ==
  Phases[CHOOSE i \in n .. Len(Phases) :
           Applies(Phases[i], at) /\ \A j \in n .. i - 1 : ~Applies(Phases[j], at)]
Following(p, at) ==
  PhaseFrom(1 + CHOOSE i \in DOMAIN Phases : Phases[i] = p, at)
Proceed ==
  /\ phase' = Following(phase, landed)
  /\ UNCHANGED mainVars

-----------------------------------------------------------------------------
(* Adding findings.                                                         *)

Enriched(f, check, url) ==
  [id |-> f.id, key |-> f.key, severity |-> f.severity, check |-> check,
   path |-> url, urls |-> <<>>, count |-> 0]

Sightings(found) == {Fp(found[i]) : i \in DOMAIN found}

\* _run_check: what the check found, or nothing when it breaks; either way it
\* is among the checks that ran.
RunCheck(check, url, found, answered) ==
  /\ \/ /\ result' = [result EXCEPT
             !.ran = @ \cup {check},
             !.findings = @ \o [i \in DOMAIN found |-> Enriched(found[i], check, url)]]
        /\ seen' = seen \cup Sightings(found)
        /\ looked' = looked \cup {c \in {check} : answered}
     \/ /\ result' = [result EXCEPT !.ran = @ \cup {check}]
        /\ UNCHANGED <<seen, looked>>
  /\ UNCHANGED <<landed, probes, crawlVars>>

Check(p, check, found, answered) ==
  /\ phase = p
  /\ RunCheck(check, "site", found, answered)
  /\ Proceed

\* ScanLimitReached: the check that met it is lost but counts as run, and
\* nothing after it runs.
Started(p) ==
  CASE p = "start-hsts" -> {"hsts-start-host"}
    [] p \in {"tls", "tls-only"} -> {"tls"}
    [] p = "redirect" -> {"http-to-https-redirect"}
    [] p = "cors" -> {"cors"}
    [] p = "paths" -> {"sensitive-paths"}
    [] p = "listing" -> {"directory-listing"}
    [] p = "robots" -> {"robots-sitemap"}
    [] OTHER -> {}

LimitReached ==
  /\ phase \in {"fetch", "tls-only", "start-hsts", "tls", "redirect", "cors",
                "profile", "paths", "listing", "robots"}
  /\ phase = "redirect" => landed.chain[1] = "https"
  /\ result' = [result EXCEPT !.ran = @ \cup Started(phase), !.stoppedBy = "limit"]
  /\ phase' = "finish"
  /\ UNCHANGED <<landed, probes, crawlVars, seen, looked>> /\ UNCHANGED mainVars

-----------------------------------------------------------------------------
(* The baseline request and the checks of its answer.                       *)

\* Excluded by the configuration, or a request that failed before TLS did.
FetchFails ==
  /\ phase = "fetch" /\ phase' = "finish"
  /\ UNCHANGED scanVars /\ UNCHANGED mainVars

\* TLS failed: what explains it still runs; after a redirect from HTTP the
\* certificate is all that is wrong with the redirect.
FetchTlsFails ==
  /\ phase = "fetch"
  /\ phase' = IF Want("tls") THEN "tls-only" ELSE "finish"
  /\ \E fromHttp \in BOOLEAN :
       LET judged == {c \in {"http-to-https-redirect"} : fromHttp /\ Want("https_redirect")}
       IN /\ landed' = [landed EXCEPT !.chain = IF fromHttp THEN <<"http">> ELSE <<"https">>]
          /\ IF Want("tls") THEN UNCHANGED <<result, looked>>
             ELSE /\ result' = [result EXCEPT !.ran = @ \cup judged]
                  /\ looked' = looked \cup judged
  /\ UNCHANGED <<probes, crawlVars, seen>> /\ UNCHANGED mainVars

TlsOnly ==
  /\ phase = "tls-only"
  /\ \E found \in TlsResults :
       LET judged == {c \in {"http-to-https-redirect"} :
                        landed.chain = <<"http">> /\ Want("https_redirect")}
           fs == SetToSeq(found)
       IN \E broken \in BOOLEAN :
            /\ result' = [result EXCEPT
                 !.ran = @ \cup {"tls"} \cup judged,
                 !.findings = IF broken THEN @
                              ELSE [i \in DOMAIN fs |-> Enriched(fs[i], "tls", "site")]]
            /\ seen' = IF broken THEN seen ELSE Sightings(fs)
            /\ looked' = judged \cup {c \in {"tls"} : ~broken}
  /\ phase' = "finish"
  /\ UNCHANGED <<landed, probes, crawlVars>> /\ UNCHANGED mainVars

Fetch ==
  /\ phase = "fetch"
  /\ \E l \in Landings :
       /\ landed' = l
       /\ phase' = PhaseFrom(1, l)
  /\ result' = [result EXCEPT !.fetched = TRUE]
  /\ UNCHANGED <<probes, crawlVars, seen, looked>> /\ UNCHANGED mainVars

Headers ==
  Check("headers", "security-headers", SetToSeq(SecurityHeaders(landed.page)), TRUE)

\* No answer makes the check break on purpose: an error and no finding.
StartHsts ==
  \E answer \in StartHosts :
    IF answer = NoAnswer
    THEN /\ phase = "start-hsts"
         /\ result' = [result EXCEPT !.ran = @ \cup {"hsts-start-host"}]
         /\ UNCHANGED <<landed, probes, crawlVars, seen, looked>> /\ Proceed
    ELSE Check("start-hsts", "hsts-start-host", SetToSeq(StartHostHsts(answer)), TRUE)

CookiesOfPage == Check("cookies", "cookies", Cookies(landed.cookies), TRUE)

PageCheckNames == {"security-headers", "cookies"}
OfPageChecks(findings) == {i \in DOMAIN findings : findings[i].check \in PageCheckNames}
PageCount(findings) == Cardinality({Fp(findings[i]) : i \in OfPageChecks(findings)})

\* The target page is the first page of the report.
TargetPage ==
  /\ phase = "page"
  /\ result' = [result EXCEPT !.pages =
       Append(@, [url |-> landed.url, findings |-> PageCount(result.findings),
                  checked |-> Want("headers") \/ Want("cookies")])]
  /\ UNCHANGED <<landed, probes, crawlVars, seen, looked>> /\ Proceed

-----------------------------------------------------------------------------
(* The checks of the site.                                                  *)

Tls == \E found \in TlsResults : Check("tls", "tls", SetToSeq(found), TRUE)

Redirect ==
  \E hops \in HopAnswers :
    Check("redirect", "http-to-https-redirect",
          SetToSeq(IF landed.chain[1] = "https" THEN HttpToHttpsRedirect(hops, MaxRedirects)
                   ELSE EvaluateRedirectChain(landed.chain)),
          landed.chain[1] = "https" => NoAnswer \notin ToSet(hops))

CorsOfTarget ==
  \E answer \in CorsAnswers :
    Check("cors", "cors", SetToSeq(Cors(answer)), answer # NoAnswer)

Profile ==
  /\ phase = "profile"
  /\ \E a, b \in ProbeAnswers : probes' = ProbesOf({a, b})
  /\ UNCHANGED <<landed, crawlVars, result, seen, looked>> /\ Proceed

Paths ==
  \E answerOf \in [SensitivePath -> PathAnswers] :
    Check("paths", "sensitive-paths",
          SetToSeq(SensitivePaths(answerOf, probes, SeverityOf)),
          \A p \in SensitivePath : answerOf[p] # NoAnswer)

Listing ==
  \E answerOf \in [ListingPath -> PathAnswers] :
    Check("listing", "directory-listing", SetToSeq(DirectoryListing(answerOf, probes)),
          \A p \in ListingPath : answerOf[p] # NoAnswer)

Robots ==
  \E robots, sitemap \in PathAnswers :
    Check("robots", "robots-sitemap", SetToSeq(RobotsAndSitemap(robots, sitemap)),
          NoAnswer \notin {robots, sitemap})

-----------------------------------------------------------------------------
(* The pages of the crawl: the same issue on many pages is one finding.     *)

Crawl ==
  /\ phase = "crawl"
  /\ \E pages \in Crawls : crawled' = pages
  /\ \E stopped \in {NoLimit, "limit"} : result' = [result EXCEPT !.stoppedBy = stopped]
  /\ phase' = "judge"
  /\ UNCHANGED <<landed, probes, pending, met, seen, looked>> /\ UNCHANGED mainVars

\* Text in a charset that Python does not know breaks the crawl, and nothing
\* catches that: the process ends with a traceback.
CrawlBreaks ==
  /\ phase = "crawl"
  /\ phase' = "ended" /\ exit' = 1
  /\ UNCHANGED <<options, target, report, codes, concern>> /\ UNCHANGED scanVars

RecordUrlUncounted(f, url) == [f EXCEPT !.count = @ + 1, !.urls = Append(@, url)]
\* Another page a finding was seen on; the list is capped, the count is not.
RecordUrl(f, url) ==
  LET urls == IF f.urls = <<>> THEN <<f.path>> ELSE f.urls
  IN [f EXCEPT !.count = 1 + IF f.urls = <<>> THEN 1 ELSE @,
               !.urls = IF Len(urls) < MaxAffectedUrls THEN Append(urls, url) ELSE urls]

\* The first finding with the fingerprint gains the page, or it is a new one.
Merge(findings, f, url) ==
  LET same == {i \in DOMAIN findings : Fp(findings[i]) = Fp(f)}
  IN IF same = {} THEN Append(findings, f)
     ELSE LET first == CHOOSE i \in same : \A j \in same : i <= j
          IN [findings EXCEPT ![first] = RecordUrl(@, url)]

\* The findings of a page from the checks of `whole' that did not break.
PageFindings(page, whole) ==
  LET of(check, fs) == [i \in DOMAIN fs |-> Enriched(fs[i], check, page.url)]
  IN (IF Want("headers") /\ "security-headers" \in whole
        THEN of("security-headers", SetToSeq(SecurityHeaders(page.page))) ELSE <<>>)
     \o (IF Want("cookies") /\ "cookies" \in whole
           THEN of("cookies", Cookies(page.cookies)) ELSE <<>>)

JudgePage ==
  /\ phase = "judge" /\ crawled # <<>>
  /\ LET page == Head(crawled)
     IN \E whole \in SUBSET PageCheckNames :
          /\ pending' = IF page.checkable THEN PageFindings(page, whole) ELSE <<>>
          /\ looked' = looked \cup {c \in whole : page.checkable}
  /\ met' = {}
  /\ phase' = "merge"
  /\ UNCHANGED <<landed, probes, crawled, result, seen>> /\ UNCHANGED mainVars

\* The next finding of the page: one per fingerprint and page.
MergeFinding ==
  /\ phase = "merge" /\ pending # <<>>
  /\ LET f == Head(pending)
     IN IF Fp(f) \in met THEN UNCHANGED <<result, met, seen>>
        ELSE /\ met' = met \cup {Fp(f)}
             /\ result' = [result EXCEPT !.findings = Merge(@, f, Head(crawled).url)]
             /\ seen' = seen \cup {Fp(f)}
  /\ pending' = Tail(pending)
  /\ UNCHANGED <<phase, landed, probes, crawled, looked>> /\ UNCHANGED mainVars

PageJudged ==
  /\ phase = "merge" /\ pending = <<>>
  /\ LET page == Head(crawled)
     IN result' = [result EXCEPT !.pages =
          Append(@, [url |-> page.url, findings |-> Cardinality(met),
                     checked |-> page.checkable])]
  /\ crawled' = Tail(crawled)
  /\ phase' = "judge"
  /\ UNCHANGED <<landed, probes, pending, met, seen, looked>> /\ UNCHANGED mainVars

CrawlJudged ==
  /\ phase = "judge" /\ crawled = <<>>
  /\ phase' = "finish"
  /\ UNCHANGED scanVars /\ UNCHANGED mainVars

-----------------------------------------------------------------------------
(* The report, its files and the exit code.                                 *)

Baseline == options.baselines[target]

Finish ==
  /\ phase = "finish"
  /\ report' = Report(result, options.failOn, Baseline, options.entries, Today)
  /\ codes' = Append(codes, ExitCode(report'.gate))
  /\ phase' = "write"
  /\ UNCHANGED <<options, target, exit, concern>> /\ UNCHANGED scanVars

\* A fingerprint that a check returned and that the report lacks, or has at or
\* above the threshold and accepted by nobody.
Unaccepted ==
  \E s \in seen :
    LET shown == {f \in report.findings : Fp(f) = s}
    IN \/ shown = {}
       \/ \E f \in shown : ~Accepted(f) /\ f.severity \in FailOn[options.failOn]

Clean == result.fetched /\ result.stoppedBy = NoLimit /\ ~Unaccepted

WorstCodeLast == codes[Len(codes)]
WorstCode == IF 1 \in ToSet(codes) THEN 1 ELSE IF 3 \in ToSet(codes) THEN 3 ELSE 0

Write ==
  /\ phase = "write"
  /\ concern' = (concern \/ ~Clean)
  /\ report' = NoAnswer
  /\ IF target < options.targets
       THEN /\ phase' = "fetch" /\ target' = target + 1 /\ exit' = exit
            /\ BeginScan(options.groups)
       ELSE /\ phase' = "ended" /\ exit' = WorstCode
            /\ UNCHANGED target /\ UNCHANGED scanVars
  /\ UNCHANGED <<options, codes>>

\* An output file that cannot be written ends the process with a traceback.
WriteFails ==
  /\ phase = "write" /\ (options.oneFile \/ options.outputDir)
  /\ phase' = "ended" /\ exit' = 1
  /\ UNCHANGED <<options, target, report, codes, concern>> /\ UNCHANGED scanVars

Next ==
  \/ Parse
  \/ FetchFails \/ FetchTlsFails \/ TlsOnly \/ Fetch \/ LimitReached
  \/ Headers \/ StartHsts \/ CookiesOfPage \/ TargetPage
  \/ Tls \/ Redirect \/ CorsOfTarget \/ Profile \/ Paths \/ Listing \/ Robots
  \/ Crawl \/ CrawlBreaks \/ JudgePage \/ MergeFinding \/ PageJudged \/ CrawlJudged
  \/ Finish \/ Write \/ WriteFails

Spec == Init /\ [][Next]_vars

-----------------------------------------------------------------------------
(* Properties.                                                              *)

\* Exit code 0 with a threshold set: every target's home page was fetched, no
\* limit stopped a scan, and whatever any check returned for any page is in
\* that target's report, where it is below the threshold (by the severity of the
\* first page it was seen on, cli.py:510) or accepted by its baseline or an
\* unexpired suppression.
ExitZeroMeansClean ==
  phase = "ended" /\ exit = 0 /\ options.failOn # "none" => ~concern

\* The exit code, the sentence shown with the gate, the JUnit file, the CSV
\* file and the SARIF file take the decision again and agree: JUnit has a
\* failure exactly when the code is not 0, at least one row that counts has a
\* severity at the threshold exactly when the code is 1, SARIF's run is no
\* success when the code is 3, and the sentence is a pass when the code is 0 and
\* SARIF's run a success.
VerdictsAgree ==
  phase = "write" =>
    LET code == ExitCode(report.gate)
        junit == JUnitFailures(report)
    IN /\ GateMessage(report.gate).code = code
       /\ (junit.scan \/ junit.findings # {}) <=> code # 0
       /\ (code = 1) <=> \E f \in CsvCounting(report) : f.severity \in FailOn[options.failOn]
       /\ code = 3 => ~SarifSuccessful(report)
       /\ code = 0 /\ SarifSuccessful(report) =>
            GateMessage(report.gate).status = "pass"

\* Every finding of the baseline is in exactly one place: still there, fixed,
\* or not looked at again; and nothing is called fixed by a scan that stopped
\* early, that did not select its group, or that saw it.
BaselineAccounted ==
  phase = "write" /\ Baseline # NoBaseline =>
    \A b \in Baseline :
      LET unchanged == \E f \in report.findings : Fp(f) = Fp(b)
          fixed == b \in report.fixed
          open == b \in report.notRechecked
      IN /\ unchanged \/ fixed \/ open
         /\ ~(unchanged /\ fixed) /\ ~(unchanged /\ open) /\ ~(fixed /\ open)
         /\ fixed => /\ result.fetched /\ result.stoppedBy = NoLimit
                     /\ GroupOfCheck(b.check) \in options.groups
                     /\ Fp(b) \notin seen

\* One pair for each finding that a page of the report counts.
OnPages(pages) == UNION {{p} \X (1 .. pages[p].findings) : p \in DOMAIN pages}

\* One pair for each page that a finding of the page checks counts; findings with
\* one fingerprint are one, the first, and a finding never merged was on one page.
FirstOnes(findings) == {i \in OfPageChecks(findings) : \A j \in OfPageChecks(findings) :
                          Fp(findings[j]) = Fp(findings[i]) => i <= j}
Times(f) == IF f.count > 0 THEN f.count ELSE 1
OnFindings(findings) == UNION {{i} \X (1 .. Times(findings[i])) : i \in FirstOnes(findings)}

\* The pages' counts and the findings' counts say the same: what the pages of
\* the report count together is what their findings count together, however
\* often an issue came back, on one page or on many.
PagesAddUp ==
  phase \in {"finish", "write"} /\ result.pages # <<>> =>
    Cardinality(OnPages(result.pages)) = Cardinality(OnFindings(result.findings))

\* README: a finding that is missing now "is only called fixed when its check
\* ran again and the scan finished; otherwise ... it is listed as not
\* rechecked".  A check that broke did not run.
FixedWasLookedFor ==
  phase = "write" => \A b \in report.fixed : b.check \in looked

=============================================================================

---------------------------- MODULE MCScanCommand ----------------------------
(* ScanCommand for TLC: command lines of each kind, pages with and without the *)
(* headers and cookies that matter, and answers of every kind the checks     *)
(* tell apart.                                                               *)
EXTENDS ScanCommand

Good == {"strict-transport-security", "content-security-policy",
         "x-content-type-options", "x-frame-options", "referrer-policy",
         "permissions-policy"}
Page(headers, https) == [headers |-> headers, values |-> {}, https |-> https]

Safe == [name |-> "sid", attributes |-> {"Secure", "HttpOnly"}, sameSite |-> "ok"]
Lax == [Safe EXCEPT !.sameSite = "odd"]
Bare == [Safe EXCEPT !.attributes = {}]

Landing(page, chain, cookies) ==
  [page |-> page, chain |-> chain, otherHost |-> FALSE, blocked |-> FALSE,
   cookies |-> cookies, url |-> "/"]
MCLandings ==
  {Landing(Page(Good, TRUE), <<"https">>, cookies) : cookies \in {<<>>, <<Lax>>}}
  \cup {Landing(Page(Good \ {"x-frame-options"}, TRUE), <<"https", "https">>, <<Bare, Lax>>),
        Landing(Page(Good, FALSE), <<"http">>, <<>>),
        [Landing(Page(Good, TRUE), <<"http", "https">>, <<>>) EXCEPT !.otherHost = TRUE],
        [Landing(Page(Good, FALSE), <<"http">>, <<>>) EXCEPT !.blocked = TRUE]}
MCStartHosts == {NoAnswer, Page(Good, TRUE), Page({}, TRUE)}

MCTlsResults ==
  {{}, {Finding("TLS-WEAK-PROTOCOL", "TLSv1", "HIGH")},
   {Finding("TLS-CERT-EXPIRED", "site", "CRITICAL")}}
MCCorsAnswers ==
  {NoAnswer} \cup [allowOrigin : {"*", "echo"}, credentials : BOOLEAN]
MCHopAnswers == {<<NoAnswer>>, <<"https">>, <<"http", "none">>, <<"http", "http", "none">>}

Answer(text, looks) ==
  [status |-> 200, redirected |-> FALSE, final |-> "here", text |-> text, looks |-> looks]
MCProbeAnswers == {NoAnswer, Answer("shell", {})}
MCPathAnswers ==
  {NoAnswer, Answer("shell", {"signature", "listing"}),
   Answer("file", {"signature", "listing", "sensitive-names"})}
MCSeverityOf == [p \in {".git", ".env"} |-> IF p = ".git" THEN "HIGH" ELSE "CRITICAL"]

Crawled(url, page, cookies) ==
  [url |-> url, page |-> page, cookies |-> cookies, checkable |-> TRUE]
PageA == {Crawled("/a", Page(Good \ {"x-frame-options"}, TRUE), <<Bare, Lax>>),
          Crawled("/a", Page(Good, TRUE), <<Lax>>)}
PageB == {Crawled("/b", Page(Good \ {"x-frame-options"}, TRUE), <<Lax>>),
          [Crawled("/b", Page(Good, TRUE), <<Bare>>) EXCEPT !.checkable = FALSE]}
MCCrawls == {<<>>} \cup {<<a>> : a \in PageA} \cup {<<a, b>> : a \in PageA, b \in PageB}

Old(id, key, check) ==
  [id |-> id, key |-> key, check |-> check, path |-> "site"]
Entry(id, path, expires) ==
  [id |-> id, fingerprint |-> Unset, path |-> path, reason |-> "accepted",
   expires |-> expires]

Line ==
  [targets |-> 1, hosts |-> 1, groups |-> {"headers"}, crawl |-> FALSE,
   crawlSettings |-> FALSE, oneFile |-> FALSE, outputDir |-> FALSE,
   baselineFile |-> FALSE, baselineDir |-> FALSE, credentials |-> FALSE,
   consent |-> TRUE, failOn |-> "low", entries |-> {}, baselines |-> <<NoBaseline>>]

PageLines ==
  {[Line EXCEPT !.groups = {"headers", "cookies"}, !.crawl = TRUE, !.baselineFile = TRUE,
       !.failOn = level, !.entries = entries,
       !.baselines = <<{Old("COOKIE-FLAGS-MISSING", "sid", "cookies"),
                        Old("HDR-MISSING", "referrer-policy", "security-headers")}>>] :
     level \in {"medium", "none"},
     entries \in {{}, {Entry("HDR-MISSING", {"/a"}, 5)}, {Entry("HDR-MISSING", Unset, 4)}}}
  \cup {[Line EXCEPT !.groups = {"headers", "cookies"}, !.crawl = TRUE, !.failOn = level,
            !.oneFile = TRUE] : level \in {"medium", "low"}}
SiteLines ==
  {[Line EXCEPT !.groups = {"tls", "https_redirect"}, !.failOn = "high",
      !.baselines = <<{Old("TLS-WEAK-PROTOCOL", "TLSv1", "tls"),
                       Old("TLS-NO-HTTPS-REDIRECT", "site", "http-to-https-redirect")}>>],
   [Line EXCEPT !.groups = {"cors", "exposed_files"}, !.failOn = "critical",
      !.baselines = <<{Old("EXPOSURE", ".git", "sensitive-paths")}>>],
   [Line EXCEPT !.groups = {"directory_listing", "robots_sitemap"}],
   [Line EXCEPT !.targets = 2, !.hosts = 2, !.groups = {"headers", "https_redirect"},
      !.baselineDir = TRUE, !.failOn = "medium",
      !.baselines = <<NoBaseline, {Old("HDR-MISSING", "x-frame-options", "security-headers")}>>]}
RefusedLines ==
  {[Line EXCEPT !.targets = 2, !.oneFile = TRUE], [Line EXCEPT !.consent = FALSE],
   [Line EXCEPT !.entries = {Entry(Unset, Unset, 9)}],
   [Line EXCEPT !.baselines = <<{Old("OLD", Unset, "tls")}>>]}
MCFixedOptions ==
  {[Line EXCEPT !.failOn = "low", !.baselineFile = TRUE,
      !.baselines = <<{Old("HDR-HSTS-MISSING-ON-START-HOST", "start-host",
                           "hsts-start-host")}>>]}
MCOptions == PageLines \cup SiteLines \cup RefusedLines

=============================================================================

----------------------------- MODULE PageChecks ------------------------------
(***************************************************************************)
(* The checks of one scan as functions of what the site answered: headers, *)
(* cookies, CORS, the redirect to HTTPS and the content of well-known      *)
(* paths (checks/*.py, soft404.py).  An answer is a record of what the     *)
(* checks look at, or NoAnswer when the request failed, was excluded or    *)
(* left the scope.  A finding is what the report tells apart: its id, the  *)
(* place it is about and its severity; id and place are its fingerprint,   *)
(* since one scan has one target (catalog.fingerprint).                    *)
(***************************************************************************)
EXTENDS Naturals, Sequences, FiniteSets

CONSTANT NoAnswer

Finding(id, key, severity) == [id |-> id, key |-> key, severity |-> severity]
Fingerprint(f) == <<f.id, f.key>>

\* safe_get and get_limited never raise: no answer is an error text instead.
Answered(answer) == answer # NoAnswer

-----------------------------------------------------------------------------
(* headers.py.  A page has headers (a set of names), flags for the values  *)
(* that matter, and whether it came over HTTPS.                            *)

RequiredSeverity ==
  [h \in {"strict-transport-security", "content-security-policy",
          "x-content-type-options", "x-frame-options", "referrer-policy",
          "permissions-policy"} |->
     CASE h = "strict-transport-security" -> "HIGH"
       [] h \in {"content-security-policy", "x-frame-options"} -> "MEDIUM"
       [] h \in {"x-content-type-options", "referrer-policy"} -> "LOW"
       [] h = "permissions-policy" -> "INFO"]

InfoLeakHeaders == {"server", "x-powered-by", "x-aspnet-version", "x-aspnetmvc-version"}

FrameAncestors(page) ==
  "content-security-policy" \in page.headers /\ "frame-ancestors" \in page.values

\* HSTS means nothing over HTTP, X-Frame-Options nothing beside frame-ancestors.
Expected(page) ==
  {h \in DOMAIN RequiredSeverity :
     /\ h = "strict-transport-security" => page.https
     /\ h = "x-frame-options" => ~FrameAncestors(page)}

SecurityHeaders(page) ==
  {Finding("HDR-MISSING", h, RequiredSeverity[h]) : h \in Expected(page) \ page.headers}
  \cup
  {f \in {Finding("HDR-XFO-WEAK", "x-frame-options", "LOW")} :
     /\ "x-frame-options" \in page.headers /\ "odd-frame-option" \in page.values
     /\ ~FrameAncestors(page)}
  \cup
  {f \in {Finding("HDR-CSP-UNSAFE", "content-security-policy", "MEDIUM")} :
     "content-security-policy" \in page.headers /\ "unsafe-csp" \in page.values}
  \cup
  {f \in {Finding("HDR-XXP-LEGACY", "x-xss-protection", "INFO")} :
     "x-xss-protection" \in page.headers /\ "xss-filter-on" \in page.values}
  \cup
  {Finding("HDR-INFO", h, "INFO") : h \in InfoLeakHeaders \cap page.headers}

\* Asked only when the baseline went to another host over HTTPS; a start host
\* that does not answer makes the check fail.
StartHostHsts(answer) ==
  IF "strict-transport-security" \in answer.headers THEN {}
  ELSE {Finding("HDR-HSTS-MISSING-ON-START-HOST", "start-host", "LOW")}

-----------------------------------------------------------------------------
(* cookies.py.  Set-Cookie headers in order; sameSite is "ok", "odd" for an *)
(* unknown value, or absent.                                                *)

CookieMissing(c) ==
  (IF "Secure" \in c.attributes THEN {} ELSE {"Secure"})
  \cup (IF "HttpOnly" \in c.attributes THEN {} ELSE {"HttpOnly"})
  \cup (IF c.sameSite = "ok" THEN {} ELSE {"SameSite"})

CookieSeverity(c) ==
  IF CookieMissing(c) \cap {"Secure", "HttpOnly"} # {} THEN "MEDIUM" ELSE "LOW"

\* In the order of the headers; one with no valid name=value pair (name =
\* NoAnswer) is passed over.
Cookies(setCookies) ==
  LET judged == {i \in DOMAIN setCookies :
                   setCookies[i].name # NoAnswer /\ CookieMissing(setCookies[i]) # {}}
      Nth(n) == setCookies[CHOOSE i \in judged : Cardinality({j \in judged : j <= i}) = n]
  IN [n \in 1 .. Cardinality(judged) |->
        Finding("COOKIE-FLAGS-MISSING", Nth(n).name, CookieSeverity(Nth(n)))]

-----------------------------------------------------------------------------
(* cors_check.py: what Access-Control-Allow-Origin answers a made-up Origin *)

Cors(answer) ==
  IF ~Answered(answer) THEN {}
  ELSE CASE answer.allowOrigin = "*" /\ answer.credentials ->
              {Finding("CORS-WILDCARD-WITH-CREDENTIALS", "site", "MEDIUM")}
         [] answer.allowOrigin = "echo" ->
              {Finding("CORS-REFLECTS-ARBITRARY-ORIGIN", "site",
                       IF answer.credentials THEN "HIGH" ELSE "MEDIUM")}
         [] answer.allowOrigin = "*" /\ ~answer.credentials ->
              {Finding("CORS-WILDCARD", "site", "INFO")}
         [] OTHER -> {}

-----------------------------------------------------------------------------
(* redirect_check.py.  A hop answers with a Location that is "https",       *)
(* "http" (in scope), "elsewhere" (out of scope), "none", or not at all.    *)

NoHttpsRedirect == {Finding("TLS-NO-HTTPS-REDIRECT", "site", "HIGH")}

\* Followed hop by hop until one hop is not a redirect to http in scope, or
\* for as many hops as are allowed: only a page that stays on HTTP is judged.
HttpToHttpsRedirect(hops, maxRedirects) ==
  LET last == {i \in DOMAIN hops : i <= maxRedirects /\ hops[i] # "http"
                                   /\ \A j \in 1 .. i - 1 : hops[j] = "http"}
  IN IF \E i \in last : hops[i] = "none" THEN NoHttpsRedirect ELSE {}

\* The target was entered as http://: the baseline's own chain is judged.
EvaluateRedirectChain(chain) ==
  IF \E i \in DOMAIN chain : chain[i] = "https" THEN {} ELSE NoHttpsRedirect

-----------------------------------------------------------------------------
(* soft404.py and exposure.py.  An answer to a path has a status, where it  *)
(* came from (`final', and whether redirects led there), its text (texts    *)
(* that are the same count as similar) and what the text looks like.        *)

\* One probe of a path that cannot exist.
ProbesOf(answers) ==
  {a \in answers : Answered(a) /\ a.status = 200}

LooksMissing(answer, probes) ==
  /\ answer.status = 200
  /\ \E p \in probes :
       \/ p.redirected /\ answer.redirected /\ answer.final = p.final
       \/ answer.text = p.text

FileFound(answer, probes) ==
  /\ Answered(answer) /\ answer.status = 200
  /\ "signature" \in answer.looks
  /\ ~LooksMissing(answer, probes)

\* One rule per path; security.txt is good practice and only informs.
SensitivePaths(answerOf, probes, severityOf) ==
  {Finding("EXPOSURE", path, severityOf[path]) :
     path \in {p \in DOMAIN answerOf : FileFound(answerOf[p], probes)}}

DirectoryListing(answerOf, probes) ==
  {Finding("EXPOSURE-DIR-LISTING", path, "MEDIUM") :
     path \in {p \in DOMAIN answerOf :
                 /\ Answered(answerOf[p]) /\ answerOf[p].status = 200
                 /\ ~LooksMissing(answerOf[p], probes)
                 /\ "listing" \in answerOf[p].looks}}

Hints(answer, id, file) ==
  IF Answered(answer) /\ answer.status = 200 /\ "sensitive-names" \in answer.looks
  THEN {Finding(id, file, "LOW")} ELSE {}

RobotsAndSitemap(robots, sitemap) ==
  Hints(robots, "EXPOSURE-ROBOTS-HINTS", "robots.txt")
    \cup Hints(sitemap, "EXPOSURE-SITEMAP-HINTS", "sitemap.xml")

=============================================================================

------------------------------- MODULE Crawler -------------------------------
(***************************************************************************)
(* crawl() (crawler/crawl.py): the frontier, its limits, robots.txt, and   *)
(* the reason it gives for stopping.                                       *)
(*                                                                         *)
(* The site is not given in advance: what a URL answers and which links    *)
(* the page has is chosen when it is fetched, and no URL is fetched twice, *)
(* so every site over Url is covered.  Links of a page are considered in   *)
(* any order.  Time and the limits of the scan may end the crawl at any    *)
(* of the points where the code looks at them, and an answer whose text    *)
(* cannot be decoded breaks it: crawl() then raises and has no result.     *)
(***************************************************************************)
EXTENDS Integers, Sequences

CONSTANTS Url,            \* normalized URLs
          None,           \* a link that cannot be normalized
          Home,
          OtherOrigin, Excluded,
          Disallowed,     \* what robots.txt disallows, if there is one
          Path, PathOf,   \* [Url -> Path]; URLs of one path differ in the query
          MaxDepth, MaxPages, RespectRobots,          \* CrawlOptions
          MaxQueryVariants, MaxDiscovered

ASSUME CrawlerAssumption ==
  /\ None \notin Url /\ Home \in Url \ OtherOrigin
  /\ PathOf \in [Url -> Path]
  /\ MaxDepth \in Nat /\ MaxPages \in Nat \ {0} /\ RespectRobots \in BOOLEAN
  /\ MaxQueryVariants \in Nat \ {0} /\ MaxDiscovered \in Nat \ {0}

VARIABLES
  seen, variants, discovered, queue, skipped, robots,
  pages,       \* how many have been fetched
  pc,          \* "done": crawl() has returned; "broken": it has raised
  current,     \* url, depth of the page at hand, None between pages
  todo,        \* its links that are still to be considered
  linkDepth,   \* the depth they are at
  stopped,     \* stopped_reason
  fate,        \* history: what consider() made of each URL it had not seen
  requested,   \* history: the URLs asked for
  again,       \* history: one was asked for twice
  redirected,  \* history: a redirect has been answered
  missed       \* history: URLs linked within the depth limit after they had
               \* been skipped as beyond it

frontierVars == <<seen, variants, discovered, queue>>
historyVars == <<fate, requested, again, redirected, missed>>
vars == <<frontierVars, skipped, pages, robots, pc, current, todo, linkDepth,
          stopped, historyVars>>

Link == Url \cup {None}
Entry == [url : Url, depth : 1 .. MaxDepth]
Skip == {"not-followable", "other-origin", "beyond-depth", "excluded",
         "query-variants", "queue-full", "robots-disallowed", "fetch-failed"}
Reason == {"complete", "max-depth", "max-pages", "max-duration",
           "scan-limit", "robots-unavailable"}

TypeOK ==
  /\ seen \subseteq Url /\ Home \in seen
  /\ variants \in [Path -> 0 .. MaxQueryVariants]
  /\ discovered \in 0 .. MaxDiscovered
  /\ queue \in Seq(Entry)
  /\ skipped \subseteq Skip
  /\ pages \in 0 .. MaxPages - 1
  /\ robots \in {"unread", "none", "rules"}
  /\ pc \in {"loop", "robots", "fetch", "done", "broken"}
  /\ current \in Entry \cup {None}
  /\ todo \subseteq Link /\ linkDepth \in 1 .. MaxDepth + 1
  /\ stopped \in Reason
  /\ fate \in [Url -> Skip \cup {"queued", "new"}]
  /\ requested \subseteq Url /\ again \in BOOLEAN
  /\ redirected \in BOOLEAN /\ missed \subseteq Url

\* The links of the home page, fetched before, are the first to be considered.
Init ==
  /\ seen = {Home}
  /\ variants = [p \in Path |-> 0] /\ discovered = 0
  /\ queue = <<>> /\ skipped = {} /\ pages = 0
  /\ robots = "unread"
  /\ pc = "loop" /\ current = None
  /\ todo \in SUBSET Link /\ linkDepth = 1
  /\ stopped = "complete"
  /\ fate = [u \in Url |-> "new"]
  /\ requested = {} /\ again = FALSE /\ redirected = FALSE /\ missed = {}

(***************************************************************************)
(* consider(raw, depth).                                                   *)
(***************************************************************************)
\* Mutant of Fate: pages at the depth limit are not visited.
FateAtDepth(u) ==
  IF u \in OtherOrigin THEN "other-origin"
  ELSE IF linkDepth >= MaxDepth THEN "beyond-depth"
  ELSE IF u \in Excluded THEN "excluded"
  ELSE IF variants[PathOf[u]] >= MaxQueryVariants THEN "query-variants"
  ELSE IF discovered >= MaxDiscovered THEN "queue-full"
  ELSE "queued"

\* What becomes of a URL not seen before, in the order of the returns.
Fate(u) ==
  IF u \in OtherOrigin THEN "other-origin"
  ELSE IF linkDepth > MaxDepth THEN "beyond-depth"
  ELSE IF u \in Excluded THEN "excluded"
  ELSE IF variants[PathOf[u]] >= MaxQueryVariants THEN "query-variants"
  ELSE IF discovered >= MaxDiscovered THEN "queue-full"
  ELSE "queued"

\* What cannot be normalized is counted and changes nothing else: it goes first.
Consider(u) ==
  /\ u \in todo /\ (u = None \/ None \notin todo)
  /\ todo' = todo \ {u}
  /\ UNCHANGED <<pages, robots, pc, current, linkDepth, stopped, requested,
                 again, redirected>>

NotFollowable ==
  /\ Consider(None)
  /\ skipped' = skipped \cup {"not-followable"}
  /\ UNCHANGED <<frontierVars, fate, missed>>

SeenBefore(u) ==
  /\ Consider(u) /\ u \in seen
  /\ missed' = IF fate[u] = "beyond-depth" /\ linkDepth <= MaxDepth
               THEN missed \cup {u} ELSE missed
  /\ UNCHANGED <<frontierVars, skipped, fate>>

SkipUrl(u) ==
  /\ Consider(u) /\ u \in Url \ seen
  /\ Fate(u) # "queued"
  /\ seen' = seen \cup {u}
  /\ fate' = [fate EXCEPT ![u] = Fate(u)]
  /\ skipped' = skipped \cup {Fate(u)}
  /\ UNCHANGED <<variants, discovered, queue, missed>>

\* Mutant of QueueUrl: a URL is marked as seen only when it is skipped.
QueueUrlUnseen(u) ==
  /\ Consider(u) /\ u \in Url \ seen
  /\ Fate(u) = "queued"
  /\ fate' = [fate EXCEPT ![u] = "queued"]
  /\ variants' = [variants EXCEPT ![PathOf[u]] = @ + 1]
  /\ discovered' = discovered + 1
  /\ queue' = Append(queue, [url |-> u, depth |-> linkDepth])
  /\ UNCHANGED <<seen, skipped, missed>>

QueueUrl(u) ==
  /\ Consider(u) /\ u \in Url \ seen
  /\ Fate(u) = "queued"
  /\ seen' = seen \cup {u}
  /\ fate' = [fate EXCEPT ![u] = "queued"]
  /\ variants' = [variants EXCEPT ![PathOf[u]] = @ + 1]
  /\ discovered' = discovered + 1
  /\ queue' = Append(queue, [url |-> u, depth |-> linkDepth])
  /\ UNCHANGED <<skipped, missed>>

(***************************************************************************)
(* The loop.                                                               *)
(***************************************************************************)
PagesVisited == pages + 1

\* Mutant of Finish: links beyond the depth limit are not told.
FinishAsIs(reason) ==
  /\ stopped' = reason
  /\ pc' = "done"

\* Leaving the loop; the limit that cut most is told last.
Finish(reason) ==
  /\ stopped' = IF reason = "complete" /\ "beyond-depth" \in skipped
                THEN "max-depth" ELSE reason
  /\ pc' = "done"

AtLoop == pc = "loop" /\ todo = {}

loopVars == <<frontierVars, skipped, pages, robots, current, todo, linkDepth,
              historyVars>>

NothingLeft ==
  /\ AtLoop /\ queue = <<>>
  /\ Finish("complete")
  /\ UNCHANGED loopVars

TimeUp ==
  /\ AtLoop /\ queue # <<>>
  /\ Finish("max-duration")
  /\ UNCHANGED loopVars

PagesSpent ==
  /\ AtLoop /\ queue # <<>> /\ PagesVisited >= MaxPages
  /\ Finish("max-pages")
  /\ UNCHANGED loopVars

\* Mutant of Pop: robots.txt is read after the first page.
PopThenRobots ==
  /\ AtLoop /\ queue # <<>> /\ PagesVisited < MaxPages
  /\ current' = Head(queue) /\ queue' = Tail(queue)
  /\ pc' = IF RespectRobots /\ robots = "unread" /\ requested # {}
           THEN "robots" ELSE "fetch"
  /\ UNCHANGED <<seen, variants, discovered, skipped, pages, robots, todo,
                 linkDepth, stopped, historyVars>>

\* Mutant of Pop: the page stays in the queue.
PopAndKeep ==
  /\ AtLoop /\ queue # <<>> /\ PagesVisited < MaxPages
  /\ current' = Head(queue) /\ UNCHANGED queue
  /\ pc' = IF RespectRobots /\ robots = "unread" THEN "robots" ELSE "fetch"
  /\ UNCHANGED <<seen, variants, discovered, skipped, pages, robots, todo,
                 linkDepth, stopped, historyVars>>

Pop ==
  /\ AtLoop /\ queue # <<>> /\ PagesVisited < MaxPages
  /\ current' = Head(queue) /\ queue' = Tail(queue)
  /\ pc' = IF RespectRobots /\ robots = "unread" THEN "robots" ELSE "fetch"
  /\ UNCHANGED <<seen, variants, discovered, skipped, pages, robots, todo,
                 linkDepth, stopped, historyVars>>

\* An answer below 400 has rules, one below 500 says there are none.
ReadRobots ==
  /\ pc = "robots"
  /\ robots' \in {"none", "rules"}
  /\ pc' = "fetch"
  /\ UNCHANGED <<frontierVars, skipped, pages, current, todo, linkDepth,
                 stopped, historyVars>>

RobotsUnavailable ==
  /\ pc = "robots"
  /\ Finish("robots-unavailable")
  /\ UNCHANGED loopVars

\* The charset that robots.txt names is unknown: LookupError, which crawl()
\* does not catch.
RobotsUndecodable ==
  /\ pc = "robots" /\ pc' = "broken"
  /\ UNCHANGED stopped /\ UNCHANGED loopVars

MayFetch == ~(robots = "rules" /\ current.url \in Disallowed)

RobotsDisallow ==
  /\ pc = "fetch" /\ ~MayFetch
  /\ skipped' = skipped \cup {"robots-disallowed"}
  /\ pc' = "loop" /\ current' = None
  /\ UNCHANGED <<frontierVars, pages, robots, todo, linkDepth, stopped,
                 historyVars>>

\* ScanLimitReached, from robots.txt or from the page.
LimitReached ==
  /\ pc = "robots" \/ (pc = "fetch" /\ MayFetch)
  /\ Finish("scan-limit")
  /\ UNCHANGED loopVars

\* The page is asked for.
Request(where) ==
  /\ pc = "fetch" /\ MayFetch
  /\ pc' = where /\ current' = None
  /\ requested' = requested \cup {current.url}
  /\ again' = (again \/ current.url \in requested)
  /\ UNCHANGED <<frontierVars, robots, stopped, fate, missed>>

FetchFails ==
  /\ Request("loop")
  /\ skipped' = skipped \cup {"fetch-failed"}
  /\ UNCHANGED <<pages, todo, linkDepth, redirected>>

\* Any answer is a page; a redirect leads no level deeper, and only a
\* successful HTML page is read for links.
FetchPage ==
  /\ Request("loop")
  /\ pages' = pages + 1
  /\ \/ /\ todo' \in {{l} : l \in Link}
        /\ linkDepth' = current.depth
        /\ redirected' = TRUE
     \/ /\ todo' \in SUBSET Link
        /\ linkDepth' = current.depth + 1
        /\ UNCHANGED redirected
  /\ UNCHANGED skipped

\* The same LookupError, after the page was appended.
PageUndecodable ==
  /\ Request("broken")
  /\ pages' = pages + 1
  /\ UNCHANGED <<skipped, todo, linkDepth, redirected>>

Next ==
  \/ NotFollowable
  \/ \E u \in Url : SeenBefore(u) \/ SkipUrl(u) \/ QueueUrl(u)
  \/ NothingLeft \/ TimeUp \/ PagesSpent \/ Pop
  \/ ReadRobots \/ RobotsUnavailable \/ RobotsUndecodable \/ RobotsDisallow
  \/ LimitReached \/ FetchFails \/ FetchPage \/ PageUndecodable

Spec == Init /\ [][Next]_vars

\* One thread; each request ends within its timeout.
FairSpec == Spec /\ WF_vars(Next)

(***************************************************************************)
(* What a crawl promises.                                                  *)
(***************************************************************************)
Queued == {queue[i].url : i \in DOMAIN queue}

\* No page is requested twice and the home page not again, whatever links,
\* redirects and cycles the site has (crawl.py:133-135).
EachOnce == ~again /\ Home \notin requested

\* Only pages of the home page's origin, not excluded and not disallowed by
\* robots.txt, are requested, redirect targets included, and no page before
\* robots.txt has been read (crawl.py:136-144, 171-180).
RequestsAllowed ==
  /\ requested \cap (OtherOrigin \cup Excluded) = {}
  /\ (RespectRobots /\ requested # {}) => robots # "unread"
  /\ robots = "rules" => requested \cap Disallowed = {}

\* stopped_reason says why pages are missing: "complete" only when every link
\* was requested or is accounted for by a reason in skipped other than the
\* depth, "max-depth" when the depth is the only limit that stopped it, and
\* "max-pages" when the limit was reached with pages left to visit
\* (crawl.py:161-168, 214-215).
ReasonTruthful ==
  pc = "done" =>
    /\ stopped \in {"complete", "max-depth"} =>
         \A u \in Url : fate[u] = "queued" =>
           u \in requested \/ (robots = "rules" /\ u \in Disallowed)
    /\ stopped = "complete" => \A u \in Url : fate[u] # "beyond-depth"
    /\ stopped = "max-depth" => \E u \in Url : fate[u] = "beyond-depth"
    /\ stopped = "max-pages" => PagesVisited = MaxPages /\ Queued # {}

\* On a site without redirects a page within the depth limit is never left
\* out because it was first met deeper down (crawl.py:133-141, 169).
DepthInOrder == missed # {} => redirected

\* Every crawl ends, also on a site of redirect loops.
CrawlEnds == <>(pc \in {"done", "broken"})

=============================================================================

---------------------------- MODULE Crawler_proofs ----------------------------
(***************************************************************************)
(* Proofs about Crawler: for every set of URLs, every site over it, and    *)
(* every limit.                                                            *)
(***************************************************************************)
EXTENDS Crawler, TLAPS

(***************************************************************************)
(* The inductive invariant.                                                *)
(***************************************************************************)
\* A page has been taken from the queue and not been asked for yet.
Working == pc \in {"robots", "fetch"}

\* crawl() has returned, or raised.
Over == pc \in {"done", "broken"}

Fresh(u) ==
  /\ u \in seen /\ u # Home /\ u \notin requested
  /\ u \notin OtherOrigin /\ u \notin Excluded

\* What is still to be requested is allowed, has not been requested before,
\* and is in one place only.
Frontier ==
  /\ \A i \in DOMAIN queue : Fresh(queue[i].url)
  /\ \A i, j \in DOMAIN queue : queue[i].url = queue[j].url => i = j
  /\ Working => /\ current \in Entry /\ Fresh(current.url)
                /\ \A i \in DOMAIN queue : queue[i].url # current.url
  /\ requested \subseteq seen \ {Home}
  /\ requested \cap (OtherOrigin \cup Excluded) = {}
  /\ ~again

\* What is known at each point of the loop.
Phases ==
  /\ pc # "loop" => todo = {}
  /\ Working => pages + 1 < MaxPages
  /\ pc = "robots" => RespectRobots /\ robots = "unread"
  /\ pc = "fetch" /\ RespectRobots => robots # "unread"
  /\ RespectRobots /\ requested # {} => robots # "unread"
  /\ pc # "done" => stopped = "complete"
  /\ robots = "rules" => requested \cap Disallowed = {}

\* Without redirects the queue goes from one level to the next: whatever is
\* considered from now on lies at least as deep as what was considered so far.
Breadth ==
  ~redirected =>
    /\ \A i \in DOMAIN queue : queue[i].depth \in {linkDepth - 1, linkDepth}
    /\ \A i, j \in DOMAIN queue : i < j => queue[i].depth <= queue[j].depth
    /\ Working => /\ current.depth \in {linkDepth - 1, linkDepth}
                  /\ \A i \in DOMAIN queue : current.depth <= queue[i].depth
    /\ \A u \in Url : fate[u] = "beyond-depth" => linkDepth > MaxDepth
    /\ missed = {}

\* Every URL that was queued has been requested or is still to be, unless a
\* limit ended the crawl.
Accounts ==
  /\ \A u \in Url \ seen : fate[u] = "new"
  /\ ~Over => \A u \in Url : fate[u] = "queued" =>
       \/ u \in requested
       \/ robots = "rules" /\ u \in Disallowed
       \/ \E i \in DOMAIN queue : queue[i].url = u
       \/ Working /\ current.url = u
  /\ "beyond-depth" \in skipped <=> \E u \in Url : fate[u] = "beyond-depth"
  /\ fate[Home] = "new"

CrawlInv == TypeOK /\ Frontier /\ Phases /\ Breadth /\ Accounts /\ ReasonTruthful

(***************************************************************************)
(* Steps.                                                                  *)
(***************************************************************************)
\* The actions that leave the loop.
Leave ==
  \/ NothingLeft \/ TimeUp \/ PagesSpent \/ RobotsUnavailable \/ LimitReached
  \/ RobotsUndecodable

\* What is queued is within the limits.
LEMMA QueuedWithinLimits ==
  ASSUME NEW u, Fate(u) = "queued"
  PROVE  /\ u \notin OtherOrigin /\ u \notin Excluded
         /\ ~(linkDepth > MaxDepth)
         /\ ~(variants[PathOf[u]] >= MaxQueryVariants)
         /\ ~(discovered >= MaxDiscovered)
BY DEF Fate

\* What is not queued has one of the reasons of skipped, and "beyond-depth"
\* only beyond the limit.
LEMMA SkippedForAReason ==
  ASSUME NEW u, Fate(u) # "queued"
  PROVE  /\ Fate(u) \in Skip
         /\ Fate(u) = "beyond-depth" => linkDepth > MaxDepth
BY DEF Fate, Skip

\* Taking the first page of a queue.
LEMMA HeadAndTail ==
  ASSUME NEW S, NEW s \in Seq(S), s # <<>>
  PROVE  /\ 1 \in DOMAIN s /\ Head(s) = s[1] /\ Head(s) \in S
         /\ Tail(s) \in Seq(S)
         /\ \A i \in DOMAIN Tail(s) : i + 1 \in DOMAIN s /\ Tail(s)[i] = s[i + 1]
         /\ \A i \in DOMAIN s : i # 1 =>
              i - 1 \in DOMAIN Tail(s) /\ Tail(s)[i - 1] = s[i]
         /\ DOMAIN s \subseteq Nat \ {0} /\ DOMAIN Tail(s) \subseteq Nat \ {0}
OBVIOUS

\* Adding a page to a queue.
LEMMA Appended ==
  ASSUME NEW S, NEW s \in Seq(S), NEW x \in S
  PROVE  /\ Append(s, x) \in Seq(S)
         /\ DOMAIN s \subseteq DOMAIN Append(s, x)
         /\ DOMAIN Append(s, x) = DOMAIN s \cup {Len(s) + 1}
         /\ \A i \in DOMAIN s : Append(s, x)[i] = s[i] /\ i < Len(s) + 1
         /\ Append(s, x)[Len(s) + 1] = x
         /\ DOMAIN s \subseteq Nat /\ Len(s) + 1 \in Nat
         /\ Len(s) + 1 \notin DOMAIN s
OBVIOUS

\* The variables keep their types.
LEMMA TypesKept ==
  ASSUME CrawlInv, [Next]_vars
  PROVE  TypeOK'
<1> USE CrawlerAssumption
<1> TypeOK /\ Frontier /\ Phases
  BY DEF CrawlInv
<1>1. CASE NotFollowable
  BY <1>1 DEF TypeOK, NotFollowable, Consider, frontierVars, Skip, Link
<1>2. ASSUME NEW u \in Url, SeenBefore(u)
      PROVE  TypeOK'
  BY <1>2 DEF TypeOK, SeenBefore, Consider, frontierVars
<1>3. ASSUME NEW u \in Url, SkipUrl(u)
      PROVE  TypeOK'
  <2>1. Fate(u) \in Skip
    BY <1>3, SkippedForAReason DEF SkipUrl
  <2> QED
    BY <1>3, <2>1 DEF TypeOK, SkipUrl, Consider
<1>4. ASSUME NEW u \in Url, QueueUrl(u)
      PROVE  TypeOK'
  <2> DEFINE x == [url |-> u, depth |-> linkDepth]
  <2>1. /\ linkDepth \in 1 .. MaxDepth
        /\ variants[PathOf[u]] + 1 \in 0 .. MaxQueryVariants
        /\ discovered + 1 \in 0 .. MaxDiscovered
    BY <1>4, QueuedWithinLimits DEF TypeOK, QueueUrl
  <2>2. x \in Entry
    BY <2>1 DEF Entry
  <2>3. Append(queue, x) \in Seq(Entry)
    BY <2>2, Appended DEF TypeOK
  <2>4. variants' \in [Path -> 0 .. MaxQueryVariants]
    BY <1>4, <2>1 DEF TypeOK, QueueUrl
  <2> QED
    BY <1>4, <2>1, <2>3, <2>4 DEF TypeOK, QueueUrl, Consider
<1>5. CASE Leave
  BY <1>5 DEF TypeOK, Leave, NothingLeft, TimeUp, PagesSpent,
     RobotsUnavailable, RobotsUndecodable, LimitReached, Finish, Reason, loopVars, frontierVars,
     historyVars
<1>6. CASE Pop
  <2>1. current' \in Entry /\ queue' \in Seq(Entry)
    BY <1>6, HeadAndTail DEF TypeOK, Pop
  <2> QED
    BY <1>6, <2>1 DEF TypeOK, Pop, historyVars
<1>7. CASE ReadRobots
  BY <1>7 DEF TypeOK, ReadRobots, frontierVars, historyVars
<1>8. CASE RobotsDisallow
  BY <1>8 DEF TypeOK, RobotsDisallow, frontierVars, historyVars, Skip
<1>9. CASE FetchFails
  BY <1>9 DEF TypeOK, FetchFails, Request, frontierVars, Skip, Frontier,
     Working, Entry
<1>12. CASE PageUndecodable
  BY <1>12 DEF TypeOK, PageUndecodable, Request, frontierVars, Frontier, Phases,
     Working, Entry
<1>10. CASE FetchPage
  <2>1. current.url \in Url /\ current.depth \in 1 .. MaxDepth
    BY <1>10 DEF FetchPage, Request, Frontier, Working, Entry
  <2>2. pages + 1 \in 0 .. MaxPages - 1
    BY <1>10 DEF FetchPage, Request, Phases, Working, TypeOK
  <2>3. linkDepth' \in 1 .. MaxDepth + 1 /\ todo' \subseteq Link
    BY <1>10, <2>1 DEF FetchPage
  <2> QED
    BY <1>10, <2>1, <2>2, <2>3 DEF TypeOK, FetchPage, Request, frontierVars
<1>11. CASE UNCHANGED vars
  BY <1>11 DEF TypeOK, vars, frontierVars, historyVars
<1> QED
  BY <1>1, <1>2, <1>3, <1>4, <1>5, <1>6, <1>7, <1>8, <1>9, <1>10, <1>11, <1>12
  DEF Next, Leave

\* A step that neither queues, takes nor requests a page.
Idle ==
  /\ UNCHANGED <<queue, requested, again>>
  /\ seen \subseteq seen' /\ Home \notin seen' \ seen
  /\ Working' => Working /\ current' = current

\* What is queued or requested stays allowed and requested once.
LEMMA FrontierKept ==
  ASSUME CrawlInv, [Next]_vars
  PROVE  Frontier'
<1> USE CrawlerAssumption
<1> TypeOK /\ Frontier
  BY DEF CrawlInv
<1>1. ASSUME Idle
      PROVE  Frontier'
  BY <1>1 DEF Idle, Frontier, Fresh, Entry
<1>2. ASSUME NEW u \in Url, QueueUrl(u)
      PROVE  Frontier'
  <2> DEFINE x == [url |-> u, depth |-> linkDepth]
             n == Len(queue) + 1
  <2>1. x \in Entry /\ u \notin OtherOrigin /\ u \notin Excluded
    BY <1>2, QueuedWithinLimits DEF Entry, TypeOK, QueueUrl
  <2>2. queue' = Append(queue, x) /\ seen' = seen \cup {u} /\ u \notin seen
    BY <1>2 DEF QueueUrl
  <2>3. /\ DOMAIN queue' = DOMAIN queue \cup {n}
        /\ \A i \in DOMAIN queue : queue'[i] = queue[i]
        /\ queue'[n] = x
    BY <2>1, <2>2, Appended DEF TypeOK
  <2>4. UNCHANGED <<pc, current, requested, again>>
    BY <1>2 DEF QueueUrl, Consider
  <2>5. (\A i \in DOMAIN queue : Fresh(queue[i].url))'
    <3>1. u # Home /\ u \notin requested
      BY <2>2 DEF TypeOK, Frontier
    <3> QED
      BY <2>1, <2>2, <2>3, <2>4, <3>1 DEF Frontier, Fresh
  <2>6. \A i \in DOMAIN queue : queue'[i].url # queue'[n].url
    BY <2>2, <2>3 DEF Frontier, Fresh
  <2>7. Working => /\ current' \in Entry /\ Fresh(current.url)'
                   /\ \A i \in DOMAIN queue' : queue'[i].url # current'.url
    BY <2>2, <2>3, <2>4 DEF Frontier, Fresh
  <2> QED
    BY <2>2, <2>3, <2>4, <2>5, <2>6, <2>7 DEF Frontier, Working
<1>3. CASE Pop
  <2>1. /\ current' = queue[1] /\ current' \in Entry /\ 1 \in DOMAIN queue
        /\ \A i \in DOMAIN queue' :
             i + 1 \in DOMAIN queue /\ queue'[i] = queue[i + 1]
        /\ DOMAIN queue' \subseteq Nat \ {0}
    BY <1>3, HeadAndTail DEF Pop, TypeOK
  <2>2. UNCHANGED <<seen, requested, again>>
    BY <1>3 DEF Pop, historyVars
  <2>3. \A i, j \in DOMAIN queue' : queue'[i].url = queue'[j].url => i = j
    BY <2>1 DEF Frontier
  <2>4. \A i \in DOMAIN queue' : queue'[i].url # current'.url
    BY <2>1 DEF Frontier
  <2> QED
    BY <2>1, <2>2, <2>3, <2>4 DEF Frontier, Fresh
<1>4. ASSUME NEW where \in {"loop", "broken"}, Request(where)
      PROVE  Frontier'
  <2>1. /\ UNCHANGED <<seen, queue>> /\ Working /\ ~Working'
        /\ requested' = requested \cup {current.url}
        /\ again' = (again \/ current.url \in requested)
    BY <1>4 DEF Request, Working, frontierVars
  <2>2. /\ current \in Entry /\ Fresh(current.url)
        /\ \A i \in DOMAIN queue : queue[i].url # current.url
    BY <2>1 DEF Frontier
  <2>3. (\A i \in DOMAIN queue : Fresh(queue[i].url))'
    BY <2>1, <2>2 DEF Frontier, Fresh
  <2>4. requested' \subseteq seen' \ {Home} /\ ~again'
    BY <2>1, <2>2 DEF Frontier, Fresh
  <2>5. requested' \cap (OtherOrigin \cup Excluded) = {}
    BY <2>1, <2>2 DEF Frontier, Fresh
  <2> QED
    BY <2>1, <2>3, <2>4, <2>5 DEF Frontier
<1>5. CASE ReadRobots
  BY <1>5 DEF ReadRobots, Frontier, Fresh, Working, frontierVars, historyVars
<1>6. CASE \/ NotFollowable \/ \E u \in Url : SeenBefore(u) \/ SkipUrl(u)
  BY <1>1, <1>6 DEF Idle, NotFollowable, SeenBefore, SkipUrl, Consider,
     frontierVars, Working, TypeOK
<1>7. CASE Leave \/ RobotsDisallow \/ UNCHANGED vars
  BY <1>1, <1>7 DEF Idle, Leave, NothingLeft, TimeUp, PagesSpent,
     RobotsUnavailable, RobotsUndecodable, LimitReached, RobotsDisallow, Finish, loopVars,
     frontierVars, historyVars, vars, Working
<1> QED
  BY <1>2, <1>3, <1>4, <1>5, <1>6, <1>7
  DEF Next, Leave, FetchFails, FetchPage, PageUndecodable

\* The loop keeps its order.
LEMMA PhasesKept ==
  ASSUME CrawlInv, [Next]_vars
  PROVE  Phases'
<1> USE CrawlerAssumption
<1> TypeOK /\ Phases
  BY DEF CrawlInv
<1>1. CASE \/ NotFollowable
           \/ \E u \in Url : SeenBefore(u) \/ SkipUrl(u) \/ QueueUrl(u)
  BY <1>1 DEF NotFollowable, SeenBefore, SkipUrl, QueueUrl, Consider, Phases,
     Working
<1>2. CASE Leave
  BY <1>2 DEF Leave, NothingLeft, TimeUp, PagesSpent, RobotsUnavailable,
     RobotsUndecodable, LimitReached, AtLoop, Finish, loopVars, historyVars, Phases, Working
<1>3. CASE Pop
  BY <1>3 DEF Pop, AtLoop, PagesVisited, historyVars, Phases, Working, TypeOK
<1>4. CASE ReadRobots
  BY <1>4 DEF ReadRobots, historyVars, Phases, Working
<1>5. CASE RobotsDisallow
  BY <1>5 DEF RobotsDisallow, historyVars, Phases, Working
<1>6. CASE FetchFails \/ FetchPage \/ PageUndecodable
  <2>1. /\ Request("loop") \/ (Request("broken") /\ UNCHANGED todo)
        /\ pages' \in {pages, pages + 1}
    BY <1>6 DEF FetchFails, FetchPage, PageUndecodable
  <2> QED
    BY <2>1 DEF Request, MayFetch, Phases, Working, TypeOK
<1>7. CASE UNCHANGED vars
  BY <1>7 DEF vars, historyVars, Phases, Working
<1> QED
  BY <1>1, <1>2, <1>3, <1>4, <1>5, <1>6, <1>7 DEF Next, Leave

\* Level by level, as long as no redirect has been met.
LEMMA BreadthKept ==
  ASSUME CrawlInv, [Next]_vars
  PROVE  Breadth'
<1> USE CrawlerAssumption
<1> TypeOK /\ Frontier /\ Phases /\ Breadth
  BY DEF CrawlInv
<1> SUFFICES ASSUME ~redirected'
             PROVE  Breadth'
  BY DEF Breadth
<1>1. ~redirected
  BY DEF Next, NotFollowable, SeenBefore, SkipUrl, QueueUrl, Consider,
     NothingLeft, TimeUp, PagesSpent, RobotsUnavailable, RobotsUndecodable, LimitReached, Pop,
     ReadRobots, RobotsDisallow, FetchFails, FetchPage, PageUndecodable, loopVars,
     historyVars, vars
<1>2. ASSUME UNCHANGED <<queue, linkDepth, fate, missed>>,
             Working' => Working /\ current' = current
      PROVE  Breadth'
  BY <1>1, <1>2 DEF Breadth
<1>3. ASSUME NEW u \in Url, SeenBefore(u)
      PROVE  Breadth'
  <2>1. UNCHANGED missed
    BY <1>1, <1>3 DEF SeenBefore, Consider, Breadth, TypeOK
  <2> QED
    BY <1>2, <1>3, <2>1 DEF SeenBefore, Consider, frontierVars, Working
<1>4. ASSUME NEW u \in Url, SkipUrl(u)
      PROVE  Breadth'
  <2>1. \A v \in Url : fate'[v] = "beyond-depth" => linkDepth > MaxDepth
    BY <1>1, <1>4, SkippedForAReason DEF SkipUrl, Breadth, TypeOK
  <2> QED
    BY <1>1, <1>4, <2>1 DEF SkipUrl, Consider, Breadth, Working
<1>5. ASSUME NEW u \in Url, QueueUrl(u)
      PROVE  Breadth'
  <2> DEFINE x == [url |-> u, depth |-> linkDepth]
             n == Len(queue) + 1
  <2>1. x \in Entry
    BY <1>5, QueuedWithinLimits DEF Entry, TypeOK, QueueUrl
  <2>2. /\ DOMAIN queue' = DOMAIN queue \cup {n}
        /\ \A i \in DOMAIN queue : queue'[i] = queue[i] /\ i < n
        /\ queue'[n] = x
        /\ n \in Nat /\ DOMAIN queue \subseteq Nat
    BY <1>5, <2>1, Appended DEF TypeOK, QueueUrl
  <2>3. ~Working
    BY <1>5 DEF QueueUrl, Consider, Phases, Working
  <2>4. UNCHANGED <<pc, linkDepth, missed>> /\ pc \notin {"robots", "fetch"}
    BY <1>5, <2>3 DEF QueueUrl, Consider, Working
  <2>5. \A v \in Url : fate'[v] = "beyond-depth" => linkDepth > MaxDepth
    BY <1>1, <1>5 DEF QueueUrl, Breadth, TypeOK
  <2>6. \A i \in DOMAIN queue' : queue'[i].depth \in {linkDepth - 1, linkDepth}
    BY <1>1, <2>2 DEF Breadth
  <2>7. \A i, j \in DOMAIN queue' : i < j => queue'[i].depth <= queue'[j].depth
    <3> SUFFICES ASSUME NEW i \in DOMAIN queue', NEW j \in DOMAIN queue', i < j
                 PROVE  queue'[i].depth <= queue'[j].depth
      OBVIOUS
    <3>1. CASE j \in DOMAIN queue
      BY <1>1, <2>2, <3>1 DEF Breadth
    <3>2. CASE j = n
      <4>1. queue'[j].depth = linkDepth /\ linkDepth \in Int
        BY <2>2, <3>2 DEF TypeOK
      <4>2. queue'[i].depth \in {linkDepth - 1, linkDepth}
        BY <2>6
      <4> QED
        BY <4>1, <4>2
    <3> QED
      BY <2>2, <3>1, <3>2
  <2> QED
    BY <1>1, <2>4, <2>5, <2>6, <2>7 DEF Breadth, Working
<1>6. CASE Pop
  <2>1. /\ current' = queue[1] /\ 1 \in DOMAIN queue
        /\ \A i \in DOMAIN queue' :
             i + 1 \in DOMAIN queue /\ queue'[i] = queue[i + 1]
        /\ DOMAIN queue' \subseteq Nat \ {0}
    BY <1>6, HeadAndTail DEF Pop, TypeOK
  <2>2. UNCHANGED <<linkDepth, fate, missed>>
    BY <1>6 DEF Pop, historyVars
  <2>3. \A i, j \in DOMAIN queue' : i < j => queue'[i].depth <= queue'[j].depth
    BY <1>1, <2>1 DEF Breadth
  <2>4. \A i \in DOMAIN queue' : current'.depth <= queue'[i].depth
    BY <1>1, <2>1 DEF Breadth
  <2> QED
    BY <1>1, <2>1, <2>2, <2>3, <2>4 DEF Breadth
<1>7. CASE FetchPage
  <2>1. /\ current.depth \in 1 .. MaxDepth
        /\ linkDepth' = current.depth + 1 /\ linkDepth \in 1 .. MaxDepth + 1
        /\ UNCHANGED <<queue, fate, missed>> /\ ~Working' /\ Working
    BY <1>7 DEF FetchPage, Request, Frontier, Working, Entry, TypeOK,
       frontierVars
  <2>2. \A i \in DOMAIN queue : queue[i].depth \in {current.depth, current.depth + 1}
    BY <1>1, <2>1 DEF Breadth
  <2>3. linkDepth' >= linkDepth
    BY <1>1, <2>1 DEF Breadth
  <2> QED
    BY <1>1, <2>1, <2>2, <2>3 DEF Breadth
<1>8. CASE ReadRobots
  BY <1>2, <1>8 DEF ReadRobots, frontierVars, historyVars, Working
<1>9. CASE Leave \/ RobotsDisallow \/ UNCHANGED vars
  BY <1>2, <1>9 DEF Leave, NothingLeft, TimeUp, PagesSpent,
     RobotsUnavailable, RobotsUndecodable, LimitReached, RobotsDisallow, Finish, loopVars,
     frontierVars, historyVars, vars, Working
<1>10. CASE FetchFails \/ PageUndecodable \/ NotFollowable
  BY <1>2, <1>10 DEF FetchFails, PageUndecodable, Request, NotFollowable, Consider,
     frontierVars, Working
<1> QED
  BY <1>3, <1>4, <1>5, <1>6, <1>7, <1>8, <1>9, <1>10 DEF Next, Leave

\* A URL that was queued and need not be requested any more: it has been, or
\* robots.txt disallows it.
Settled(u) == u \in requested \/ (robots = "rules" /\ u \in Disallowed)

\* Nothing queued is lost.
LEMMA AccountsKept ==
  ASSUME CrawlInv, [Next]_vars
  PROVE  Accounts'
<1> USE CrawlerAssumption
<1> TypeOK /\ Frontier /\ Phases /\ Accounts
  BY DEF CrawlInv
<1>1. ASSUME UNCHANGED <<seen, fate, queue>>,
             "beyond-depth" \in skipped' <=> "beyond-depth" \in skipped,
             ~Over' => ~Over,
             ~Over' => \A u \in Url : Settled(u) => Settled(u)',
             \A u \in Url : ~Over' /\ Working /\ current.url = u =>
               Settled(u)' \/ (Working' /\ current' = current)
      PROVE  Accounts'
  BY <1>1 DEF Accounts, Settled, TypeOK
<1>2. CASE \/ NotFollowable \/ \E u \in Url : SeenBefore(u)
  <2>1. /\ UNCHANGED <<seen, fate, queue, pc, robots, requested, current>>
        /\ "beyond-depth" \in skipped' <=> "beyond-depth" \in skipped
    BY <1>2 DEF NotFollowable, SeenBefore, Consider, frontierVars
  <2> QED
    BY <1>1, <2>1 DEF Settled, Working, Over
<1>3. ASSUME NEW u \in Url, SkipUrl(u)
      PROVE  Accounts'
  <2>1. /\ u \notin seen /\ seen' = seen \cup {u} /\ u # Home
        /\ fate' = [fate EXCEPT ![u] = Fate(u)] /\ Fate(u) # "queued"
        /\ skipped' = skipped \cup {Fate(u)}
        /\ UNCHANGED <<pc, queue, robots, requested, current>>
    BY <1>3 DEF SkipUrl, Consider, TypeOK
  <2>2. fate[u] = "new" /\ \A v \in Url : fate'[v] = IF v = u THEN Fate(u) ELSE fate[v]
    BY <2>1 DEF Accounts, TypeOK
  <2>3. "beyond-depth" \in skipped' <=> \E v \in Url : fate'[v] = "beyond-depth"
    BY <2>1, <2>2 DEF Accounts
  <2> QED
    BY <2>1, <2>2, <2>3 DEF Accounts, Working, Over
<1>4. ASSUME NEW u \in Url, QueueUrl(u)
      PROVE  Accounts'
  <2> DEFINE x == [url |-> u, depth |-> linkDepth]
             n == Len(queue) + 1
  <2>1. /\ u \notin seen /\ seen' = seen \cup {u} /\ u # Home
        /\ fate' = [fate EXCEPT ![u] = "queued"]
        /\ UNCHANGED <<pc, skipped, robots, requested, current>>
    BY <1>4 DEF QueueUrl, Consider, TypeOK
  <2>2. fate[u] = "new" /\ \A v \in Url : fate'[v] = IF v = u THEN "queued" ELSE fate[v]
    BY <2>1 DEF Accounts, TypeOK
  <2>3. x \in Entry
    BY <1>4, QueuedWithinLimits DEF Entry, TypeOK, QueueUrl
  <2>4. /\ DOMAIN queue' = DOMAIN queue \cup {n}
        /\ \A i \in DOMAIN queue : queue'[i] = queue[i]
        /\ queue'[n].url = u
    <3>1. queue' = Append(queue, x) /\ queue \in Seq(Entry)
      BY <1>4 DEF TypeOK, QueueUrl
    <3>2. /\ DOMAIN Append(queue, x) = DOMAIN queue \cup {n}
          /\ \A i \in DOMAIN queue : Append(queue, x)[i] = queue[i]
          /\ Append(queue, x)[n] = x
      BY <2>3, <3>1, Appended
    <3> QED
      BY <3>1, <3>2
  <2>5. "beyond-depth" \in skipped' <=> \E v \in Url : fate'[v] = "beyond-depth"
    BY <2>1, <2>2 DEF Accounts
  <2>6. ASSUME NEW v \in Url, fate'[v] = "queued", ~Over
        PROVE  \/ v \in requested
               \/ robots = "rules" /\ v \in Disallowed
               \/ \E i \in DOMAIN queue' : queue'[i].url = v
               \/ Working /\ current.url = v
    <3>1. CASE v = u
      BY <2>4, <3>1
    <3>2. CASE v # u
      BY <2>2, <2>4, <2>6, <3>2 DEF Accounts
    <3> QED
      BY <3>1, <3>2
  <2> QED
    BY <2>1, <2>2, <2>5, <2>6 DEF Accounts, Working, Over
<1>5. CASE Leave
  BY <1>1, <1>5 DEF Leave, NothingLeft, TimeUp, PagesSpent,
     RobotsUnavailable, RobotsUndecodable, LimitReached, AtLoop, Over, Finish,
     loopVars, frontierVars, historyVars
<1>6. CASE Pop
  <2>1. /\ queue[1] = current' /\ 1 \in DOMAIN queue /\ DOMAIN queue \subseteq Nat
        /\ \A i \in DOMAIN queue : i # 1 =>
             i - 1 \in DOMAIN queue' /\ queue'[i - 1] = queue[i]
    BY <1>6, HeadAndTail DEF Pop, TypeOK
  <2>2. /\ UNCHANGED <<seen, fate, skipped, robots, requested>>
        /\ pc = "loop" /\ Working'
    BY <1>6 DEF Pop, AtLoop, historyVars, Working, Over
  <2>3. ASSUME NEW v \in Url, NEW i \in DOMAIN queue, queue[i].url = v
        PROVE  \/ current'.url = v
               \/ \E j \in DOMAIN queue' : queue'[j].url = v
    BY <2>1, <2>3
  <2> QED
    BY <2>2, <2>3 DEF Accounts, Working, Over
<1>7. CASE ReadRobots
  <2>1. \A u \in Url : Settled(u) => Settled(u)'
    BY <1>7 DEF ReadRobots, Settled, historyVars, Phases
  <2> QED
    BY <1>1, <1>7, <2>1 DEF ReadRobots, Working, Over, frontierVars, historyVars
<1>8. CASE RobotsDisallow
  BY <1>1, <1>8 DEF RobotsDisallow, MayFetch, Settled, Over, frontierVars,
     historyVars
<1>9. CASE FetchFails \/ FetchPage \/ PageUndecodable
  <2>1. /\ Request("loop") \/ Request("broken")
        /\ "beyond-depth" \in skipped' <=> "beyond-depth" \in skipped
    BY <1>9 DEF FetchFails, FetchPage, PageUndecodable
  <2> QED
    BY <1>1, <2>1 DEF Request, Settled, Over, frontierVars
<1>10. CASE UNCHANGED vars
  BY <1>1, <1>10 DEF Settled, Working, Over, vars, frontierVars, historyVars
<1> QED
  BY <1>2, <1>3, <1>4, <1>5, <1>6, <1>7, <1>8, <1>9, <1>10 DEF Next, Leave

\* The reason is found true when the loop is left, and nothing happens after.
LEMMA ReasonKept ==
  ASSUME CrawlInv, [Next]_vars
  PROVE  ReasonTruthful'
<1> USE CrawlerAssumption
<1> TypeOK /\ Phases /\ Accounts /\ ReasonTruthful
  BY DEF CrawlInv
<1>1. CASE NothingLeft
  <2>1. /\ ~Over /\ DOMAIN queue = {} /\ ~Working
        /\ UNCHANGED <<fate, requested, robots, skipped>>
        /\ stopped' = IF "beyond-depth" \in skipped THEN "max-depth" ELSE "complete"
    BY <1>1 DEF NothingLeft, AtLoop, Finish, loopVars, historyVars, Working,
       Over
  <2> QED
    BY <2>1 DEF ReasonTruthful, Accounts
<1>2. CASE PagesSpent
  <2>1. /\ pages + 1 = MaxPages /\ UNCHANGED <<pages, queue>>
        /\ stopped' = "max-pages" /\ queue # <<>>
    BY <1>2 DEF PagesSpent, PagesVisited, Finish, loopVars, frontierVars, TypeOK
  <2>2. 1 \in DOMAIN queue
    BY <2>1, HeadAndTail DEF TypeOK
  <2>3. queue[1].url \in Queued
    BY <2>2 DEF Queued
  <2> QED
    BY <2>1, <2>3 DEF ReasonTruthful, PagesVisited, Queued
<1>3. CASE TimeUp \/ RobotsUnavailable \/ LimitReached
  BY <1>3 DEF TimeUp, RobotsUnavailable, RobotsUndecodable, LimitReached, Finish, ReasonTruthful
<1>4. CASE UNCHANGED vars
  BY <1>4 DEF vars, frontierVars, historyVars, ReasonTruthful, Queued,
     PagesVisited
<1>5. ASSUME pc' # "done"
      PROVE  ReasonTruthful'
  BY <1>5 DEF ReasonTruthful
<1>6. CASE \/ NotFollowable
           \/ \E u \in Url : SeenBefore(u) \/ SkipUrl(u) \/ QueueUrl(u)
  BY <1>5, <1>6 DEF NotFollowable, SeenBefore, SkipUrl, QueueUrl, Consider,
     Phases
<1>7. CASE \/ Pop \/ ReadRobots \/ RobotsUndecodable \/ RobotsDisallow
           \/ FetchFails \/ FetchPage \/ PageUndecodable
  BY <1>5, <1>7 DEF Pop, ReadRobots, RobotsUndecodable, RobotsDisallow, FetchFails,
     FetchPage, PageUndecodable, Request
<1> QED
  BY <1>1, <1>2, <1>3, <1>4, <1>6, <1>7 DEF Next

(***************************************************************************)
(* The theorems.                                                           *)
(***************************************************************************)
LEMMA CrawlStarts ==
  ASSUME Init
  PROVE  CrawlInv
<1> USE CrawlerAssumption DEF Init
<1>1. TypeOK
  <2>1. queue \in Seq(Entry) /\ todo \subseteq Link /\ stopped \in Reason
    BY DEF Reason
  <2>2. /\ variants \in [Path -> 0 .. MaxQueryVariants]
        /\ fate \in [Url -> Skip \cup {"queued", "new"}]
    OBVIOUS
  <2>3. /\ discovered \in 0 .. MaxDiscovered /\ pages \in 0 .. MaxPages - 1
        /\ linkDepth \in 1 .. MaxDepth + 1
    OBVIOUS
  <2>4. /\ seen \subseteq Url /\ Home \in seen
        /\ skipped \subseteq Skip /\ requested \subseteq Url /\ missed \subseteq Url
        /\ robots \in {"unread", "none", "rules"}
        /\ pc \in {"loop", "robots", "fetch", "done", "broken"}
        /\ current \in Entry \cup {None}
        /\ again \in BOOLEAN /\ redirected \in BOOLEAN
    OBVIOUS
  <2> HIDE DEF Init
  <2> QED
    BY <2>1, <2>2, <2>3, <2>4 DEF TypeOK
<1>2. Frontier /\ Phases /\ Breadth /\ Accounts /\ ReasonTruthful
  BY DEF Frontier, Phases, Breadth, Accounts, ReasonTruthful, Working, Over
<1> QED
  BY <1>1, <1>2 DEF CrawlInv

LEMMA CrawlInvariant == Spec => []CrawlInv
<1>1. CrawlInv /\ [Next]_vars => CrawlInv'
  BY TypesKept, FrontierKept, PhasesKept, BreadthKept, AccountsKept, ReasonKept
  DEF CrawlInv
<1> QED
  BY <1>1, CrawlStarts, PTL DEF Spec

\* Every variable of the crawl has its type: in particular the queue holds
\* nothing beyond the depth limit, no path has too many queries, and the
\* limits of pages and of URLs are kept (crawl.py:139-153, 166).
THEOREM CrawlTypeCorrect == Spec => []TypeOK
<1>1. CrawlInv => TypeOK
  BY DEF CrawlInv
<1> QED
  BY <1>1, CrawlInvariant, PTL

\* No URL is asked for twice, on any site (crawl.py:133-135).
THEOREM NothingTwice == Spec => []EachOnce
<1>1. CrawlInv => EachOnce
  BY DEF CrawlInv, Frontier, EachOnce
<1> QED
  BY <1>1, CrawlInvariant, PTL

\* Nothing is asked for that origin, exclusions or robots.txt rule out
\* (crawl.py:136-144, 171-180).
THEOREM OnlyAllowed == Spec => []RequestsAllowed
<1>1. CrawlInv => RequestsAllowed
  BY DEF CrawlInv, Frontier, Phases, RequestsAllowed
<1> QED
  BY <1>1, CrawlInvariant, PTL

\* The reason a crawl gives for stopping is true (crawl.py:161-168, 214-215).
THEOREM ReasonAlwaysTruthful == Spec => []ReasonTruthful
<1>1. CrawlInv => ReasonTruthful
  BY DEF CrawlInv
<1> QED
  BY <1>1, CrawlInvariant, PTL

\* Without redirects, a page within the depth limit is never dropped because
\* it was met deeper down first (crawl.py:133-141, 169).
THEOREM DepthAlwaysInOrder == Spec => []DepthInOrder
<1>1. CrawlInv => DepthInOrder
  BY DEF CrawlInv, Breadth, DepthInOrder
<1> QED
  BY <1>1, CrawlInvariant, PTL

=============================================================================

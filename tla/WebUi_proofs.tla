---------------------------- MODULE WebUi_proofs ----------------------------
(***************************************************************************)
(* Proofs about WebUi, for every number of tabs, threads, targets, calls   *)
(* and starts, and however many reports are kept.                          *)
(***************************************************************************)
EXTENDS WebUi, SequenceTheorems, WellFoundedInduction, TLAPS

Place == Target \cup {None, "blank", "foreign"}

Phase == {"free", "received", "scanning", "scanned", "answered"}

\* What the proofs need of the types: which fields there are, numbers and places.
Shape ==
  /\ up \in BOOLEAN /\ starts \in Nat /\ MaxStarts >= starts
  /\ DOMAIN thread = Thread
  /\ \A i \in Thread :
       /\ DOMAIN thread[i] = {"phase", "request", "wanted", "answer"}
       /\ thread[i].phase \in Phase
       /\ thread[i].phase # "free" => thread[i].request.target \in Place
  /\ DOMAIN page = Tab
  /\ \A t \in Tab :
       /\ DOMAIN page[t] = {"state", "invited", "start", "shown", "link", "sent"}
       /\ page[t].start \in 0 .. starts

\* The lock is the scanning thread's, and nothing runs in a server that is down.
Slot ==
  /\ lock \in Thread \cup {None}
  /\ up => \A i \in Thread : thread[i].phase = "scanning" <=> lock = i
  /\ ~up => \A i \in Thread : thread[i] = FreeThread

\* A thread that got as far as the scan has shown the token.
Entitled ==
  \A i \in Thread : thread[i].phase \in {"scanning", "scanned"} =>
    /\ thread[i].request.kind = "scan"
    /\ token # None => token \in {thread[i].request.header, thread[i].request.cookie}

\* The cookie belongs to the pages of this start that are open.
CookieFits ==
  \A t \in Tab : (up /\ page[t].start = starts) =>
    /\ page[t].invited => page[t].state # "refused"
    /\ page[t].state = "open" => token = None \/ cookie = token

\* What a tab waits for is a scan it sent with the cookie of its time.
Waiting ==
  \A t \in Tab, i \in Thread : page[t].sent = i =>
    LET r == thread[i].request
    IN  /\ thread[i].phase # "free" /\ r.kind = "scan" /\ r.host /\ r.origin
        /\ r.header = None /\ r.query = None
        /\ page[t].start = starts => token = None \/ r.cookie = token
        /\ (thread[i].phase = "answered" /\ page[t].start = starts)
              => thread[i].answer.status # 403

\* A report that was stored, by its id and what it is about.
Stored(w) == w.id \in 1 .. Len(issued) /\ issued[w.id].target = w.target

\* What is shown or waited for was stored, and links lead to what is shown.
ShownStored ==
  \A t \in Tab :
    /\ page[t].shown # None => Stored(page[t].shown)
    /\ page[t].link # None => page[t].shown # None /\ page[t].link = page[t].shown.id
    /\ (page[t].shown # None /\ page[t].sent = None) => page[t].link # None

WantedStored ==
  \A i \in Thread :
    /\ thread[i].wanted # None => Stored(thread[i].wanted)
    /\ (thread[i].phase = "answered" /\ thread[i].request.kind = "scan"
        /\ thread[i].answer.status = 200) => thread[i].wanted # None
    /\ (thread[i].phase # "free" /\ thread[i].request.kind = "report"
        /\ thread[i].wanted # None) =>
         /\ thread[i].request.id = thread[i].wanted.id
         /\ thread[i].request.path /\ thread[i].request.query = None

\* The table holds the latest reports without a gap, and all of this start while
\* it has room.
Table ==
  /\ issued \in Seq([start : Nat, target : Place])
  /\ \A id \in 1 .. Len(issued) : issued[id].start <= starts
  /\ reports \in Seq(Nat)
  /\ Len(reports) <= MaxStored /\ Len(reports) <= Len(issued)
  /\ \A k \in 1 .. Len(reports) : reports[k] = Len(issued) - Len(reports) + k
  /\ Len(reports) < MaxStored =>
       \A id \in 1 .. Len(issued) :
         issued[id].start = starts => id > Len(issued) - Len(reports)

\* Only other programs send credentials, and they are told.
Told ==
  \A i \in Thread :
    LET r == thread[i].request
    IN  /\ thread[i].phase = "free" => r = None
        /\ (thread[i].phase # "free" /\ r.kind = "scan" /\ HasCredential(r)) =>
             /\ r \in Calls /\ thread[i].phase \in {"received", "answered"}
             /\ thread[i].phase = "answered" =>
                  \/ thread[i].answer.code = "credential_not_accepted"
                  \/ thread[i].answer = ScanRefusal(loopback, token, Harmless(r))

WebInv ==
  /\ Shape /\ Slot /\ Entitled /\ CookieFits /\ Waiting /\ ShownStored /\ WantedStored /\ Table
  /\ DownloadTruthful /\ Told

(* What the checks answer *)

\* A set of positions in the list of checks has a least one.
LEMMA LeastCheck ==
  ASSUME NEW S \in SUBSET Nat, S # {}
  PROVE  Min(S) \in S /\ \A k \in S : Min(S) <= k
<1> DEFINE R == OpToRel(<, Nat)
<1>1. IsWellFoundedOn(R, Nat)
  BY NatLessThanWellFounded
<1>2. \A x, y \in Nat : y < x => <<y, x>> \in R
  BY DEF OpToRel
<1> HIDE DEF R
<1>3. PICK x \in S : \A y \in S : ~ <<y, x>> \in R
  BY <1>1, WFMin
<1>4. ASSUME NEW y \in S
      PROVE  x <= y
  <2>1. x \in Nat /\ y \in Nat
    OBVIOUS
  <2>2. ~(y < x)
    BY <1>2, <1>3, <2>1
  <2> QED
    BY <2>1, <2>2
<1> QED
  BY <1>4 DEF Min

\* The answer of a list of checks is that of the first that refuses.
LEMMA FirstRefuses ==
  ASSUME NEW checks, DOMAIN checks \subseteq Nat
  PROVE  \/ FirstOf(checks) = None /\ \A k \in DOMAIN checks : ~checks[k][1]
         \/ \E k \in DOMAIN checks :
              /\ checks[k][1] /\ FirstOf(checks) = checks[k][2]
              /\ \A j \in DOMAIN checks : checks[j][1] => k <= j
<1> DEFINE hits == {k \in DOMAIN checks : checks[k][1]}
<1>1. CASE hits = {}
  BY <1>1 DEF FirstOf
<1>2. CASE hits # {}
  <2>1. Min(hits) \in hits /\ \A k \in hits : Min(hits) <= k
    BY <1>2, LeastCheck
  <2>2. FirstOf(checks) = checks[Min(hits)][2]
    BY <1>2 DEF FirstOf
  <2> QED
    BY <2>1, <2>2
<1> QED
  BY <1>1, <1>2

\* A credential or a field nobody knows is refused with 400.
LEMMA RejectedIsBadRequest ==
  ASSUME NEW r
  PROVE  RejectedField(r) # None => RejectedField(r).status = 400
BY DEF RejectedField, Refused

\* A request with the token, from the page's own origin, is not forbidden, no
\* refusal is a success, and one that is not refused has shown the token.
LEMMA ScanRefusalSays ==
  ASSUME NEW l, NEW tok, NEW r
  PROVE  LET refusal == ScanRefusal(l, tok, r)
         IN  /\ refusal = None => TokenAllowed(tok, r) /\ r.query = None
             /\ refusal # None =>
                  /\ refusal.status # 200
                  /\ r.host /\ r.origin /\ TokenAllowed(tok, r) => refusal.status # 403
<1> DEFINE checks ==
      << <<r.length = "bad", Answer(400)>>,
         <<r.length = "over", Answer(413)>>,
         <<~r.path \/ r.query # None, Answer(404)>>,
         <<~HostAllowed(l, r) \/ ~r.origin, Answer(403)>>,
         <<~TokenAllowed(tok, r), Answer(403)>>,
         <<~r.type, Answer(415)>>,
         <<r.body # "object", Answer(400)>>,
         <<RejectedField(r) # None, RejectedField(r)>>,
         <<~r.authorized, Answer(400)>>,
         <<r.target \in {"blank", "foreign"}, Answer(400)>>,
         <<r.checks \in {"shape", "unknown"}, Answer(400)>>,
         <<r.crawl = "other", Answer(400)>> >>
<1>1. ScanRefusal(l, tok, r) = FirstOf(checks)
  BY DEF ScanRefusal
<1>2. DOMAIN checks = 1 .. 12
  OBVIOUS
<1>3. /\ checks[3] = <<~r.path \/ r.query # None, Answer(404)>>
      /\ checks[4] = <<~HostAllowed(l, r) \/ ~r.origin, Answer(403)>>
      /\ checks[5] = <<~TokenAllowed(tok, r), Answer(403)>>
      /\ checks[8] = <<RejectedField(r) # None, RejectedField(r)>>
  OBVIOUS
<1>4. \A k \in 1 .. 12 : k # 8 =>
        checks[k][2] \in {Answer(400), Answer(403), Answer(404), Answer(413), Answer(415)}
  OBVIOUS
<1>5. \A k \in 1 .. 12 : checks[k][2] = Answer(403) => k \in {4, 5, 8}
  BY DEF Answer
<1>6. checks[3][1] <=> ~r.path \/ r.query # None
  BY <1>3
<1>7. checks[5][1] <=> ~TokenAllowed(tok, r)
  BY <1>3
<1>11. checks[4][1] <=> ~HostAllowed(l, r) \/ ~r.origin
  BY <1>3
<1>8. checks[8] = <<RejectedField(r) # None, RejectedField(r)>>
  BY <1>3
<1> HIDE DEF checks
<1>9. CASE FirstOf(checks) = None /\ \A k \in DOMAIN checks : ~checks[k][1]
  BY <1>1, <1>2, <1>6, <1>7, <1>9
<1>10. ASSUME NEW k \in 1 .. 12, checks[k][1], FirstOf(checks) = checks[k][2],
              \A j \in DOMAIN checks : checks[j][1] => k <= j
       PROVE  LET refusal == FirstOf(checks)
              IN  /\ refusal = None => TokenAllowed(tok, r) /\ r.query = None
                  /\ refusal # None =>
                       /\ refusal.status # 200
                       /\ r.host /\ r.origin /\ TokenAllowed(tok, r) => refusal.status # 403
  <2>1. CASE k = 8
    <3>1. ~checks[3][1] /\ ~checks[5][1]
      BY <1>2, <1>10, <2>1
    <3>2. FirstOf(checks) = RejectedField(r)
      BY <1>8, <1>10, <2>1
    <3> QED
      BY <1>6, <1>7, <3>1, <3>2, RejectedIsBadRequest
  <2>2. CASE k # 8
    <3>1. FirstOf(checks) \in {Answer(400), Answer(403), Answer(404), Answer(413), Answer(415)}
      BY <1>4, <1>10, <2>2
    <3>2. FirstOf(checks) # None /\ FirstOf(checks).status # 200
      BY <3>1, NoneAssumption DEF Answer
    <3>3. FirstOf(checks).status = 403 => k \in {4, 5}
      BY <1>5, <1>10, <2>2, <3>1 DEF Answer
    <3>4. checks[4][1] <=> ~HostAllowed(l, r) \/ ~r.origin
      BY <1>11
    <3> QED
      BY <1>7, <1>10, <3>2, <3>3, <3>4 DEF HostAllowed
  <2> QED
    BY <2>1, <2>2
<1> QED
  BY <1>1, <1>2, <1>9, <1>10, FirstRefuses

(* The steps *)

\* Whoever calls, the request has a target.
LEMMA RequestsArePlaced ==
  /\ \A kind, c, target : [PageRequest(kind, c) EXCEPT !.target = target].target = target
  /\ \A kind, c, id : [PageRequest(kind, c) EXCEPT !.id = id].target = None
  /\ \A request \in Calls : request.target \in Place
BY WebAssumption DEF PageRequest, Place

\* Every step keeps the shape.
LEMMA ShapeStep ==
  ASSUME WebInv, Next
  PROVE  Shape'
<1>1. ASSUME NEW onLoopback \in BOOLEAN, NEW allowRemote \in BOOLEAN,
             NEW given \in BOOLEAN, Main(onLoopback, allowRemote, given)
      PROVE  Shape'
  BY <1>1, WebAssumption DEF Main, Shape, WebInv, server, Phase, Place
<1>2. CASE Stop
  BY <1>2 DEF Stop, FreeThread, Shape, WebInv, server, Phase, Place
<1>3. ASSUME NEW t \in Tab, NEW query \in Tokens \cup {None}, OpenPage(t, query)
      PROVE  Shape'
  BY <1>3 DEF OpenPage, Blank, Shape, WebInv, server, Phase, Place
<1>4. ASSUME NEW t \in Tab, ConnectionLost(t)
      PROVE  Shape'
  BY <1>4 DEF ConnectionLost, Shape, WebInv, server, Phase, Place
<1>5. ASSUME NEW t \in Tab, NEW i \in Thread, NEW target \in Target \cup {"foreign"},
             Submit(t, i, target)
      PROVE  Shape'
  <2> USE DEF Shape, WebInv, server, Phase, Place
  <2>1. CASE up
    <3>1. DOMAIN page' = Tab
          /\ \A s \in Tab : DOMAIN page'[s] = DOMAIN page[s] /\ page'[s].start = page[s].start
      BY <1>5, <2>1 DEF Submit, Busy
    <3>2. thread'[i].request.target = target
      BY <1>5, <2>1 DEF Submit, Receive, PageRequest
    <3> QED
      BY <1>5, <2>1, <3>1, <3>2 DEF Submit, Receive
  <2>2. CASE ~up
    <3>1. DOMAIN page' = Tab
          /\ \A s \in Tab : DOMAIN page'[s] = DOMAIN page[s] /\ page'[s].start = page[s].start
      BY <1>5, <2>2 DEF Submit, Busy
    <3> QED
      BY <1>5, <2>2, <3>1 DEF Submit
  <2> QED
    BY <2>1, <2>2
<1>6. ASSUME NEW t \in Tab, NEW i \in Thread, Click(t, i)
      PROVE  Shape'
  BY <1>6, RequestsArePlaced DEF Click, Receive, Place, Shape, WebInv, server, Phase
<1>7. ASSUME NEW i \in Thread, NEW request \in Calls, Call(i, request)
      PROVE  Shape'
  BY <1>7, RequestsArePlaced DEF Call, Receive, Shape, WebInv, server, Phase, Place
<1>8. ASSUME NEW i \in Thread, Judge(i)
      PROVE  Shape'
  BY <1>8 DEF Judge, Ends, Shape, WebInv, server, Phase, Place
<1>9. ASSUME NEW i \in Thread, ScanEnds(i)
      PROVE  Shape'
  BY <1>9 DEF ScanEnds, Ends, Shape, WebInv, server, Phase, Place
<1>10. ASSUME NEW i \in Thread, ScanFails(i)
      PROVE  Shape'
  BY <1>10 DEF ScanFails, Ends, Shape, WebInv, server, Phase, Place
<1>11. ASSUME NEW i \in Thread, StoreReport(i)
      PROVE  Shape'
  BY <1>11 DEF StoreReport, Shape, WebInv, server, Phase, Place
<1>12. ASSUME NEW i \in Thread, ReadReport(i)
      PROVE  Shape'
  BY <1>12 DEF ReadReport, Ends, Shape, WebInv, server, Phase, Place
<1>13. ASSUME NEW i \in Thread, Reply(i)
      PROVE  Shape'
  <2> USE DEF Shape, WebInv, server, Phase, Place
  <2>1. \A t \in Tab : DOMAIN Rendered(page[t], thread[i]) = DOMAIN page[t]
                      /\ Rendered(page[t], thread[i]).start = page[t].start
    BY DEF Rendered
  <2>2. DOMAIN page' = Tab
        /\ \A t \in Tab : DOMAIN page'[t] = DOMAIN page[t] /\ page'[t].start = page[t].start
    BY <1>13, <2>1 DEF Reply
  <2> QED
    BY <1>13, <2>2 DEF Reply, FreeThread
<1> QED
  BY <1>1, <1>2, <1>3, <1>4, <1>5, <1>6, <1>7, <1>8, <1>9, <1>10, <1>11, <1>12, <1>13,
     WebAssumption DEF Next, Serve

\* The lock is taken by the thread that scans and left by it.
LEMMA SlotStep ==
  ASSUME WebInv, Next
  PROVE  Slot'
<1>1. ASSUME NEW onLoopback \in BOOLEAN, NEW allowRemote \in BOOLEAN,
             NEW given \in BOOLEAN, Main(onLoopback, allowRemote, given)
      PROVE  Slot'
  BY <1>1, WebAssumption DEF Main, FreeThread, Shape, Slot, WebInv, server
<1>2. CASE Stop
  BY <1>2, WebAssumption DEF Stop, FreeThread, Shape, Slot, WebInv, server
<1>3. ASSUME NEW t \in Tab, NEW query \in Tokens \cup {None}, OpenPage(t, query)
      PROVE  Slot'
  BY <1>3, WebAssumption DEF OpenPage, Shape, Slot, WebInv, server
<1>4. ASSUME NEW t \in Tab, ConnectionLost(t)
      PROVE  Slot'
  BY <1>4, WebAssumption DEF ConnectionLost, Shape, Slot, WebInv, server
<1>5. ASSUME NEW t \in Tab, NEW i \in Thread, NEW target \in Target \cup {"foreign"},
             Submit(t, i, target)
      PROVE  Slot'
  BY <1>5, WebAssumption DEF Submit, Receive, FreeThread, Shape, Slot, WebInv, server
<1>6. ASSUME NEW t \in Tab, NEW i \in Thread, Click(t, i)
      PROVE  Slot'
  BY <1>6, WebAssumption DEF Click, Receive, FreeThread, Shape, Slot, WebInv, server
<1>7. ASSUME NEW i \in Thread, NEW request \in Calls, Call(i, request)
      PROVE  Slot'
  BY <1>7, WebAssumption DEF Call, Receive, FreeThread, Shape, Slot, WebInv, server
<1>8. ASSUME NEW i \in Thread, Judge(i)
      PROVE  Slot'
  BY <1>8, WebAssumption DEF Judge, Ends, FreeThread, Shape, Slot, WebInv, server
<1>9. ASSUME NEW i \in Thread, ScanEnds(i)
      PROVE  Slot'
  BY <1>9, WebAssumption DEF ScanEnds, Ends, FreeThread, Shape, Slot, WebInv, server
<1>10. ASSUME NEW i \in Thread, ScanFails(i)
      PROVE  Slot'
  BY <1>10, WebAssumption DEF ScanFails, Ends, FreeThread, Shape, Slot, WebInv, server
<1>11. ASSUME NEW i \in Thread, StoreReport(i)
      PROVE  Slot'
  BY <1>11, WebAssumption DEF StoreReport, FreeThread, Shape, Slot, WebInv, server
<1>12. ASSUME NEW i \in Thread, ReadReport(i)
      PROVE  Slot'
  BY <1>12, WebAssumption DEF ReadReport, Ends, FreeThread, Shape, Slot, WebInv, server
<1>13. ASSUME NEW i \in Thread, Reply(i)
      PROVE  Slot'
  BY <1>13, WebAssumption DEF Reply, FreeThread, Shape, Slot, WebInv, server
<1> QED
  BY <1>1, <1>2, <1>3, <1>4, <1>5, <1>6, <1>7, <1>8, <1>9, <1>10, <1>11, <1>12, <1>13,
     WebAssumption DEF Next, Serve

\* Only a request that shows the token gets to the scan.
LEMMA EntitledStep ==
  ASSUME WebInv, Next
  PROVE  Entitled'
<1>1. ASSUME NEW onLoopback \in BOOLEAN, NEW allowRemote \in BOOLEAN,
             NEW given \in BOOLEAN, Main(onLoopback, allowRemote, given)
      PROVE  Entitled'
  BY <1>1, WebAssumption DEF Main, FreeThread, Shape, Slot, Entitled, WebInv, server
<1>2. CASE Stop
  BY <1>2, WebAssumption DEF Stop, FreeThread, Shape, Slot, Entitled, WebInv, server
<1>3. ASSUME NEW t \in Tab, NEW query \in Tokens \cup {None}, OpenPage(t, query)
      PROVE  Entitled'
  BY <1>3, WebAssumption DEF OpenPage, Shape, Slot, Entitled, WebInv, server
<1>4. ASSUME NEW t \in Tab, ConnectionLost(t)
      PROVE  Entitled'
  BY <1>4, WebAssumption DEF ConnectionLost, Shape, Slot, Entitled, WebInv, server
<1>5. ASSUME NEW t \in Tab, NEW i \in Thread, NEW target \in Target \cup {"foreign"},
             Submit(t, i, target)
      PROVE  Entitled'
  BY <1>5, WebAssumption DEF Submit, Receive, Shape, Slot, Entitled, WebInv, server
<1>6. ASSUME NEW t \in Tab, NEW i \in Thread, Click(t, i)
      PROVE  Entitled'
  BY <1>6, WebAssumption DEF Click, Receive, Shape, Slot, Entitled, WebInv, server
<1>7. ASSUME NEW i \in Thread, NEW request \in Calls, Call(i, request)
      PROVE  Entitled'
  BY <1>7, WebAssumption DEF Call, Receive, Shape, Slot, Entitled, WebInv, server
<1>8. ASSUME NEW i \in Thread, Judge(i)
      PROVE  Entitled'
  <2> USE WebAssumption DEF Shape, Slot, Entitled, WebInv, server
  <2>1. ASSUME ScanRefusal(loopback, token, thread[i].request) = None, token # None
        PROVE  token \in {thread[i].request.header, thread[i].request.cookie}
    BY <2>1, ScanRefusalSays DEF TokenAllowed, Supplied
  <2> QED
    BY <1>8, <2>1 DEF Judge, Ends
<1>9. ASSUME NEW i \in Thread, ScanEnds(i)
      PROVE  Entitled'
  BY <1>9, WebAssumption DEF ScanEnds, Ends, Shape, Slot, Entitled, WebInv, server
<1>10. ASSUME NEW i \in Thread, ScanFails(i)
      PROVE  Entitled'
  BY <1>10, WebAssumption DEF ScanFails, Ends, Shape, Slot, Entitled, WebInv, server
<1>11. ASSUME NEW i \in Thread, StoreReport(i)
      PROVE  Entitled'
  BY <1>11, WebAssumption DEF StoreReport, Shape, Slot, Entitled, WebInv, server
<1>12. ASSUME NEW i \in Thread, ReadReport(i)
      PROVE  Entitled'
  BY <1>12, WebAssumption DEF ReadReport, Ends, Shape, Slot, Entitled, WebInv, server
<1>13. ASSUME NEW i \in Thread, Reply(i)
      PROVE  Entitled'
  BY <1>13, WebAssumption DEF Reply, FreeThread, Shape, Slot, Entitled, WebInv, server
<1> QED
  BY <1>1, <1>2, <1>3, <1>4, <1>5, <1>6, <1>7, <1>8, <1>9, <1>10, <1>11, <1>12, <1>13,
     WebAssumption DEF Next, Serve

\* A page that is opened has the cookie of this start.
LEMMA CookieFitsStep ==
  ASSUME WebInv, Next
  PROVE  CookieFits'
<1>1. ASSUME NEW onLoopback \in BOOLEAN, NEW allowRemote \in BOOLEAN,
             NEW given \in BOOLEAN, Main(onLoopback, allowRemote, given)
      PROVE  CookieFits'
  BY <1>1, WebAssumption DEF Main, Shape, Slot, CookieFits, WebInv, server
<1>2. CASE Stop
  BY <1>2, WebAssumption DEF Stop, Shape, Slot, CookieFits, WebInv, server
<1>3. ASSUME NEW t \in Tab, NEW query \in Tokens \cup {None}, OpenPage(t, query)
      PROVE  CookieFits'
  BY <1>3, WebAssumption DEF OpenPage, Blank, TokenAllowed, Supplied, IssuesCookie,
     PageRequest, Shape, Slot, CookieFits, WebInv, server
<1>4. ASSUME NEW t \in Tab, ConnectionLost(t)
      PROVE  CookieFits'
  BY <1>4, WebAssumption DEF ConnectionLost, Shape, Slot, CookieFits, WebInv, server
<1>5. ASSUME NEW t \in Tab, NEW i \in Thread, NEW target \in Target \cup {"foreign"},
             Submit(t, i, target)
      PROVE  CookieFits'
  BY <1>5, WebAssumption DEF Submit, Busy, Shape, Slot, CookieFits, WebInv, server
<1>6. ASSUME NEW t \in Tab, NEW i \in Thread, Click(t, i)
      PROVE  CookieFits'
  BY <1>6, WebAssumption DEF Click, Shape, Slot, CookieFits, WebInv, server
<1>7. ASSUME NEW i \in Thread, NEW request \in Calls, Call(i, request)
      PROVE  CookieFits'
  BY <1>7, WebAssumption DEF Call, Shape, Slot, CookieFits, WebInv, server
<1>8. ASSUME NEW i \in Thread, Judge(i)
      PROVE  CookieFits'
  BY <1>8, WebAssumption DEF Judge, Shape, Slot, CookieFits, WebInv, server
<1>9. ASSUME NEW i \in Thread, ScanEnds(i)
      PROVE  CookieFits'
  BY <1>9, WebAssumption DEF ScanEnds, Shape, Slot, CookieFits, WebInv, server
<1>10. ASSUME NEW i \in Thread, ScanFails(i)
      PROVE  CookieFits'
  BY <1>10, WebAssumption DEF ScanFails, Shape, Slot, CookieFits, WebInv, server
<1>11. ASSUME NEW i \in Thread, StoreReport(i)
      PROVE  CookieFits'
  BY <1>11, WebAssumption DEF StoreReport, Shape, Slot, CookieFits, WebInv, server
<1>12. ASSUME NEW i \in Thread, ReadReport(i)
      PROVE  CookieFits'
  BY <1>12, WebAssumption DEF ReadReport, Shape, Slot, CookieFits, WebInv, server
<1>13. ASSUME NEW i \in Thread, Reply(i)
      PROVE  CookieFits'
  <2> USE WebAssumption DEF Shape, Slot, CookieFits, WebInv, server
  <2>1. \A t \in Tab : /\ Rendered(page[t], thread[i]).start = page[t].start
                      /\ Rendered(page[t], thread[i]).invited = page[t].invited
                      /\ Rendered(page[t], thread[i]).state = page[t].state
    BY DEF Rendered
  <2> QED
    BY <1>13, <2>1 DEF Reply
<1> QED
  BY <1>1, <1>2, <1>3, <1>4, <1>5, <1>6, <1>7, <1>8, <1>9, <1>10, <1>11, <1>12, <1>13,
     WebAssumption DEF Next, Serve

\* A tab waits for the scan it sent, and its cookie is good while the server runs.
LEMMA WaitingStep ==
  ASSUME WebInv, Next
  PROVE  Waiting'
<1>1. ASSUME NEW onLoopback \in BOOLEAN, NEW allowRemote \in BOOLEAN,
             NEW given \in BOOLEAN, Main(onLoopback, allowRemote, given)
      PROVE  Waiting'
  BY <1>1, WebAssumption DEF Main, FreeThread, Shape, Slot, CookieFits, Waiting, WebInv,
     server
<1>2. CASE Stop
  BY <1>2, WebAssumption DEF Stop, FreeThread, Lost, Shape, Slot, CookieFits, Waiting,
     WebInv, server
<1>3. ASSUME NEW t \in Tab, NEW query \in Tokens \cup {None}, OpenPage(t, query)
      PROVE  Waiting'
  BY <1>3, WebAssumption DEF OpenPage, Blank, Shape, Slot, CookieFits, Waiting, WebInv,
     server
<1>4. ASSUME NEW t \in Tab, ConnectionLost(t)
      PROVE  Waiting'
  BY <1>4, WebAssumption DEF ConnectionLost, Shape, Slot, CookieFits, Waiting, WebInv,
     server
<1>5. ASSUME NEW t \in Tab, NEW i \in Thread, NEW target \in Target \cup {"foreign"},
             Submit(t, i, target)
      PROVE  Waiting'
  BY <1>5, WebAssumption DEF Submit, Receive, Busy, PageRequest, FreeThread, Shape, Slot,
     CookieFits, Waiting, WebInv, server
<1>6. ASSUME NEW t \in Tab, NEW i \in Thread, Click(t, i)
      PROVE  Waiting'
  BY <1>6, WebAssumption DEF Click, Receive, FreeThread, Shape, Slot, CookieFits, Waiting,
     WebInv, server
<1>7. ASSUME NEW i \in Thread, NEW request \in Calls, Call(i, request)
      PROVE  Waiting'
  BY <1>7, WebAssumption DEF Call, Receive, FreeThread, Shape, Slot, CookieFits, Waiting,
     WebInv, server
<1>8. ASSUME NEW i \in Thread, Judge(i)
      PROVE  Waiting'
  <2> USE WebAssumption DEF Shape, Slot, CookieFits, Waiting, WebInv, server
  <2>1. LET r == thread[i].request
            refusal == ScanRefusal(loopback, token, r)
        IN  (r.host /\ r.origin /\ TokenAllowed(token, r) /\ refusal # None)
              => refusal.status # 403
    BY ScanRefusalSays
  <2>2. ASSUME NEW t \in Tab, page[t].sent = i, page[t].start = starts
        PROVE  TokenAllowed(token, thread[i].request)
    BY <1>8, <2>2 DEF TokenAllowed, Supplied
  <2> QED
    BY <1>8, <2>1, <2>2 DEF Judge, Ends, Answer
<1>9. ASSUME NEW i \in Thread, ScanEnds(i)
      PROVE  Waiting'
  BY <1>9, WebAssumption DEF ScanEnds, Ends, Shape, Slot, CookieFits, Waiting, WebInv,
     server
<1>10. ASSUME NEW i \in Thread, ScanFails(i)
      PROVE  Waiting'
  BY <1>10, WebAssumption DEF ScanFails, Ends, Answer, Shape, Slot, CookieFits, Waiting,
     WebInv, server
<1>11. ASSUME NEW i \in Thread, StoreReport(i)
      PROVE  Waiting'
  BY <1>11, WebAssumption DEF StoreReport, Answer, Shape, Slot, CookieFits, Waiting,
     WebInv, server
<1>12. ASSUME NEW i \in Thread, ReadReport(i)
      PROVE  Waiting'
  BY <1>12, WebAssumption DEF ReadReport, Ends, Shape, Slot, CookieFits, Waiting, WebInv,
     server
<1>13. ASSUME NEW i \in Thread, Reply(i)
      PROVE  Waiting'
  <2> USE WebAssumption DEF Shape, Slot, CookieFits, Waiting, WebInv, server
  <2>1. \A t \in Tab : Rendered(page[t], thread[i]).sent = None
                      /\ Rendered(page[t], thread[i]).start = page[t].start
    BY DEF Rendered
  <2> QED
    BY <1>13, <2>1 DEF Reply, FreeThread
<1> QED
  BY <1>1, <1>2, <1>3, <1>4, <1>5, <1>6, <1>7, <1>8, <1>9, <1>10, <1>11, <1>12, <1>13,
     WebAssumption DEF Next, Serve

\* What was stored stays so.
LEMMA StoredStays ==
  ASSUME Table,
         issued' = issued \/ \E r \in [start : Nat, target : Place] : issued' = Append(issued, r)
  PROVE  /\ Len(issued) \in Nat /\ Len(issued') \in Nat /\ Len(issued') >= Len(issued)
         /\ \A id \in 1 .. Len(issued) : issued'[id] = issued[id]
         /\ \A w : Stored(w) => Stored(w)'
<1>1. CASE issued' = issued
  BY <1>1 DEF Table, Stored
<1>2. ASSUME NEW r \in [start : Nat, target : Place], issued' = Append(issued, r)
      PROVE  /\ Len(issued) \in Nat /\ Len(issued') \in Nat /\ Len(issued') >= Len(issued)
             /\ \A id \in 1 .. Len(issued) : issued'[id] = issued[id]
  BY <1>2, AppendProperties DEF Table
<1> QED
  BY <1>1, <1>2 DEF Stored

\* What a page is after an answer.
LEMMA RenderedSays ==
  ASSUME NEW p, DOMAIN p = {"state", "invited", "start", "shown", "link", "sent"}, NEW done
  PROVE  /\ done.answer.status = 200 =>
              Rendered(p, done).shown = done.wanted /\ Rendered(p, done).link = done.wanted.id
         /\ done.answer.status # 200 =>
              /\ Rendered(p, done).shown = p.shown
              /\ Rendered(p, done).link = IF p.shown = None THEN None ELSE p.shown.id
BY DEF Rendered

\* What is shown was stored, and its link stays with it.
LEMMA ShownStoredStep ==
  ASSUME WebInv, Next
  PROVE  ShownStored'
<1>1. ASSUME NEW onLoopback \in BOOLEAN, NEW allowRemote \in BOOLEAN,
             NEW given \in BOOLEAN, Main(onLoopback, allowRemote, given)
      PROVE  ShownStored'
  BY <1>1 DEF Main, Stored, WebInv, ShownStored
<1>2. CASE Stop
  BY <1>2, WebAssumption DEF Stop, Stored, Lost, Shape, WebInv, ShownStored
<1>3. ASSUME NEW t \in Tab, NEW query \in Tokens \cup {None}, OpenPage(t, query)
      PROVE  ShownStored'
  BY <1>3 DEF OpenPage, Stored, Blank, Shape, WebInv, ShownStored
<1>4. ASSUME NEW t \in Tab, ConnectionLost(t)
      PROVE  ShownStored'
  <2> USE DEF WebInv, ShownStored
  <2>1. page[t].shown # None => page[t].shown.id # None
    BY WebAssumption DEF Stored
  <2> QED
    BY <1>4, <2>1 DEF ConnectionLost, Stored, Shape
<1>5. ASSUME NEW t \in Tab, NEW i \in Thread, NEW target \in Target \cup {"foreign"},
             Submit(t, i, target)
      PROVE  ShownStored'
  <2> USE DEF WebInv, ShownStored
  <2>1. issued' = issued /\ i # None
    BY <1>5, WebAssumption DEF Submit
  <2> QED
    BY <1>5, <2>1, WebAssumption DEF Submit, Shape, Stored, Busy, Lost
<1>6. ASSUME NEW t \in Tab, NEW i \in Thread, Click(t, i)
      PROVE  ShownStored'
  BY <1>6 DEF Click, Stored, WebInv, ShownStored
<1>7. ASSUME NEW i \in Thread, NEW request \in Calls, Call(i, request)
      PROVE  ShownStored'
  BY <1>7 DEF Call, Stored, WebInv, ShownStored
<1>8. ASSUME NEW i \in Thread, Judge(i)
      PROVE  ShownStored'
  BY <1>8 DEF Judge, Stored, WebInv, ShownStored
<1>9. ASSUME NEW i \in Thread, ScanEnds(i)
      PROVE  ShownStored'
  BY <1>9 DEF ScanEnds, Stored, WebInv, ShownStored
<1>10. ASSUME NEW i \in Thread, ScanFails(i)
      PROVE  ShownStored'
  BY <1>10 DEF ScanFails, Stored, WebInv, ShownStored
<1>11. ASSUME NEW i \in Thread, StoreReport(i)
      PROVE  ShownStored'
  <2> USE DEF WebInv, ShownStored
  <2>1. thread[i].request.target \in Place /\ starts \in Nat
    BY <1>11 DEF StoreReport, Shape
  <2>2. \E r \in [start : Nat, target : Place] : issued' = Append(issued, r)
    BY <1>11, <2>1 DEF StoreReport
  <2> QED
    BY <1>11, <2>2, StoredStays DEF StoreReport
<1>12. ASSUME NEW i \in Thread, ReadReport(i)
      PROVE  ShownStored'
  BY <1>12 DEF ReadReport, Stored, WebInv, ShownStored
<1>13. ASSUME NEW i \in Thread, Reply(i)
      PROVE  ShownStored'
  <2> USE DEF WebInv, ShownStored
  <2>1. \A t \in Tab : page[t].sent = i => page'[t] = Rendered(page[t], thread[i])
    BY <1>13 DEF Reply
  <2>2. \A t \in Tab : page[t].sent # i => page'[t] = page[t]
    BY <1>13 DEF Reply
  <2>3. ASSUME NEW t \in Tab, page[t].sent = i
        PROVE  /\ page'[t].shown # None => Stored(page'[t].shown)
               /\ page'[t].link # None => page'[t].shown # None /\ page'[t].link = page'[t].shown.id
               /\ (page'[t].shown # None /\ page'[t].sent = None) => page'[t].link # None
    <3>1. thread[i].request.kind = "scan" /\ thread[i].phase = "answered"
      BY <1>13, <2>3 DEF Reply, Waiting
    <3>2. CASE thread[i].answer.status = 200
      <4>1. thread[i].wanted # None /\ Stored(thread[i].wanted)
        BY <3>1, <3>2 DEF WantedStored
      <4>2. thread[i].wanted.id # None
        BY <4>1, WebAssumption DEF Stored
      <4>4. page'[t] = Rendered(page[t], thread[i])
            /\ DOMAIN page[t] = {"state", "invited", "start", "shown", "link", "sent"}
        BY <2>1, <2>3 DEF Shape
      <4> HIDE DEF WebInv, ShownStored
      <4>3. page'[t].shown = thread[i].wanted /\ page'[t].link = thread[i].wanted.id
        BY <4>4, <3>2, RenderedSays
      <4> QED
        BY <4>1, <4>2, <4>3
    <3>3. CASE thread[i].answer.status # 200
      <4>1. page[t].shown # None => page[t].shown.id # None
        BY WebAssumption DEF Stored
      <4>4. page'[t] = Rendered(page[t], thread[i])
            /\ DOMAIN page[t] = {"state", "invited", "start", "shown", "link", "sent"}
        BY <2>1, <2>3 DEF Shape
      <4> HIDE DEF WebInv, ShownStored
      <4>2. /\ page'[t].shown = page[t].shown
            /\ page'[t].link = IF page[t].shown = None THEN None ELSE page[t].shown.id
        BY <4>4, <3>3, RenderedSays
      <4> QED
        BY <4>1, <4>2 DEF WebInv, ShownStored
    <3> QED
      BY <3>2, <3>3
  <2>4. issued' = issued
    BY <1>13 DEF Reply
  <2> QED
    BY <2>2, <2>3, <2>4 DEF Stored
<1> QED
  BY <1>1, <1>2, <1>3, <1>4, <1>5, <1>6, <1>7, <1>8, <1>9, <1>10, <1>11, <1>12, <1>13,
     WebAssumption DEF Next, Serve

\* What a thread is to send was stored.
LEMMA WantedStoredStep ==
  ASSUME WebInv, Next
  PROVE  WantedStored'
<1>1. ASSUME NEW onLoopback \in BOOLEAN, NEW allowRemote \in BOOLEAN,
             NEW given \in BOOLEAN, Main(onLoopback, allowRemote, given)
      PROVE  WantedStored'
  BY <1>1 DEF Main, Stored, WebInv, WantedStored
<1>2. CASE Stop
  BY <1>2 DEF Stop, FreeThread, WebInv, WantedStored
<1>3. ASSUME NEW t \in Tab, NEW query \in Tokens \cup {None}, OpenPage(t, query)
      PROVE  WantedStored'
  BY <1>3 DEF OpenPage, Stored, WebInv, WantedStored
<1>4. ASSUME NEW t \in Tab, ConnectionLost(t)
      PROVE  WantedStored'
  BY <1>4 DEF ConnectionLost, Stored, WebInv, WantedStored
<1>5. ASSUME NEW t \in Tab, NEW i \in Thread, NEW target \in Target \cup {"foreign"},
             Submit(t, i, target)
      PROVE  WantedStored'
  <2> USE DEF WebInv, WantedStored
  <2>1. \A j \in Thread : j # i => thread'[j] = thread[j]
    BY <1>5 DEF Submit, Receive, Shape
  <2>2. thread'[i] = thread[i] \/ (thread'[i].wanted = None /\ thread'[i].phase = "received")
    BY <1>5 DEF Submit, Receive, Shape
  <2>3. issued' = issued
    BY <1>5 DEF Submit
  <2> QED
    BY <2>1, <2>2, <2>3 DEF Stored
<1>6. ASSUME NEW t \in Tab, NEW i \in Thread, Click(t, i)
      PROVE  WantedStored'
  BY <1>6 DEF Click, Receive, PageRequest, Shape, ShownStored, Stored, WebInv, WantedStored
<1>7. ASSUME NEW i \in Thread, NEW request \in Calls, Call(i, request)
      PROVE  WantedStored'
  BY <1>7 DEF Call, Receive, Stored, Shape, WebInv, WantedStored
<1>8. ASSUME NEW i \in Thread, Judge(i)
      PROVE  WantedStored'
  <2> USE DEF WebInv, WantedStored
  <2>1. LET refusal == ScanRefusal(loopback, token, thread[i].request)
        IN  refusal # None => refusal.status # 200
    BY ScanRefusalSays
  <2> QED
    BY <1>8, <2>1 DEF Judge, Ends, Answer, Stored, Shape
<1>9. ASSUME NEW i \in Thread, ScanEnds(i)
      PROVE  WantedStored'
  BY <1>9 DEF ScanEnds, Ends, Stored, Shape, WebInv, WantedStored
<1>10. ASSUME NEW i \in Thread, ScanFails(i)
      PROVE  WantedStored'
  BY <1>10 DEF ScanFails, Ends, Answer, Stored, Shape, WebInv, WantedStored
<1>11. ASSUME NEW i \in Thread, StoreReport(i)
      PROVE  WantedStored'
  <2> USE DEF WebInv, WantedStored
  <2>1. thread[i].request.target \in Place /\ starts \in Nat
    BY <1>11 DEF StoreReport, Shape
  <2> DEFINE rep == [start |-> starts, target |-> thread[i].request.target]
  <2>2. rep \in [start : Nat, target : Place] /\ issued' = Append(issued, rep)
    BY <1>11, <2>1 DEF StoreReport
  <2>3. \A w : Stored(w) => Stored(w)'
    BY <2>2, StoredStays
  <2>4. Len(issued') = Len(issued) + 1 /\ issued'[Len(issued) + 1] = rep /\ Len(issued) \in Nat
    BY <2>2, AppendProperties DEF Table
  <2>5. \A j \in Thread : j # i => thread'[j] = thread[j]
    BY <1>11 DEF StoreReport, Shape
  <2>6. thread'[i].wanted = [id |-> NewId, target |-> thread[i].request.target]
        /\ thread'[i].request = thread[i].request
    BY <1>11 DEF StoreReport, Shape
  <2>7. ASSUME NEW w, w = [id |-> NewId, target |-> thread[i].request.target]
        PROVE  Stored(w)' /\ w # None
    <3>1. w # None
      BY <2>1, <2>4, <2>7, WebAssumption DEF NewId, Place
    <3>2. Stored(w)'
      BY <2>4, <2>7 DEF Stored, NewId
    <3> QED
      BY <3>1, <3>2
  <2>9. thread'[i].request.kind = "scan"
    BY <1>11, <2>6 DEF StoreReport, Entitled
  <2> QED
    BY <2>3, <2>5, <2>6, <2>7, <2>9
<1>12. ASSUME NEW i \in Thread, ReadReport(i)
      PROVE  WantedStored'
  BY <1>12 DEF ReadReport, Ends, Stored, Shape, WebInv, WantedStored
<1>13. ASSUME NEW i \in Thread, Reply(i)
      PROVE  WantedStored'
  BY <1>13 DEF Reply, FreeThread, Stored, Shape, WebInv, WantedStored
<1> QED
  BY <1>1, <1>2, <1>3, <1>4, <1>5, <1>6, <1>7, <1>8, <1>9, <1>10, <1>11, <1>12, <1>13,
     WebAssumption DEF Next, Serve

\* A report more, and one less when the table is full.
LEMMA LatestSays ==
  ASSUME NEW r \in [start : Nat, target : Place]
  PROVE  (/\ Table /\ r.start = starts /\ issued' = Append(issued, r)
          /\ reports' = Latest(Append(reports, NewId)) /\ starts \in Nat /\ starts' = starts)
         => Table'
<1>1. ASSUME Table, r.start = starts, issued' = Append(issued, r),
             reports' = Latest(Append(reports, NewId)), starts \in Nat, starts' = starts
      PROVE  Table'
  <2> DEFINE longer == Append(reports, NewId)
             n == Len(issued)  m == Len(reports)
  <2>0. /\ issued \in Seq([start : Nat, target : Place]) /\ reports \in Seq(Nat)
        /\ n \in Nat /\ m \in Nat /\ MaxStored \in Nat \ {0} /\ m <= MaxStored /\ m <= n
    BY <1>1, WebAssumption DEF Table
  <2>1. /\ issued' \in Seq([start : Nat, target : Place]) /\ Len(issued') = n + 1
        /\ \A id \in 1 .. n : issued'[id] = issued[id]
        /\ issued'[n + 1] = r
    BY <1>1, <2>0, AppendProperties
  <2>2. NewId = n + 1 /\ NewId \in Nat
    BY <2>0 DEF NewId
  <2>3. /\ longer \in Seq(Nat) /\ Len(longer) = m + 1 /\ longer # <<>>
        /\ \A k \in 1 .. m : longer[k] = reports[k]
        /\ longer[m + 1] = n + 1
    BY <2>0, <2>2, AppendProperties
  <2>4. \A k \in 1 .. m + 1 : longer[k] = n - m + k
    <3>1. \A k \in 1 .. m : reports[k] = n - m + k
      BY <1>1 DEF Table
    <3> HIDE DEF longer, n, m
    <3> QED
      BY <2>0, <2>3, <3>1
  <2>5. \A id \in 1 .. n + 1 : issued'[id].start <= starts
    BY <1>1, <2>0, <2>1 DEF Table
  <2>6. reports' = Latest(longer)
    BY <1>1
  <2>7. m < MaxStored => \A id \in 1 .. n : issued[id].start = starts => id > n - m
    BY <1>1 DEF Table
  <2> HIDE DEF longer, n, m
  <2>8. CASE m < MaxStored
    <3>1. reports' = longer
      BY <2>0, <2>3, <2>6, <2>8 DEF Latest
    <3>2. \A id \in 1 .. n + 1 : issued'[id].start = starts => id > n - m
      BY <1>1, <2>0, <2>1, <2>7, <2>8
    <3>3. reports' \in Seq(Nat) /\ Len(reports') = m + 1
          /\ \A k \in 1 .. m + 1 : reports'[k] = (n + 1) - (m + 1) + k
      BY <2>0, <2>3, <2>4, <3>1
    <3>4. m + 1 <= MaxStored /\ m + 1 <= n + 1 /\ (n + 1) - (m + 1) = n - m
      BY <2>0, <2>8
    <3>5. starts' = starts
      BY <1>1
    <3> QED
      BY <2>0, <2>1, <2>5, <3>2, <3>3, <3>4, <3>5 DEF Table
  <2>9. CASE m = MaxStored
    <3>1. reports' = Tail(longer)
      BY <2>0, <2>3, <2>6, <2>9 DEF Latest
    <3>2. /\ Tail(longer) \in Seq(Nat) /\ Len(Tail(longer)) = m
          /\ \A k \in 1 .. m : Tail(longer)[k] = longer[k + 1]
      BY <2>0, <2>3, HeadTailProperties
    <3>3. reports' \in Seq(Nat) /\ Len(reports') = m
          /\ \A k \in 1 .. m : reports'[k] = (n + 1) - m + k
      BY <2>0, <2>4, <3>1, <3>2
    <3> QED
      BY <1>1, <2>0, <2>1, <2>5, <2>9, <3>3 DEF Table
  <2> QED
    BY <2>0, <2>8, <2>9
<1> QED
  BY <1>1

\* The table keeps the latest reports.
LEMMA TableStep ==
  ASSUME WebInv, Next
  PROVE  Table'
<1>1. ASSUME NEW onLoopback \in BOOLEAN, NEW allowRemote \in BOOLEAN,
             NEW given \in BOOLEAN, Main(onLoopback, allowRemote, given)
      PROVE  Table'
  <2> USE DEF WebInv, Table
  <2>1. starts' = starts + 1 /\ reports' = <<>> /\ issued' = issued /\ starts \in Nat
    BY <1>1 DEF Main, Shape
  <2>2. reports' \in Seq(Nat) /\ Len(reports') = 0 /\ Len(issued) \in Nat
    BY <2>1
  <2>3. \A id \in 1 .. Len(issued) : issued[id] \in [start : Nat, target : Place]
    BY ElementOfSeq
  <2> QED
    BY <2>1, <2>2, <2>3, WebAssumption
<1>2. CASE Stop
  BY <1>2 DEF Stop, server, WebInv, Table
<1>3. ASSUME NEW t \in Tab, NEW query \in Tokens \cup {None}, OpenPage(t, query)
      PROVE  Table'
  BY <1>3 DEF OpenPage, server, WebInv, Table
<1>4. ASSUME NEW t \in Tab, ConnectionLost(t)
      PROVE  Table'
  BY <1>4 DEF ConnectionLost, server, WebInv, Table
<1>5. ASSUME NEW t \in Tab, NEW i \in Thread, NEW target \in Target \cup {"foreign"},
             Submit(t, i, target)
      PROVE  Table'
  BY <1>5 DEF Submit, server, WebInv, Table
<1>6. ASSUME NEW t \in Tab, NEW i \in Thread, Click(t, i)
      PROVE  Table'
  BY <1>6 DEF Click, server, WebInv, Table
<1>7. ASSUME NEW i \in Thread, NEW request \in Calls, Call(i, request)
      PROVE  Table'
  BY <1>7 DEF Call, server, WebInv, Table
<1>8. ASSUME NEW i \in Thread, Judge(i)
      PROVE  Table'
  BY <1>8 DEF Judge, server, WebInv, Table
<1>9. ASSUME NEW i \in Thread, ScanEnds(i)
      PROVE  Table'
  BY <1>9 DEF ScanEnds, server, WebInv, Table
<1>10. ASSUME NEW i \in Thread, ScanFails(i)
      PROVE  Table'
  BY <1>10 DEF ScanFails, server, WebInv, Table
<1>11. ASSUME NEW i \in Thread, StoreReport(i)
      PROVE  Table'
  <2> USE DEF WebInv, Table
  <2>1. thread[i].request.target \in Place /\ starts \in Nat
    BY <1>11 DEF StoreReport, Shape
  <2> HIDE DEF Table
  <2> QED
    BY <1>11, <2>1, LatestSays DEF StoreReport, server
<1>12. ASSUME NEW i \in Thread, ReadReport(i)
      PROVE  Table'
  BY <1>12 DEF ReadReport, server, WebInv, Table
<1>13. ASSUME NEW i \in Thread, Reply(i)
      PROVE  Table'
  BY <1>13 DEF Reply, server, WebInv, Table
<1> QED
  BY <1>1, <1>2, <1>3, <1>4, <1>5, <1>6, <1>7, <1>8, <1>9, <1>10, <1>11, <1>12, <1>13,
     WebAssumption DEF Next, Serve

\* A report that its link asks for is only refused with 403.
LEMMA ReportRefusalSays ==
  ASSUME NEW l, NEW tok, NEW r, r.path, r.query = None
  PROVE  ReportRefusal(l, tok, r) # None => ReportRefusal(l, tok, r).status = 403
<1> DEFINE checks == << <<~HostAllowed(l, r), Answer(403)>>,
                        <<~TokenAllowed(tok, r), Answer(403)>>,
                        <<~r.path \/ r.query # None, Answer(404)>> >>
<1>1. ReportRefusal(l, tok, r) = FirstOf(checks)
  BY DEF ReportRefusal
<1>2. DOMAIN checks = 1 .. 3
  OBVIOUS
<1>3. /\ ~checks[3][1]
      /\ checks[1][2] = Answer(403) /\ checks[2][2] = Answer(403)
  OBVIOUS
<1> HIDE DEF checks
<1>4. ASSUME NEW k \in 1 .. 3, checks[k][1], FirstOf(checks) = checks[k][2]
      PROVE  FirstOf(checks).status = 403
  <2>1. k \in {1, 2}
    BY <1>3, <1>4
  <2> QED
    BY <1>3, <1>4, <2>1 DEF Answer
<1> QED
  BY <1>1, <1>2, <1>4, FirstRefuses

\* A download stays what its link promised until it is delivered.
LEMMA DownloadStep ==
  ASSUME WebInv, Next
  PROVE  DownloadTruthful'
<1>1. ASSUME NEW onLoopback \in BOOLEAN, NEW allowRemote \in BOOLEAN,
             NEW given \in BOOLEAN, Main(onLoopback, allowRemote, given)
      PROVE  DownloadTruthful'
  BY <1>1 DEF Main, DownloadTruthful, Slot, FreeThread, WebInv
<1>2. CASE Stop
  BY <1>2 DEF Stop, DownloadTruthful, FreeThread, WebInv
<1>3. ASSUME NEW t \in Tab, NEW query \in Tokens \cup {None}, OpenPage(t, query)
      PROVE  DownloadTruthful'
  BY <1>3 DEF OpenPage, DownloadTruthful, server, WebInv
<1>4. ASSUME NEW t \in Tab, ConnectionLost(t)
      PROVE  DownloadTruthful'
  BY <1>4 DEF ConnectionLost, DownloadTruthful, server, WebInv
<1>5. ASSUME NEW t \in Tab, NEW i \in Thread, NEW target \in Target \cup {"foreign"},
             Submit(t, i, target)
      PROVE  DownloadTruthful'
  BY <1>5 DEF Submit, DownloadTruthful, Receive, Shape, server, WebInv
<1>6. ASSUME NEW t \in Tab, NEW i \in Thread, Click(t, i)
      PROVE  DownloadTruthful'
  BY <1>6 DEF Click, DownloadTruthful, Receive, Shape, server, WebInv
<1>7. ASSUME NEW i \in Thread, NEW request \in Calls, Call(i, request)
      PROVE  DownloadTruthful'
  BY <1>7 DEF Call, DownloadTruthful, Receive, Shape, server, WebInv
<1>8. ASSUME NEW i \in Thread, Judge(i)
      PROVE  DownloadTruthful'
  BY <1>8 DEF Judge, DownloadTruthful, Ends, Shape, server, WebInv
<1>9. ASSUME NEW i \in Thread, ScanEnds(i)
      PROVE  DownloadTruthful'
  BY <1>9 DEF ScanEnds, DownloadTruthful, Ends, Shape, server, Answer, WebInv
<1>10. ASSUME NEW i \in Thread, ScanFails(i)
      PROVE  DownloadTruthful'
  BY <1>10 DEF ScanFails, DownloadTruthful, Ends, Shape, server, Answer, WebInv
<1>11. ASSUME NEW i \in Thread, StoreReport(i)
      PROVE  DownloadTruthful'
  <2> USE DEF WebInv
  <2>1. thread[i].request.target \in Place /\ starts \in Nat
    BY <1>11 DEF StoreReport, Shape
  <2>2. \E r \in [start : Nat, target : Place] : issued' = Append(issued, r)
    BY <1>11, <2>1 DEF StoreReport
  <2>3. /\ Len(issued) \in Nat /\ Len(issued') \in Nat /\ Len(issued') >= Len(issued)
        /\ \A id \in 1 .. Len(issued) : issued'[id] = issued[id]
    BY <2>2, StoredStays
  <2>4. thread'[i].request.kind = "scan"
    BY <1>11 DEF StoreReport, Entitled, Shape
  <2>5. \A j \in Thread : j # i => thread'[j] = thread[j]
    BY <1>11 DEF StoreReport, Shape
  <2>6. ASSUME NEW j \in Thread, j # i, thread[j].phase = "answered",
               thread[j].request.kind = "report", thread[j].wanted # None
        PROVE  LET a == thread[j].answer  w == thread[j].wanted
               IN  /\ a.status = 200 => a.field = w.target
                   /\ a.status = 404 => \/ issued'[w.id].start # starts
                                        \/ Len(issued') - w.id >= MaxStored
    <3>1. thread[j].wanted.id \in 1 .. Len(issued)
      BY <2>6 DEF WantedStored, Stored
    <3> QED
      BY <2>3, <2>6, <3>1, WebAssumption DEF DownloadTruthful
  <2>7. starts' = starts
    BY <1>11 DEF StoreReport, server
  <2> QED
    BY <2>4, <2>5, <2>6, <2>7 DEF DownloadTruthful
<1>12. ASSUME NEW i \in Thread, ReadReport(i)
      PROVE  DownloadTruthful'
  <2> USE DEF WebInv
  <2> DEFINE r == thread[i].request  w == thread[i].wanted
               refusal == ReportRefusal(loopback, token, r)
  <2>1. \A j \in Thread : j # i => thread'[j] = thread[j]
    BY <1>12 DEF ReadReport, Ends, Shape
  <2>2. thread'[i].request = r /\ thread'[i].wanted = w
    BY <1>12 DEF ReadReport, Ends, Shape
  <2>3. starts' = starts /\ issued' = issued
    BY <1>12 DEF ReadReport, server
  <2>4. ASSUME w # None
        PROVE  LET a == thread'[i].answer
               IN  /\ a.status = 200 => a.field = w.target
                   /\ a.status = 404 => \/ issued[w.id].start # starts
                                        \/ Len(issued) - w.id >= MaxStored
    <3>1. /\ r.id = w.id /\ r.path /\ r.query = None
          /\ w.id \in 1 .. Len(issued) /\ issued[w.id].target = w.target
      BY <1>12, <2>4 DEF ReadReport, WantedStored, Stored
    <3>2. CASE refusal # None
      <4>1. thread'[i].answer = refusal
        BY <1>12, <3>2 DEF ReadReport, Ends, Shape
      <4> QED
        BY <3>1, <3>2, <4>1, ReportRefusalSays
    <3>3. CASE refusal = None /\ r.id \in Range(reports)
      <4>1. thread'[i].answer = [Answer(200) EXCEPT !.field = issued[r.id].target]
        BY <1>12, <3>3 DEF ReadReport, Ends, Shape
      <4> QED
        BY <3>1, <4>1 DEF Answer
    <3>4. CASE refusal = None /\ r.id \notin Range(reports)
      <4>1. thread'[i].answer = Answer(404)
        BY <1>12, <3>4 DEF ReadReport, Ends, Shape
      <4>2. \A k \in 1 .. Len(reports) : reports[k] # w.id
        BY <3>1, <3>4 DEF Range, Table
      <4>3. Len(issued) \in Nat /\ Len(reports) \in Nat /\ MaxStored \in Nat
        BY WebAssumption DEF Table
      <4>4. w.id <= Len(issued) - Len(reports)
        <5>1. SUFFICES ASSUME w.id > Len(issued) - Len(reports) PROVE FALSE
          BY <3>1, <4>3
        <5> DEFINE k == w.id - (Len(issued) - Len(reports))
        <5>2. k \in 1 .. Len(reports)
          BY <3>1, <4>3, <5>1
        <5>3. reports[k] = Len(issued) - Len(reports) + k
          BY <5>2 DEF Table
        <5> QED
          BY <3>1, <4>2, <4>3, <5>2, <5>3
      <4>5. issued[w.id].start # starts \/ Len(reports) >= MaxStored
        BY <3>1, <4>3, <4>4 DEF Table
      <4>6. Len(reports) >= MaxStored => Len(issued) - w.id >= MaxStored
        BY <3>1, <4>3, <4>4
      <4> QED
        BY <4>1, <4>5, <4>6 DEF Answer
    <3> QED
      BY <3>2, <3>3, <3>4
  <2> QED
    BY <2>1, <2>2, <2>3, <2>4 DEF DownloadTruthful
<1>13. ASSUME NEW i \in Thread, Reply(i)
      PROVE  DownloadTruthful'
  BY <1>13 DEF Reply, DownloadTruthful, FreeThread, Shape, server, WebInv
<1> QED
  BY <1>1, <1>2, <1>3, <1>4, <1>5, <1>6, <1>7, <1>8, <1>9, <1>10, <1>11, <1>12, <1>13,
     WebAssumption DEF Next, Serve

\* A call with a credential is refused as one, or for what comes before the
\* credential check in both.
LEMMA CredentialRefused ==
  ASSUME NEW l, NEW tok, NEW r \in Calls, HasCredential(r)
  PROVE  LET refusal == ScanRefusal(l, tok, r)
         IN  /\ refusal # None
             /\ \/ refusal.code = "credential_not_accepted"
                \/ refusal = ScanRefusal(l, tok, Harmless(r))
<1> DEFINE Checks(q) ==
      << <<q.length = "bad", Answer(400)>>,
         <<q.length = "over", Answer(413)>>,
         <<~q.path \/ q.query # None, Answer(404)>>,
         <<~HostAllowed(l, q) \/ ~q.origin, Answer(403)>>,
         <<~TokenAllowed(tok, q), Answer(403)>>,
         <<~q.type, Answer(415)>>,
         <<q.body # "object", Answer(400)>>,
         <<RejectedField(q) # None, RejectedField(q)>>,
         <<~q.authorized, Answer(400)>>,
         <<q.target \in {"blank", "foreign"}, Answer(400)>>,
         <<q.checks \in {"shape", "unknown"}, Answer(400)>>,
         <<q.crawl = "other", Answer(400)>> >>
           h == Harmless(r)
<1>1. \A q : ScanRefusal(l, tok, q) = FirstOf(Checks(q)) /\ DOMAIN Checks(q) = 1 .. 12
  BY DEF ScanRefusal
<1>2. /\ RejectedField(r) # None /\ RejectedField(r).code = "credential_not_accepted"
  <2> DEFINE found == {k \in DOMAIN r.extra : LooksLikeCredential(r.extra[k])}
  <2>1. found \in SUBSET Nat /\ (found # {} \/ r.userinfo)
    BY WebAssumption DEF HasCredential, Range
  <2>2. CASE found # {}
    <3>1. Min(found) \in found
      BY <2>1, <2>2, LeastCheck
    <3>2. r.extra[Min(found)] \in Range(r.extra)
      BY <3>1 DEF Range
    <3> DEFINE field == r.extra[Min(found)]
    <3>3. RejectedField(r) = Refused("credential_not_accepted", field)
      BY <2>2 DEF RejectedField
    <3> HIDE DEF field
    <3>4. field \in UNION {Range(c.extra) : c \in Calls}
      <4> DEFINE names(c) == Range(c.extra)
      <4>1. field \in names(r)
        BY <3>2 DEF field
      <4> HIDE DEF names
      <4>2. field \in UNION {names(c) : c \in Calls}
        BY <4>1
      <4> QED
        BY <4>2 DEF names
    <3>5. None # Refused("credential_not_accepted", field)
      BY <3>4, WebAssumption
    <3> QED
      BY <3>3, <3>5 DEF Refused
  <2>3. CASE found = {} /\ r.userinfo
    <3>1. RejectedField(r) = Refused("credential_not_accepted", "target")
      BY <2>3 DEF RejectedField
    <3> QED
      BY <3>1, WebAssumption DEF Refused
  <2> QED
    BY <2>1, <2>2, <2>3
<1>3. /\ h.length = r.length /\ h.path = r.path /\ h.query = r.query /\ h.host = r.host
      /\ h.origin = r.origin /\ h.header = r.header /\ h.cookie = r.cookie
      /\ h.type = r.type /\ h.body = r.body
  BY WebAssumption DEF Harmless, PageRequest
<1>4. HostAllowed(l, h) = HostAllowed(l, r) /\ TokenAllowed(tok, h) = TokenAllowed(tok, r)
  BY <1>3 DEF HostAllowed, TokenAllowed, Supplied
<1>5. \A k \in 1 .. 7 : Checks(h)[k] = Checks(r)[k]
  <2> HIDE DEF h
  <2>1. /\ Checks(h)[1] = Checks(r)[1] /\ Checks(h)[2] = Checks(r)[2]
        /\ Checks(h)[3] = Checks(r)[3] /\ Checks(h)[4] = Checks(r)[4]
        /\ Checks(h)[5] = Checks(r)[5] /\ Checks(h)[6] = Checks(r)[6]
        /\ Checks(h)[7] = Checks(r)[7]
    BY <1>3, <1>4
  <2>2. \A k \in 1 .. 7 : k \in {1, 2, 3, 4, 5, 6, 7}
    OBVIOUS
  <2> HIDE DEF Checks
  <2> QED
    BY <2>1, <2>2
<1>6. /\ Checks(r)[8][1] /\ Checks(r)[8][2] = RejectedField(r)
  BY <1>2
<1>7. \A k \in 1 .. 7 : \E status \in Nat : Checks(r)[k][2] = Answer(status)
  OBVIOUS
<1>8. \A status \in Nat : Answer(status) # None
  BY NoneAssumption DEF Answer
<1> HIDE DEF Checks, h
<1>9. PICK k \in 1 .. 12 : /\ Checks(r)[k][1] /\ FirstOf(Checks(r)) = Checks(r)[k][2]
                           /\ \A j \in 1 .. 12 : Checks(r)[j][1] => k <= j
  BY <1>1, <1>6, FirstRefuses
<1>10. CASE k = 8
  BY <1>1, <1>2, <1>6, <1>9, <1>10
<1>11. CASE k < 8
  <2>1. k \in 1 .. 7 /\ Checks(h)[k][1] /\ k \in 1 .. 12
    BY <1>5, <1>9, <1>11
  <2>2. PICK m \in 1 .. 12 : /\ Checks(h)[m][1] /\ FirstOf(Checks(h)) = Checks(h)[m][2]
                             /\ \A j \in 1 .. 12 : Checks(h)[j][1] => m <= j
    BY <1>1, <2>1, FirstRefuses
  <2>3. m <= k
    BY <2>1, <2>2
  <2>4. m \in 1 .. 7 /\ Checks(r)[m][1]
    BY <1>5, <2>1, <2>2, <2>3
  <2>5. m = k
    BY <1>9, <2>3, <2>4
  <2> QED
    BY <1>1, <1>5, <1>7, <1>8, <1>9, <2>1, <2>2, <2>5 DEF h
<1>12. k <= 8
  BY <1>6, <1>9
<1> QED
  BY <1>10, <1>11, <1>12

\* A request of the page carries no credential.
LEMMA PageHasNoCredential ==
  /\ \A c, target : ~HasCredential([PageRequest("scan", c) EXCEPT !.target = target])
  /\ \A c, id : [PageRequest("report", c) EXCEPT !.id = id].kind = "report"
BY DEF HasCredential, PageRequest, Range

\* Whoever sends a credential is told, whatever else is wrong with the call.
LEMMA ToldStep ==
  ASSUME WebInv, Next
  PROVE  Told'
<1>1. ASSUME NEW onLoopback \in BOOLEAN, NEW allowRemote \in BOOLEAN,
             NEW given \in BOOLEAN, Main(onLoopback, allowRemote, given)
      PROVE  Told'
  BY <1>1 DEF Main, Told, Slot, FreeThread, WebInv
<1>2. CASE Stop
  BY <1>2 DEF Stop, Told, FreeThread, WebInv
<1>3. ASSUME NEW t \in Tab, NEW query \in Tokens \cup {None}, OpenPage(t, query)
      PROVE  Told'
  BY <1>3 DEF OpenPage, Told, server, WebInv
<1>4. ASSUME NEW t \in Tab, ConnectionLost(t)
      PROVE  Told'
  BY <1>4 DEF ConnectionLost, Told, server, WebInv
<1>5. ASSUME NEW t \in Tab, NEW i \in Thread, NEW target \in Target \cup {"foreign"},
             Submit(t, i, target)
      PROVE  Told'
  <2>1. CASE ~up
    BY <1>5, <2>1 DEF Submit, Told, server, WebInv
  <2>2. CASE up
    <3> DEFINE r == [PageRequest("scan", cookie) EXCEPT !.target = target]
    <3>1. Receive(i, r, None) /\ UNCHANGED server
      BY <1>5, <2>2 DEF Submit
    <3>2. ~HasCredential(r)
      BY PageHasNoCredential
    <3> HIDE DEF r
    <3> QED
      BY <3>1, <3>2 DEF Told, Receive, Shape, server, WebInv
  <2> QED
    BY <2>1, <2>2
<1>6. ASSUME NEW t \in Tab, NEW i \in Thread, Click(t, i)
      PROVE  Told'
  BY <1>6, PageHasNoCredential DEF Click, Told, Receive, Shape, server, WebInv
<1>7. ASSUME NEW i \in Thread, NEW request \in Calls, Call(i, request)
      PROVE  Told'
  BY <1>7 DEF Call, Told, Receive, Shape, server, WebInv
<1>8. ASSUME NEW i \in Thread, Judge(i)
      PROVE  Told'
  <2> DEFINE r == thread[i].request
             refusal == ScanRefusal(loopback, token, r)
  <2>1. loopback' = loopback /\ token' = token
    BY <1>8 DEF Judge, server
  <2>2. \A j \in Thread : j # i => thread'[j] = thread[j]
    BY <1>8 DEF Judge, Ends, Shape, WebInv
  <2>3. thread'[i].request = r /\ thread'[i].phase # "free"
    BY <1>8 DEF Judge, Ends, Shape, WebInv
  <2>4. ASSUME HasCredential(r), r.kind = "scan"
        PROVE  /\ r \in Calls /\ thread'[i].phase = "answered"
               /\ \/ thread'[i].answer.code = "credential_not_accepted"
                  \/ thread'[i].answer = ScanRefusal(loopback, token, Harmless(r))
    <3>1. r \in Calls
      BY <1>8, <2>4 DEF Judge, Told, WebInv
    <3>2. /\ refusal # None
          /\ \/ refusal.code = "credential_not_accepted"
             \/ refusal = ScanRefusal(loopback, token, Harmless(r))
      BY <2>4, <3>1, CredentialRefused
    <3>3. thread'[i].phase = "answered" /\ thread'[i].answer = refusal
      BY <1>8, <3>2 DEF Judge, Ends, Shape, WebInv
    <3> QED
      BY <3>1, <3>2, <3>3
  <2> QED
    BY <2>1, <2>2, <2>3, <2>4 DEF Told, WebInv
<1>9. ASSUME NEW i \in Thread, ScanEnds(i)
      PROVE  Told'
  BY <1>9 DEF ScanEnds, Told, Ends, Shape, server, WebInv
<1>10. ASSUME NEW i \in Thread, ScanFails(i)
      PROVE  Told'
  BY <1>10 DEF ScanFails, Told, Ends, Shape, server, WebInv
<1>11. ASSUME NEW i \in Thread, StoreReport(i)
      PROVE  Told'
  BY <1>11 DEF StoreReport, Told, Shape, server, WebInv
<1>12. ASSUME NEW i \in Thread, ReadReport(i)
      PROVE  Told'
  BY <1>12 DEF ReadReport, Told, Ends, Shape, server, WebInv
<1>13. ASSUME NEW i \in Thread, Reply(i)
      PROVE  Told'
  BY <1>13 DEF Reply, Told, FreeThread, Shape, server, WebInv
<1> QED
  BY <1>1, <1>2, <1>3, <1>4, <1>5, <1>6, <1>7, <1>8, <1>9, <1>10, <1>11, <1>12, <1>13,
     WebAssumption DEF Next, Serve

(* The theorems *)

LEMMA WebInvInitially == Init => WebInv
<1> SUFFICES ASSUME Init PROVE WebInv
  OBVIOUS
<1> USE WebAssumption DEF Init, FreeThread, Blank
<1>1. Shape
  <2>1. \A i \in Thread : DOMAIN thread[i] = {"phase", "request", "wanted", "answer"}
                          /\ thread[i].phase = "free"
    OBVIOUS
  <2>2. \A t \in Tab : /\ DOMAIN page[t] = {"state", "invited", "start", "shown", "link", "sent"}
                       /\ page[t].start = 0
    OBVIOUS
  <2>3. up \in BOOLEAN /\ starts = 0 /\ DOMAIN thread = Thread /\ DOMAIN page = Tab
    OBVIOUS
  <2> HIDE DEF Init
  <2> QED
    BY <2>1, <2>2, <2>3 DEF Shape, Phase
<1>2. Slot /\ Entitled /\ CookieFits /\ DownloadTruthful /\ Told
  BY DEF Slot, Entitled, CookieFits, DownloadTruthful, Told
<1>3. Waiting /\ ShownStored /\ WantedStored
  BY DEF Waiting, ShownStored, WantedStored
<1>4. Table
  BY DEF Table
<1> QED
  BY <1>1, <1>2, <1>3, <1>4 DEF WebInv

LEMMA WebInvStutters == WebInv /\ UNCHANGED vars => WebInv'
BY DEF WebInv, vars, Shape, Slot, Entitled, CookieFits, Waiting, ShownStored, WantedStored,
   Stored, Table, DownloadTruthful, Told

\* The inductive invariant of the server and its pages (web.py, static/app.js).
THEOREM WebInvariant == Spec => []WebInv
<1>1. WebInv /\ [Next]_vars => WebInv'
  <2>1. WebInv /\ Next => WebInv'
    BY ShapeStep, SlotStep, EntitledStep, CookieFitsStep, WaitingStep, ShownStoredStep,
       WantedStoredStep, TableStep, DownloadStep, ToldStep DEF WebInv
  <2> QED
    BY <2>1, WebInvStutters
<1> QED
  BY <1>1, WebInvInitially, PTL DEF Spec

\* Whatever requests arrive and however scans end, one scan runs at a time and the
\* slot is free as soon as it ends (web.py:293-337).
THEOREM OneScanEver == Spec => []OneScanAtATime
<1>1. WebInv => OneScanAtATime
  BY DEF WebInv, Slot, OneScanAtATime
<1> QED
  BY <1>1, WebInvariant, PTL

\* For every number of stored reports, a download is the report of the result that
\* was shown, or has been pushed out by as many newer ones as the server keeps, or
\* went with a restart (web.py:349-420).
THEOREM DownloadsTruthful == Spec => []DownloadTruthful
<1>1. WebInv => DownloadTruthful
  BY DEF WebInv
<1> QED
  BY <1>1, WebInvariant, PTL

\* The link of every tab refers to the result it shows, and is there whenever it
\* waits for nothing (app.js).
THEOREM LinksAreOfShown == Spec => []LinkIsOfShown
<1>1. WebInv => LinkIsOfShown
  BY DEF WebInv, ShownStored, LinkIsOfShown, Busy
<1> QED
  BY <1>1, WebInvariant, PTL

\* A page the link of this start has opened is never refused by this start, and no
\* scan starts without the token (web.py:150-245).
THEOREM SessionsHold == Spec => []SessionHolds
<1>1. WebInv => SessionHolds
  BY DEF WebInv, Entitled, CookieFits, Waiting, SessionHolds
<1> QED
  BY <1>1, WebInvariant, PTL

\* Whatever the fields of a call and their order, a credential among them is never
\* part of a scan, and the answer is about the credential or is the one the call
\* gets without it (web.py:143-170, 306-315).
THEOREM CredentialsAnswered == Spec => []CredentialAnswered
<1>1. WebInv => CredentialAnswered
  BY DEF WebInv, Told, CredentialAnswered
<1> QED
  BY <1>1, WebInvariant, PTL

=============================================================================

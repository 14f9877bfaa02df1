-------------------------- MODULE ScanCommand_proofs --------------------------
(***************************************************************************)
(* The scan command is right for every command line, site and baseline: an *)
(* inductive invariant of ScanCommand, and from it what exit code 0 means, *)
(* that the five places that judge a report agree, that a baseline's       *)
(* findings are accounted for, and that the counts of the pages and of the *)
(* findings add up.                                                        *)
(***************************************************************************)
EXTENDS ScanCommand, FiniteSetTheorems, SequenceTheorems, WellFoundedInduction, TLAPS

(* Sequences *)

\* A sequence of anything: what its operators do to it, whatever its elements are.
IsSequence(s) == s \in Seq(ToSet(s))

LEMMA SequenceIs ==
  ASSUME NEW s, NEW n \in Nat, s = [i \in 1 .. n |-> s[i]]
  PROVE  IsSequence(s) /\ Len(s) = n /\ DOMAIN s = 1 .. n
BY DEF IsSequence, ToSet

LEMMA SequenceHas ==
  ASSUME NEW s, IsSequence(s)
  PROVE  Len(s) \in Nat /\ DOMAIN s = 1 .. Len(s) /\ s = [i \in 1 .. Len(s) |-> s[i]]
BY DEF IsSequence, ToSet

LEMMA InSeqIs ==
  ASSUME NEW S, NEW s \in Seq(S)
  PROVE  IsSequence(s)
<1>1. Len(s) \in Nat /\ s = [i \in 1 .. Len(s) |-> s[i]]
  OBVIOUS
<1> QED
  BY <1>1, SequenceIs

LEMMA AppendIs ==
  ASSUME NEW s, IsSequence(s), NEW e
  PROVE  /\ IsSequence(Append(s, e))
         /\ Len(Append(s, e)) = Len(s) + 1
         /\ \A i \in 1 .. Len(s) : Append(s, e)[i] = s[i]
         /\ Append(s, e)[Len(s) + 1] = e
<1>1. s \in Seq(ToSet(s) \cup {e})
  BY SequenceHas DEF IsSequence, ToSet
<1>2. Append(s, e) \in Seq(ToSet(s) \cup {e})
  BY <1>1, AppendProperties
<1>3. IsSequence(Append(s, e))
  BY <1>2, InSeqIs
<1> QED
  BY <1>1, <1>3, AppendProperties

LEMMA ConcatIs ==
  ASSUME NEW s, IsSequence(s), NEW t, IsSequence(t)
  PROVE  /\ IsSequence(s \o t)
         /\ Len(s \o t) = Len(s) + Len(t)
         /\ \A i \in 1 .. Len(s) : (s \o t)[i] = s[i]
         /\ \A i \in 1 .. Len(t) : (s \o t)[Len(s) + i] = t[i]
<1>1. s \in Seq(ToSet(s) \cup ToSet(t)) /\ t \in Seq(ToSet(s) \cup ToSet(t))
  BY SequenceHas DEF IsSequence, ToSet
<1>2. s \o t \in Seq(ToSet(s) \cup ToSet(t))
  BY <1>1, ConcatProperties
<1>3. IsSequence(s \o t)
  BY <1>2, InSeqIs
<1> QED
  BY <1>1, <1>3, ConcatProperties

LEMMA TailIs ==
  ASSUME NEW s, IsSequence(s), s # <<>>
  PROVE  /\ IsSequence(Tail(s))
         /\ ToSet(Tail(s)) \subseteq ToSet(s)
         /\ Head(s) \in ToSet(s)
<1>1. Tail(s) \in Seq(ToSet(s)) /\ Head(s) \in ToSet(s)
  BY HeadTailProperties DEF IsSequence
<1>2. IsSequence(Tail(s))
  BY <1>1, InSeqIs
<1>3. ASSUME NEW i \in DOMAIN Tail(s)
      PROVE  Tail(s)[i] \in ToSet(s)
  BY <1>1, <1>3
<1> QED
  BY <1>1, <1>2, <1>3 DEF ToSet

\* The sequence of a finite set has its elements.
LEMMA SetToSeqIs ==
  ASSUME NEW S, IsFiniteSet(S)
  PROVE  IsSequence(SetToSeq(S)) /\ \A i \in DOMAIN SetToSeq(S) : SetToSeq(S)[i] \in S
<1>1. Cardinality(S) \in Nat /\ ExistsBijection(1 .. Cardinality(S), S)
  BY FS_CardinalityType, FS_NatBijection, FS_CountingElements
<1>2. PICK f \in [1 .. Cardinality(S) -> S] : IsInjective(f)
  BY <1>1 DEF ExistsBijection, Bijection, Injection, IsInjective
<1>3. SetToSeq(S) \in [1 .. Cardinality(S) -> S]
  BY <1>2 DEF SetToSeq
<1> QED
  BY <1>1, <1>3, SequenceIs

-----------------------------------------------------------------------------
(* The inductive invariant.                                                 *)

ResultFields == {"findings", "groups", "ran", "fetched", "stoppedBy", "pages"}
FoundFields == {"id", "key", "severity", "check", "path", "urls", "count"}

\* A finding of a result: it lists pages when it counts them, and its id tells
\* whether a page check found it.
IsFound(f) ==
  /\ DOMAIN f = FoundFields
  /\ f.count \in Nat /\ IsSequence(f.urls) /\ (f.urls = <<>> <=> f.count = 0)
  /\ f.check \in PageCheckNames <=> f.id \in PageIds

Shape ==
  /\ options \in Options
  /\ DOMAIN result = ResultFields
  /\ IsSequence(result.findings)
  /\ \A i \in DOMAIN result.findings : IsFound(result.findings[i])
  /\ IsSequence(result.pages)
  /\ \A p \in DOMAIN result.pages : result.pages[p].findings \in Nat
  /\ codes \in Seq({0, 1, 3})
  /\ IsFiniteSet(DOMAIN landed.cookies)

\* The page in hand, and what was found on it.
InHand ==
  /\ IsSequence(crawled) /\ \A p \in ToSet(crawled) : IsFiniteSet(DOMAIN p.cookies)
  /\ IsSequence(pending)
  /\ \A i \in DOMAIN pending :
       IsFound(pending[i]) /\ pending[i].count = 0 /\ pending[i].id \in PageIds
  /\ IsFiniteSet(met)
  /\ phase = "merge" => crawled # <<>>

\* Before the target's own page is in the report, and after.
Before == {"parse", "fetch", "tls-only", "headers", "start-hsts", "cookies", "page"}
After == {"tls", "redirect", "cors", "profile", "paths", "listing", "robots", "crawl",
          "judge", "merge"}
SitePhases == {Phases[n] : n \in 1 .. 13}

\* Where the scan is: a phase is entered only when it applies, and the target's
\* own page comes before any other.
Course ==
  /\ phase \in Before \cup After \cup {"finish", "write", "ended"}
  /\ phase \in SitePhases => Applies(phase, landed)
  /\ phase \in {"parse", "fetch"} => landed = NotLanded
  /\ phase = "tls-only" => Want("tls")
  /\ phase \in {"parse", "fetch", "tls-only"} => result.findings = <<>> /\ seen = {}
  /\ phase \in Before => result.pages = <<>>
  /\ phase \in After => result.pages # <<>>

\* Nothing that a check returned is lost, and only selected checks run.
Kept ==
  /\ seen \subseteq {Fp(result.findings[i]) : i \in DOMAIN result.findings}
  /\ \A c \in result.ran : GroupOfCheck(c) \in options.groups

\* The sum of the pages and of the page in hand is that of the findings.
Accounts ==
  /\ result.pages = <<>> => \A i \in DOMAIN result.findings : result.findings[i].count = 0
  /\ result.pages # <<>> => IsFiniteSet(OnPages(result.pages)) /\ IsFiniteSet(OnFindings(result.findings))
  /\ result.pages # <<>> =>
       Cardinality(OnPages(result.pages)) + (IF phase = "merge" THEN Cardinality(met) ELSE 0)
         = Cardinality(OnFindings(result.findings))

\* The report is that of the result, and its code is the last.
Reported ==
  phase = "write" =>
    /\ report = Report(result, options.failOn, Baseline, options.entries, Today)
    /\ codes # <<>> /\ codes[Len(codes)] = ExitCode(report.gate)

\* A target that was not clean has left its code, and 0 is no such code.
Worst ==
  /\ options.failOn # "none" /\ concern => 1 \in ToSet(codes) \/ 3 \in ToSet(codes)
  /\ phase = "ended" /\ exit = 0 => 1 \notin ToSet(codes) /\ 3 \notin ToSet(codes)

CommandInv == Shape /\ InHand /\ Course /\ Kept /\ Accounts /\ Reported /\ Worst

-----------------------------------------------------------------------------
(* The sums of the pages and of the findings.                               *)

\* A set of positions has a least one.
LEMMA LeastIndex ==
  ASSUME NEW S \in SUBSET Nat, S # {}
  PROVE  \E m \in S : \A y \in S : m <= y
<1> DEFINE R == OpToRel(<, Nat)
<1>1. IsWellFoundedOn(R, Nat)
  BY NatLessThanWellFounded
<1>2. \A x, y \in Nat : y < x => <<y, x>> \in R
  BY DEF OpToRel
<1> HIDE DEF R
<1>3. PICK x \in S : \A y \in S : ~ <<y, x>> \in R
  BY <1>1, WFMin
<1>4. ASSUME NEW y \in S
      PROVE  x <= y
  <2>1. x \in Nat /\ y \in Nat
    OBVIOUS
  <2>2. ~(y < x)
    BY <1>2, <1>3, <2>1
  <2> QED
    BY <2>1, <2>2
<1> QED
  BY <1>4

\* One pair for each number up to k.
LEMMA RowOfPairs ==
  ASSUME NEW x, NEW k \in Nat
  PROVE  IsFiniteSet({x} \X (1 .. k)) /\ Cardinality({x} \X (1 .. k)) = k
<1> DEFINE g == [n \in 1 .. k |-> <<x, n>>]
<1>1. g \in Bijection(1 .. k, {x} \X (1 .. k))
  <2>1. g \in [1 .. k -> {x} \X (1 .. k)]
    OBVIOUS
  <2>2. \A i, j \in 1 .. k : g[i] = g[j] => i = j
    OBVIOUS
  <2>3. \A y \in {x} \X (1 .. k) : \E i \in 1 .. k : g[i] = y
    OBVIOUS
  <2> HIDE DEF g
  <2> QED
    BY <2>1, <2>2, <2>3 DEF Bijection, Injection, Surjection, IsInjective
<1>2. ExistsBijection(1 .. k, {x} \X (1 .. k))
  BY <1>1 DEF ExistsBijection
<1>3. IsFiniteSet(1 .. k) /\ Cardinality(1 .. k) = k
  BY FS_Interval
<1> QED
  BY <1>2, <1>3, FS_Bijection

\* A page adds what it counts.
LEMMA PageAdds ==
  ASSUME NEW pages, IsSequence(pages), IsFiniteSet(OnPages(pages)),
         NEW page, page.findings \in Nat
  PROVE  LET more == OnPages(Append(pages, page))
         IN IsFiniteSet(more) /\ Cardinality(more) = Cardinality(OnPages(pages)) + page.findings
<1> DEFINE n == Len(pages)
           new == {n + 1} \X (1 .. page.findings)
<1>1. n \in Nat /\ DOMAIN pages = 1 .. n
  BY SequenceHas
<1>2. DOMAIN Append(pages, page) = 1 .. (n + 1)
  BY AppendIs, SequenceHas
<1>3. /\ \A p \in 1 .. n : Append(pages, page)[p] = pages[p]
      /\ Append(pages, page)[n + 1] = page
  BY AppendIs
<1>4. 1 .. (n + 1) = (1 .. n) \cup {n + 1}
  BY <1>1
<1>5. OnPages(Append(pages, page)) = OnPages(pages) \cup new
  BY <1>1, <1>2, <1>3, <1>4 DEF OnPages
<1>6. OnPages(pages) \cap new = {}
  BY <1>1 DEF OnPages
<1>7. IsFiniteSet(new) /\ Cardinality(new) = page.findings
  BY RowOfPairs
<1>8. Cardinality(OnPages(pages)) \in Nat
  BY FS_CardinalityType
<1> HIDE DEF new, n
<1>9. /\ IsFiniteSet(OnPages(pages) \cup new)
      /\ Cardinality(OnPages(pages) \cup new) =
           Cardinality(OnPages(pages)) + Cardinality(new) - Cardinality(OnPages(pages) \cap new)
  BY <1>7, FS_Union
<1>10. Cardinality(OnPages(pages) \cap new) = 0
  BY <1>6, FS_EmptySet
<1> QED
  BY <1>5, <1>7, <1>8, <1>9, <1>10

\* What other checks find is not counted.
LEMMA OthersDoNotCount ==
  ASSUME NEW a, IsSequence(a), NEW b, IsSequence(b),
         \A i \in DOMAIN b : b[i].check \notin PageCheckNames
  PROVE  OnFindings(a \o b) = OnFindings(a)
<1>1. /\ Len(a) \in Nat /\ Len(b) \in Nat
      /\ DOMAIN a = 1 .. Len(a) /\ DOMAIN b = 1 .. Len(b)
      /\ DOMAIN (a \o b) = 1 .. (Len(a) + Len(b))
  BY ConcatIs, SequenceHas
<1>2. \A i \in 1 .. Len(a) : (a \o b)[i] = a[i]
  BY ConcatIs
<1>3. ASSUME NEW i \in 1 .. (Len(a) + Len(b)), i \notin 1 .. Len(a)
      PROVE  (a \o b)[i].check \notin PageCheckNames
  <2>1. i - Len(a) \in 1 .. Len(b) /\ Len(a) + (i - Len(a)) = i
    BY <1>1, <1>3
  <2>2. (a \o b)[Len(a) + (i - Len(a))] = b[i - Len(a)]
    BY <2>1, ConcatIs
  <2> QED
    BY <1>1, <2>1, <2>2
<1>4. OfPageChecks(a \o b) = OfPageChecks(a)
  BY <1>1, <1>2, <1>3 DEF OfPageChecks
<1>5. OfPageChecks(a) \subseteq 1 .. Len(a)
  BY <1>1 DEF OfPageChecks
<1>6. FirstOnes(a \o b) = FirstOnes(a) /\ FirstOnes(a) \subseteq 1 .. Len(a)
  BY <1>2, <1>4, <1>5 DEF FirstOnes, Fp
<1> QED
  BY <1>2, <1>6 DEF OnFindings

\* A finding with a new fingerprint counts one page.
LEMMA NewCounts ==
  ASSUME NEW a, IsSequence(a), IsFiniteSet(OnFindings(a)),
         NEW f, f.check \in PageCheckNames, f.count = 0,
         \A i \in DOMAIN a : Fp(a[i]) # Fp(f)
  PROVE  LET more == OnFindings(Append(a, f))
         IN IsFiniteSet(more) /\ Cardinality(more) = Cardinality(OnFindings(a)) + 1
<1> DEFINE n == Len(a)  b == Append(a, f)
<1>1. n \in Nat /\ DOMAIN a = 1 .. n /\ DOMAIN b = 1 .. (n + 1)
  BY AppendIs, SequenceHas
<1>2. (\A i \in 1 .. n : b[i] = a[i]) /\ b[n + 1] = f
  BY AppendIs
<1>3. 1 .. (n + 1) = (1 .. n) \cup {n + 1} /\ n + 1 \notin 1 .. n
  BY <1>1
<1> HIDE DEF b, n
<1>4. OfPageChecks(b) = OfPageChecks(a) \cup {n + 1} /\ OfPageChecks(a) \subseteq 1 .. n
  BY <1>1, <1>2, <1>3 DEF OfPageChecks
<1>5. FirstOnes(b) = FirstOnes(a) \cup {n + 1} /\ FirstOnes(a) \subseteq 1 .. n
  <2>1. \A i, j \in OfPageChecks(a) : Fp(b[j]) = Fp(a[j]) /\ Fp(b[i]) = Fp(a[i]) /\ Fp(b[j]) # Fp(b[n + 1])
    BY <1>1, <1>2, <1>4
  <2>2. \A i \in OfPageChecks(a) : i \in FirstOnes(b) <=> i \in FirstOnes(a)
    BY <1>4, <2>1 DEF FirstOnes
  <2>3. n + 1 \in FirstOnes(b)
    BY <1>1, <1>4, <2>1 DEF FirstOnes
  <2>4. FirstOnes(a) \subseteq OfPageChecks(a) /\ FirstOnes(b) \subseteq OfPageChecks(b)
    BY DEF FirstOnes
  <2> QED
    BY <1>4, <2>2, <2>3, <2>4
<1>6. Times(f) = 1 /\ 1 .. 1 = {1}
  BY DEF Times
<1>7. OnFindings(b) = OnFindings(a) \cup {<<n + 1, 1>>}
  <2>1. OnFindings(b) = OnFindings(a) \cup ({n + 1} \X (1 .. Times(f)))
    BY <1>2, <1>5 DEF OnFindings
  <2> QED
    BY <1>6, <2>1
<1>8. <<n + 1, 1>> \notin OnFindings(a)
  BY <1>3, <1>5 DEF OnFindings
<1>9. /\ IsFiniteSet(OnFindings(a) \cup {<<n + 1, 1>>})
      /\ Cardinality(OnFindings(a) \cup {<<n + 1, 1>>}) = Cardinality(OnFindings(a)) + 1
  BY <1>8, FS_AddElement
<1> QED
  BY <1>7, <1>9 DEF b

\* One more page for a finding.
LEMMA AgainCounts ==
  ASSUME NEW a, IsSequence(a), IsFiniteSet(OnFindings(a)),
         NEW k \in FirstOnes(a), NEW f, Fp(f) = Fp(a[k]), f.check = a[k].check,
         Times(a[k]) \in Nat, Times(f) = Times(a[k]) + 1
  PROVE  LET more == OnFindings([a EXCEPT ![k] = f])
         IN IsFiniteSet(more) /\ Cardinality(more) = Cardinality(OnFindings(a)) + 1
<1> DEFINE b == [a EXCEPT ![k] = f]
<1>1. k \in DOMAIN a
  BY DEF FirstOnes, OfPageChecks
<1>2. DOMAIN b = DOMAIN a /\ b[k] = f /\ \A i \in DOMAIN a : i # k => b[i] = a[i]
  BY <1>1
<1> HIDE DEF b
<1>3. \A i \in DOMAIN a : Fp(b[i]) = Fp(a[i]) /\ b[i].check = a[i].check
  BY <1>2
<1>4. OfPageChecks(b) = OfPageChecks(a) /\ OfPageChecks(a) \subseteq DOMAIN a
  BY <1>2, <1>3 DEF OfPageChecks
<1>5. FirstOnes(b) = FirstOnes(a) /\ FirstOnes(a) \subseteq DOMAIN a
  BY <1>3, <1>4 DEF FirstOnes
<1> DEFINE t == Times(a[k])
<1>6. t \in Nat /\ 1 .. (t + 1) = (1 .. t) \cup {t + 1} /\ t + 1 \notin 1 .. t
  OBVIOUS
<1>7. OnFindings(b) = OnFindings(a) \cup {<<k, t + 1>>}
  BY <1>2, <1>5, <1>6 DEF OnFindings
<1>8. <<k, t + 1>> \notin OnFindings(a)
  BY <1>5, <1>6 DEF OnFindings
<1>9. /\ IsFiniteSet(OnFindings(a) \cup {<<k, t + 1>>})
      /\ Cardinality(OnFindings(a) \cup {<<k, t + 1>>}) = Cardinality(OnFindings(a)) + 1
  BY <1>8, FS_AddElement
<1> QED
  BY <1>7, <1>9 DEF b

\* Before anything is merged, the findings count what the target's page does.
LEMMA TargetPageCounts ==
  ASSUME NEW a, IsSequence(a), \A i \in DOMAIN a : a[i].count = 0
  PROVE  /\ PageCount(a) \in Nat
         /\ IsFiniteSet(OnFindings(a)) /\ Cardinality(OnFindings(a)) = PageCount(a)
<1> DEFINE fps == {Fp(a[i]) : i \in OfPageChecks(a)}
           g == [x \in OnFindings(a) |-> Fp(a[x[1]])]
<1>1. Len(a) \in Nat /\ DOMAIN a = 1 .. Len(a)
  BY SequenceHas
<1>2. OfPageChecks(a) \subseteq 1 .. Len(a)
  BY <1>1 DEF OfPageChecks
<1>3. \A i \in DOMAIN a : 1 .. Times(a[i]) = {1}
  BY DEF Times
<1>4. FirstOnes(a) \subseteq OfPageChecks(a)
  BY DEF FirstOnes
<1>5. OnFindings(a) = {<<i, 1>> : i \in FirstOnes(a)}
  BY <1>1, <1>2, <1>3, <1>4 DEF OnFindings
<1>6. IsFiniteSet(OnFindings(a))
  <2>1. IsFiniteSet(1 .. Len(a)) /\ IsFiniteSet(FirstOnes(a))
    <3>1. IsFiniteSet(1 .. Len(a))
      BY <1>1, FS_Interval
    <3>2. FirstOnes(a) \in SUBSET (1 .. Len(a))
      BY <1>2, <1>4
    <3> QED
      BY <3>1, <3>2, FS_Subset
  <2>2. [i \in FirstOnes(a) |-> <<i, 1>>] \in Surjection(FirstOnes(a), OnFindings(a))
    BY <1>5 DEF Surjection
  <2> QED
    BY <2>1, <2>2, FS_Surjection
<1>7. g \in [OnFindings(a) -> fps]
  BY <1>4, <1>5
<1>8. \A x, y \in OnFindings(a) : g[x] = g[y] => x = y
  <2>1. \A i, j \in FirstOnes(a) : Fp(a[i]) = Fp(a[j]) => i = j
    BY <1>2, <1>4 DEF FirstOnes
  <2> QED
    BY <1>5, <2>1
<1>9. ASSUME NEW i \in OfPageChecks(a)
      PROVE  \E x \in OnFindings(a) : g[x] = Fp(a[i])
  <2> DEFINE S == {j \in OfPageChecks(a) : Fp(a[j]) = Fp(a[i])}
  <2>1. S \in SUBSET Nat /\ S # {}
    BY <1>2
  <2>2. PICK m \in S : \A y \in S : m <= y
    BY <2>1, LeastIndex
  <2>3. m \in FirstOnes(a)
    BY <2>2 DEF FirstOnes
  <2>4. <<m, 1>> \in OnFindings(a)
    BY <1>5, <2>3
  <2> QED
    BY <2>2, <2>4
<1>10. g \in Bijection(OnFindings(a), fps)
  BY <1>7, <1>8, <1>9 DEF Bijection, Injection, Surjection, IsInjective
<1>11. ExistsBijection(OnFindings(a), fps)
  BY <1>10 DEF ExistsBijection
<1> QED
  BY <1>6, <1>11, FS_Bijection, FS_CardinalityType DEF PageCount

-----------------------------------------------------------------------------
(* The order of the phases.                                                 *)

LEMMA PhaseTable ==
  /\ DOMAIN Phases = 1 .. 13 /\ Len(Phases) = 13
  /\ Phases[1] = "headers" /\ Phases[2] = "start-hsts" /\ Phases[3] = "cookies"
  /\ Phases[4] = "page" /\ Phases[5] = "tls" /\ Phases[6] = "redirect"
  /\ Phases[7] = "cors" /\ Phases[8] = "profile" /\ Phases[9] = "paths"
  /\ Phases[10] = "listing" /\ Phases[11] = "robots" /\ Phases[12] = "crawl"
  /\ Phases[13] = "finish"
BY DEF Phases

LEMMA PhasesDiffer ==
  ASSUME NEW i \in 1 .. 13, NEW j \in 1 .. 13, Phases[i] = Phases[j]
  PROVE  i = j
<1>1. /\ i \in {1, 2, 3, 4, 5, 6, 7, 8, 9, 10, 11, 12, 13}
      /\ j \in {1, 2, 3, 4, 5, 6, 7, 8, 9, 10, 11, 12, 13}
  OBVIOUS
<1> QED
  BY <1>1, PhaseTable

\* The page of the target and the end are in every scan.
LEMMA AlwaysApply ==
  ASSUME NEW at
  PROVE  Applies("page", at) /\ Applies("finish", at)
BY DEF Applies

\* The next phase applies and lies ahead; that of the target's page is not skipped.
LEMMA PhaseFromSays ==
  ASSUME NEW at, NEW n \in 1 .. 13
  PROVE  \E m \in n .. 13 : /\ PhaseFrom(n, at) = Phases[m] /\ Applies(Phases[m], at)
                            /\ n <= 4 => m <= 4
<1> DEFINE Fits(i) == Applies(Phases[i], at) /\ \A j \in n .. i - 1 : ~Applies(Phases[j], at)
           S == {i \in n .. 13 : Applies(Phases[i], at)}
<1>1. S \in SUBSET Nat /\ 13 \in S
  BY AlwaysApply, PhaseTable
<1>2. PICK m \in S : \A y \in S : m <= y
  BY <1>1, LeastIndex
<1>3. m \in n .. 13 /\ Fits(m)
  BY <1>1, <1>2
<1> DEFINE c == CHOOSE i \in n .. 13 : Fits(i)
<1> HIDE DEF Fits
<1>4. c \in n .. 13 /\ Fits(c)
  BY <1>3
<1> USE DEF Fits
<1>5. PhaseFrom(n, at) = Phases[c]
  BY PhaseTable DEF PhaseFrom
<1>6. n <= 4 => c <= 4
  BY <1>4, AlwaysApply, PhaseTable
<1> QED
  BY <1>4, <1>5, <1>6

LEMMA FollowingSays ==
  ASSUME NEW at, NEW n \in 1 .. 12
  PROVE  \E m \in n + 1 .. 13 : /\ Following(Phases[n], at) = Phases[m]
                                /\ Applies(Phases[m], at)
                                /\ n < 4 => m <= 4
<1> DEFINE c == CHOOSE i \in DOMAIN Phases : Phases[i] = Phases[n]
<1>1. c = n
  BY PhaseTable, PhasesDiffer
<1>2. Following(Phases[n], at) = PhaseFrom(1 + n, at)
  BY <1>1 DEF Following
<1>3. 1 + n \in 1 .. 13
  OBVIOUS
<1> QED
  BY <1>2, <1>3, PhaseFromSays

LEMMA GroupsOfChecks ==
  /\ GroupOfCheck("security-headers") = "headers"
  /\ GroupOfCheck("hsts-start-host") = "headers"
  /\ GroupOfCheck("cookies") = "cookies"
  /\ GroupOfCheck("tls") = "tls"
  /\ GroupOfCheck("http-to-https-redirect") = "https_redirect"
  /\ GroupOfCheck("cors") = "cors"
  /\ GroupOfCheck("sensitive-paths") = "exposed_files"
  /\ GroupOfCheck("directory-listing") = "directory_listing"
  /\ GroupOfCheck("robots-sitemap") = "robots_sitemap"
BY DEF GroupOfCheck, GroupIds, ChecksOf

-----------------------------------------------------------------------------
(* What the checks return.                                                  *)

LEMMA ImageFinite ==
  ASSUME NEW S, IsFiniteSet(S), NEW g
  PROVE  IsFiniteSet({g[x] : x \in S})
<1>1. [x \in S |-> g[x]] \in Surjection(S, {g[x] : x \in S})
  BY DEF Surjection
<1> QED
  BY <1>1, FS_Surjection

\* One finding at most.
LEMMA OneFinite ==
  ASSUME NEW S, NEW f, S \subseteq {f}
  PROVE  IsFiniteSet(S)
BY FS_Singleton, FS_Subset

LEMMA SixFinite ==
  ASSUME NEW a, NEW b, NEW c, NEW d, NEW e, NEW f
  PROVE  IsFiniteSet({a, b, c, d, e, f})
<1>2. IsFiniteSet({a} \cup {b})
  BY FS_Singleton, FS_AddElement
<1>3. IsFiniteSet({a, b} \cup {c})
  <2>1. {a} \cup {b} = {a, b}
    OBVIOUS
  <2> QED
    BY <1>2, <2>1, FS_AddElement
<1>4. IsFiniteSet({a, b, c} \cup {d})
  <2>1. {a, b} \cup {c} = {a, b, c}
    OBVIOUS
  <2> QED
    BY <1>3, <2>1, FS_AddElement
<1>5. IsFiniteSet({a, b, c, d} \cup {e})
  <2>1. {a, b, c} \cup {d} = {a, b, c, d}
    OBVIOUS
  <2> QED
    BY <1>4, <2>1, FS_AddElement
<1>6. IsFiniteSet({a, b, c, d, e} \cup {f})
  <2>1. {a, b, c, d} \cup {e} = {a, b, c, d, e}
    OBVIOUS
  <2> QED
    BY <1>5, <2>1, FS_AddElement
<1>7. {a, b, c, d, e} \cup {f} = {a, b, c, d, e, f}
  OBVIOUS
<1> QED
  BY <1>6, <1>7

LEMMA SecurityHeadersSay ==
  ASSUME NEW page
  PROVE  /\ IsFiniteSet(SecurityHeaders(page))
         /\ \A f \in SecurityHeaders(page) : f.id \in PageIds
<1> DEFINE Names == {"strict-transport-security", "content-security-policy",
                     "x-content-type-options", "x-frame-options", "referrer-policy",
                     "permissions-policy"}
           missing == Expected(page) \ page.headers
           leaks == InfoLeakHeaders \cap page.headers
           m == [h \in missing |-> Finding("HDR-MISSING", h, RequiredSeverity[h])]
           l == [h \in leaks |-> Finding("HDR-INFO", h, "INFO")]
           A == {Finding("HDR-MISSING", h, RequiredSeverity[h]) : h \in missing}
           B == {f \in {Finding("HDR-XFO-WEAK", "x-frame-options", "LOW")} :
                   /\ "x-frame-options" \in page.headers /\ "odd-frame-option" \in page.values
                   /\ ~FrameAncestors(page)}
           C == {f \in {Finding("HDR-CSP-UNSAFE", "content-security-policy", "MEDIUM")} :
                   "content-security-policy" \in page.headers /\ "unsafe-csp" \in page.values}
           D == {f \in {Finding("HDR-XXP-LEGACY", "x-xss-protection", "INFO")} :
                   "x-xss-protection" \in page.headers /\ "xss-filter-on" \in page.values}
           E == {Finding("HDR-INFO", h, "INFO") : h \in leaks}
<1>1. IsFiniteSet(missing)
  <2>1. DOMAIN RequiredSeverity = Names
    BY DEF RequiredSeverity
  <2>2. IsFiniteSet(Names)
    BY SixFinite
  <2>3. missing \in SUBSET Names
    BY <2>1 DEF Expected
  <2> QED
    BY <2>2, <2>3, FS_Subset
<1>2. IsFiniteSet(leaks)
  <2>1. InfoLeakHeaders = {"server", "x-powered-by", "x-aspnet-version", "x-aspnetmvc-version",
                           "server", "server"}
    BY DEF InfoLeakHeaders
  <2>2. IsFiniteSet(InfoLeakHeaders)
    BY <2>1, SixFinite
  <2> QED
    BY <2>2, FS_Subset
<1>3. IsFiniteSet(A)
  <2>1. A = {m[h] : h \in missing}
    OBVIOUS
  <2> HIDE DEF A, m, missing
  <2> QED
    BY <1>1, <2>1, ImageFinite
<1>4. IsFiniteSet(E)
  <2>1. E = {l[h] : h \in leaks}
    OBVIOUS
  <2> HIDE DEF E, l, leaks
  <2> QED
    BY <1>2, <2>1, ImageFinite
<1>5. IsFiniteSet(B) /\ IsFiniteSet(C) /\ IsFiniteSet(D)
  BY OneFinite
<1>6. /\ \A f \in A : f.id = "HDR-MISSING"
      /\ \A f \in B : f.id = "HDR-XFO-WEAK"
      /\ \A f \in C : f.id = "HDR-CSP-UNSAFE"
      /\ \A f \in D : f.id = "HDR-XXP-LEGACY"
      /\ \A f \in E : f.id = "HDR-INFO"
  BY DEF Finding
<1>7. SecurityHeaders(page) = A \cup B \cup C \cup D \cup E
  BY DEF SecurityHeaders
<1> HIDE DEF A, B, C, D, E
<1>8. IsFiniteSet(A \cup B \cup C \cup D \cup E)
  BY <1>3, <1>4, <1>5, FS_Union
<1> QED
  BY <1>6, <1>7, <1>8 DEF PageIds

LEMMA CookiesSay ==
  ASSUME NEW c, IsFiniteSet(DOMAIN c)
  PROVE  /\ IsSequence(Cookies(c))
         /\ \A i \in DOMAIN Cookies(c) : Cookies(c)[i].id \in PageIds
<1> DEFINE judged == {i \in DOMAIN c : c[i].name # NoAnswer /\ CookieMissing(c[i]) # {}}
           Nth(n) == c[CHOOSE i \in judged : Cardinality({j \in judged : j <= i}) = n]
           G(n) == Finding("COOKIE-FLAGS-MISSING", Nth(n).name, CookieSeverity(Nth(n)))
<1>1. Cardinality(judged) \in Nat
  BY FS_Subset, FS_CardinalityType
<1>2. \A n : G(n).id = "COOKIE-FLAGS-MISSING"
  BY DEF Finding
<1>3. Cookies(c) = [n \in 1 .. Cardinality(judged) |-> G(n)]
  BY DEF Cookies
<1> HIDE DEF G, Nth, judged
<1>4. /\ Cookies(c) = [n \in 1 .. Cardinality(judged) |-> Cookies(c)[n]]
      /\ \A i \in DOMAIN Cookies(c) : Cookies(c)[i].id = "COOKIE-FLAGS-MISSING"
  BY <1>2, <1>3
<1>5. IsSequence(Cookies(c))
  BY <1>1, <1>4, SequenceIs
<1> QED
  BY <1>4, <1>5 DEF PageIds

\* The other checks: what they find is none of what a page check finds.
Foreign(S) == IsFiniteSet(S) /\ \A f \in S : f.id \notin PageIds

LEMMA ForeignOne ==
  ASSUME NEW f, f.id \notin PageIds
  PROVE  Foreign({f}) /\ Foreign({})
<1>1. IsFiniteSet({f}) /\ IsFiniteSet({})
  BY FS_Singleton, FS_EmptySet
<1> QED
  BY <1>1 DEF Foreign

LEMMA StartHostSays ==
  ASSUME NEW answer
  PROVE  Foreign(StartHostHsts(answer))
<1>1. IsFiniteSet(StartHostHsts(answer))
  BY FS_Singleton, FS_EmptySet DEF StartHostHsts
<1> QED
  BY <1>1 DEF Foreign, StartHostHsts, Finding, PageIds

LEMMA CorsSays ==
  ASSUME NEW answer
  PROVE  Foreign(Cors(answer))
<1> DEFINE A == {Finding("CORS-WILDCARD-WITH-CREDENTIALS", "site", "MEDIUM")}
           B == {Finding("CORS-REFLECTS-ARBITRARY-ORIGIN", "site",
                         IF answer.credentials THEN "HIGH" ELSE "MEDIUM")}
           C == {Finding("CORS-WILDCARD", "site", "INFO")}
<1>1. \A severity : /\ Finding("CORS-WILDCARD-WITH-CREDENTIALS", "site", severity).id \notin PageIds
                    /\ Finding("CORS-REFLECTS-ARBITRARY-ORIGIN", "site", severity).id \notin PageIds
                    /\ Finding("CORS-WILDCARD", "site", severity).id \notin PageIds
  BY DEF Finding, PageIds
<1>2. Foreign(A) /\ Foreign(B) /\ Foreign(C) /\ Foreign({})
  BY <1>1, ForeignOne
<1>3. Cors(answer) \in {A, B, C, {}}
  BY DEF Cors
<1> QED
  BY <1>2, <1>3

LEMMA RedirectSays ==
  ASSUME NEW hops, NEW n, NEW chain
  PROVE  Foreign(HttpToHttpsRedirect(hops, n)) /\ Foreign(EvaluateRedirectChain(chain))
<1>1. Finding("TLS-NO-HTTPS-REDIRECT", "site", "HIGH").id \notin PageIds
  BY DEF Finding, PageIds
<1>2. Foreign(NoHttpsRedirect) /\ Foreign({})
  BY <1>1, ForeignOne DEF NoHttpsRedirect
<1> QED
  BY <1>2 DEF HttpToHttpsRedirect, EvaluateRedirectChain

LEMMA PathsSay ==
  ASSUME NEW answerOf, IsFiniteSet(DOMAIN answerOf), NEW known, NEW severityOf
  PROVE  /\ Foreign(SensitivePaths(answerOf, known, severityOf))
         /\ Foreign(DirectoryListing(answerOf, known))
<1> DEFINE S == {p \in DOMAIN answerOf : FileFound(answerOf[p], known)}
           T == {p \in DOMAIN answerOf :
                   /\ Answered(answerOf[p]) /\ answerOf[p].status = 200
                   /\ ~LooksMissing(answerOf[p], known)
                   /\ "listing" \in answerOf[p].looks}
           s == [p \in S |-> Finding("EXPOSURE", p, severityOf[p])]
           t == [p \in T |-> Finding("EXPOSURE-DIR-LISTING", p, "MEDIUM")]
<1>1. IsFiniteSet(S) /\ IsFiniteSet(T)
  BY FS_Subset
<1>2. SensitivePaths(answerOf, known, severityOf) = {s[p] : p \in S}
  BY DEF SensitivePaths
<1>3. DirectoryListing(answerOf, known) = {t[p] : p \in T}
  BY DEF DirectoryListing
<1>4. /\ \A p \in S : s[p].id = "EXPOSURE"
      /\ \A p \in T : t[p].id = "EXPOSURE-DIR-LISTING"
  BY DEF Finding
<1> HIDE DEF s, t, S, T
<1>5. IsFiniteSet({s[p] : p \in S}) /\ IsFiniteSet({t[p] : p \in T})
  BY <1>1, ImageFinite
<1> QED
  BY <1>2, <1>3, <1>4, <1>5 DEF Foreign, PageIds

LEMMA RobotsSay ==
  ASSUME NEW robots, NEW sitemap
  PROVE  Foreign(RobotsAndSitemap(robots, sitemap))
<1> DEFINE A == Hints(robots, "EXPOSURE-ROBOTS-HINTS", "robots.txt")
           B == Hints(sitemap, "EXPOSURE-SITEMAP-HINTS", "sitemap.xml")
<1>1. IsFiniteSet(A) /\ IsFiniteSet(B)
  BY FS_Singleton, FS_EmptySet DEF Hints
<1>2. IsFiniteSet(A \cup B)
  BY <1>1, FS_Union
<1>3. \A f \in A \cup B : f.id \in {"EXPOSURE-ROBOTS-HINTS", "EXPOSURE-SITEMAP-HINTS"}
  BY DEF Hints, Finding
<1> QED
  BY <1>2, <1>3 DEF RobotsAndSitemap, Foreign, PageIds

-----------------------------------------------------------------------------
(* Adding findings.                                                         *)

\* What a check returned fits the check.
Fits(check, found) ==
  /\ IsSequence(found)
  /\ \A i \in DOMAIN found : check \in PageCheckNames <=> found[i].id \in PageIds

LEMMA ForeignFits ==
  ASSUME NEW S, Foreign(S), NEW check, check \notin PageCheckNames
  PROVE  Fits(check, SetToSeq(S))
BY SetToSeqIs DEF Foreign, Fits

LEMMA EnrichedSays ==
  ASSUME NEW f, NEW check, NEW url, check \in PageCheckNames <=> f.id \in PageIds
  PROVE  LET e == Enriched(f, check, url)
         IN IsFound(e) /\ e.count = 0 /\ e.check = check /\ e.id = f.id /\ Fp(e) = Fp(f)
<1>1. IsSequence(<<>>)
  BY DEF IsSequence
<1> QED
  BY <1>1 DEF Enriched, IsFound, FoundFields, Fp

\* The findings of a check as they are added.
LEMMA BatchSays ==
  ASSUME NEW check, NEW found, NEW url, Fits(check, found)
  PROVE  LET batch == [i \in DOMAIN found |-> Enriched(found[i], check, url)]
         IN /\ IsSequence(batch) /\ DOMAIN batch = DOMAIN found
            /\ \A i \in DOMAIN batch : /\ IsFound(batch[i]) /\ batch[i].count = 0
                                       /\ batch[i].check = check /\ batch[i].id = found[i].id
                                       /\ Fp(batch[i]) = Fp(found[i])
<1> DEFINE batch == [i \in DOMAIN found |-> Enriched(found[i], check, url)]
<1>1. /\ Len(found) \in Nat /\ DOMAIN found = 1 .. Len(found)
      /\ batch = [i \in 1 .. Len(found) |-> batch[i]]
  BY SequenceHas DEF Fits
<1>2. IsSequence(batch)
  BY <1>1, SequenceIs
<1>3. \A i \in DOMAIN found : /\ IsFound(batch[i]) /\ batch[i].count = 0
                              /\ batch[i].check = check /\ batch[i].id = found[i].id
                              /\ Fp(batch[i]) = Fp(found[i])
  BY EnrichedSays DEF Fits
<1> QED
  BY <1>2, <1>3

\* A finding that gains a page.
LEMMA RecordUrlSays ==
  ASSUME NEW f, IsFound(f), NEW url
  PROVE  LET g == RecordUrl(f, url)
         IN IsFound(g) /\ Fp(g) = Fp(f) /\ g.check = f.check /\ g.count > 0
            /\ Times(f) \in Nat /\ Times(g) = Times(f) + 1
<1> DEFINE list == IF f.urls = <<>> THEN <<f.path>> ELSE f.urls
           grown == IF Len(list) < MaxAffectedUrls THEN Append(list, url) ELSE list
           n == 1 + IF f.urls = <<>> THEN 1 ELSE f.count
           g == RecordUrl(f, url)
<1>1. IsSequence(list) /\ list # <<>>
  <2>1. <<f.path>> \in Seq({f.path}) /\ <<f.path>> # <<>>
    OBVIOUS
  <2> QED
    BY <2>1, InSeqIs DEF IsFound
<1>2. IsSequence(grown) /\ grown # <<>>
  BY <1>1, AppendIs, SequenceHas
<1>3. g = [f EXCEPT !.count = n, !.urls = grown]
  BY DEF RecordUrl
<1>4. n \in Nat /\ n > 1 /\ n = Times(f) + 1 /\ Times(f) \in Nat
  BY DEF IsFound, Times
<1> HIDE DEF grown, n, g
<1>5. /\ DOMAIN g = DOMAIN f /\ g.count = n /\ g.urls = grown
      /\ g.id = f.id /\ g.key = f.key /\ g.check = f.check
  BY <1>3 DEF IsFound, FoundFields
<1>6. IsFound(g) /\ Fp(g) = Fp(f) /\ Times(g) = n
  BY <1>2, <1>4, <1>5 DEF IsFound, Fp, Times
<1> QED
  BY <1>4, <1>5, <1>6 DEF g

\* Merging a finding of a page: it is in the result, the others stay, and together
\* the findings count one page more.
LEMMA MergeSays ==
  ASSUME NEW a, IsSequence(a), \A i \in DOMAIN a : IsFound(a[i]),
         NEW f, IsFound(f), f.count = 0, f.id \in PageIds, NEW url
  PROVE  LET b == Merge(a, f, url)
         IN /\ IsSequence(b) /\ \A i \in DOMAIN b : IsFound(b[i])
            /\ {Fp(b[i]) : i \in DOMAIN b} = {Fp(a[i]) : i \in DOMAIN a} \cup {Fp(f)}
            /\ IsFiniteSet(OnFindings(a)) =>
                 /\ IsFiniteSet(OnFindings(b))
                 /\ Cardinality(OnFindings(b)) = Cardinality(OnFindings(a)) + 1
<1> DEFINE same == {i \in DOMAIN a : Fp(a[i]) = Fp(f)}
           b == Merge(a, f, url)
<1>1. Len(a) \in Nat /\ DOMAIN a = 1 .. Len(a) /\ a = [i \in 1 .. Len(a) |-> a[i]]
  BY SequenceHas
<1>2. CASE same = {}
  <2>1. b = Append(a, f)
    BY <1>2 DEF Merge
  <2>2. /\ IsSequence(b) /\ DOMAIN b = (1 .. Len(a)) \cup {Len(a) + 1}
        /\ (\A i \in 1 .. Len(a) : b[i] = a[i]) /\ b[Len(a) + 1] = f
    BY <1>1, <2>1, AppendIs, SequenceHas
  <2>3. f.check \in PageCheckNames
    BY DEF IsFound
  <2>4. IsFiniteSet(OnFindings(a)) =>
          /\ IsFiniteSet(OnFindings(b))
          /\ Cardinality(OnFindings(b)) = Cardinality(OnFindings(a)) + 1
    BY <1>2, <2>1, <2>3, NewCounts
  <2> HIDE DEF b
  <2>5. {Fp(b[i]) : i \in DOMAIN b} = {Fp(a[i]) : i \in DOMAIN a} \cup {Fp(f)}
    BY <1>1, <2>2
  <2> QED
    BY <1>1, <2>2, <2>4, <2>5 DEF b
<1>3. CASE same # {}
  <2> DEFINE k == CHOOSE i \in same : \A j \in same : i <= j
  <2>1. k \in same /\ \A j \in same : k <= j
    <3>1. \E m \in same : \A y \in same : m <= y
      <4>1. same \in SUBSET Nat
        BY <1>1
      <4> HIDE DEF same
      <4> QED
        BY <1>3, <4>1, LeastIndex
    <3> QED
      BY <3>1
  <2> DEFINE g == RecordUrl(a[k], url)
  <2>2. b = [a EXCEPT ![k] = g]
    BY <1>3 DEF Merge
  <2>3. /\ IsFound(g) /\ Fp(g) = Fp(a[k]) /\ g.check = a[k].check
        /\ Times(a[k]) \in Nat /\ Times(g) = Times(a[k]) + 1
    BY <2>1, RecordUrlSays
  <2>4. \A i \in same : a[i].check \in PageCheckNames
    BY DEF IsFound, Fp
  <2>5. k \in FirstOnes(a)
    BY <2>1, <2>4 DEF FirstOnes, OfPageChecks
  <2>6. IsFiniteSet(OnFindings(a)) =>
          /\ IsFiniteSet(OnFindings(b))
          /\ Cardinality(OnFindings(b)) = Cardinality(OnFindings(a)) + 1
    BY <2>2, <2>3, <2>5, AgainCounts
  <2> HIDE DEF g, k
  <2>7. /\ DOMAIN b = DOMAIN a /\ b[k] = g /\ k \in DOMAIN a
        /\ \A i \in DOMAIN a : i # k => b[i] = a[i]
        /\ b = [i \in 1 .. Len(a) |-> b[i]]
    BY <1>1, <2>1, <2>2
  <2> HIDE DEF b
  <2>8. IsSequence(b)
    BY <1>1, <2>7, SequenceIs
  <2>9. \A i \in DOMAIN a : Fp(b[i]) = Fp(a[i])
    BY <2>3, <2>7
  <2>10. {Fp(b[i]) : i \in DOMAIN b} = {Fp(a[i]) : i \in DOMAIN a} \cup {Fp(f)}
    BY <2>1, <2>7, <2>9
  <2> QED
    BY <2>3, <2>6, <2>7, <2>8, <2>10 DEF b
<1> QED
  BY <1>2, <1>3

-----------------------------------------------------------------------------
(* How each part of the invariant is kept.                                  *)

\* A scan that has not begun.
Fresh == landed = NotLanded /\ crawled = <<>> /\ pending = <<>> /\ met = {}
         /\ result = NoResult(options.groups) /\ seen = {}

LEMMA FreshSays ==
  ASSUME Fresh, options \in Options, codes \in Seq({0, 1, 3}), phase \in {"parse", "fetch"}
  PROVE  Shape /\ InHand /\ Course /\ Kept /\ Accounts
<1>1. IsSequence(<<>>) /\ ToSet(<<>>) = {} /\ DOMAIN <<>> = {}
  BY DEF IsSequence, ToSet
<1>2. IsFiniteSet({})
  BY FS_EmptySet
<1>3. /\ DOMAIN result = ResultFields /\ result.findings = <<>> /\ result.pages = <<>>
      /\ result.ran = {}
  BY DEF Fresh, NoResult, ResultFields
<1>4. landed.cookies = <<>>
  BY DEF Fresh, NotLanded
<1>5. Shape
  BY <1>1, <1>2, <1>3, <1>4 DEF Shape
<1>6. InHand
  BY <1>1, <1>2 DEF InHand, Fresh
<1>7. phase \notin SitePhases
  <2>1. \A n \in 1 .. 13 : n \in {1, 2, 3, 4, 5, 6, 7, 8, 9, 10, 11, 12, 13}
    OBVIOUS
  <2> QED
    BY <2>1, PhaseTable DEF SitePhases
<1>8. Course
  BY <1>3, <1>7 DEF Course, Before, After, Fresh
<1> QED
  BY <1>1, <1>3, <1>5, <1>6, <1>8 DEF Kept, Accounts, Fresh

LEMMA FreshLater ==
  ASSUME Fresh', (options \in Options)', (codes \in Seq({0, 1, 3}))',
         (phase \in {"parse", "fetch"})'
  PROVE  Shape' /\ InHand' /\ Course' /\ Kept' /\ Accounts'
BY FreshSays, PTL

\* Only the end of a target changes what the report and the codes say.
LEMMA MainKept ==
  ASSUME CommandInv, UNCHANGED mainVars, phase' \notin {"write", "ended"}
  PROVE  Reported' /\ Worst'
BY DEF CommandInv, Worst, Reported, mainVars

\* The next phase of run_scan.
LEMMA Proceeding ==
  ASSUME CommandInv, NEW n \in 1 .. 12, phase = Phases[n], Proceed, landed' = landed,
         IF n = 4 THEN result'.pages # <<>> ELSE result'.pages = result.pages
  PROVE  Course' /\ Reported' /\ Worst' /\ phase' \in SitePhases /\ phase' # "merge"
<1>1. options' = options /\ UNCHANGED mainVars
  BY DEF Proceed, mainVars
<1>2. PICK m \in n + 1 .. 13 : /\ phase' = Phases[m] /\ Applies(Phases[m], landed)
                               /\ n < 4 => m <= 4
  BY FollowingSays DEF Proceed
<1>3. Applies(phase, landed)'
  BY <1>1, <1>2 DEF Applies, Want
<1>4. phase' \in SitePhases
  BY <1>2 DEF SitePhases
<1>5. CASE n < 4
  <2>1. m \in {2, 3, 4} /\ n \in {1, 2, 3}
    BY <1>2, <1>5
  <2>2. phase' \in {"start-hsts", "cookies", "page"}
    BY <1>2, <2>1, PhaseTable
  <2>3. result'.pages = <<>>
    BY <1>5, <2>1, PhaseTable DEF CommandInv, Course, Before
  <2> QED
    BY <1>1, <1>3, <1>4, <2>2, <2>3, MainKept DEF Course, Before, After
<1>6. CASE n >= 4
  <2>1. m \in {5, 6, 7, 8, 9, 10, 11, 12, 13} /\ n \in {4, 5, 6, 7, 8, 9, 10, 11, 12}
    BY <1>2, <1>6
  <2>2. phase' \in {"tls", "redirect", "cors", "profile", "paths", "listing", "robots", "crawl",
                    "finish"}
    BY <1>2, <2>1, PhaseTable
  <2>3. result'.pages # <<>>
    BY <2>1, PhaseTable DEF CommandInv, Course, After
  <2> QED
    BY <1>1, <1>3, <1>4, <2>2, <2>3, MainKept DEF Course, Before, After
<1> QED
  BY <1>5, <1>6

\* A step that leaves findings and pages as they are.
LEMMA FindingsKept ==
  ASSUME CommandInv, options' = options, codes' = codes, seen' = seen,
         DOMAIN result' = ResultFields,
         result'.findings = result.findings, result'.pages = result.pages,
         \A c \in result'.ran : GroupOfCheck(c) \in options.groups,
         IsFiniteSet(DOMAIN landed'.cookies),
         phase # "merge", phase' = "merge" => met' = {}
  PROVE  Shape' /\ Kept' /\ Accounts'
<1>1. Shape' /\ Kept'
  BY DEF CommandInv, Shape, Kept
<1>2. Cardinality({}) = 0
  BY FS_EmptySet
<1>3. result.pages # <<>> => Cardinality(OnPages(result.pages)) \in Nat
  BY FS_CardinalityType DEF CommandInv, Accounts
<1>4. Accounts'
  BY <1>2, <1>3 DEF CommandInv, Accounts
<1> QED
  BY <1>1, <1>4

LEMMA HandKept ==
  ASSUME CommandInv, UNCHANGED crawlVars, phase' # "merge"
  PROVE  InHand'
BY DEF CommandInv, InHand, crawlVars

\* Findings of a check are added at the end, or nothing is.
LEMMA RunCheckKeeps ==
  ASSUME CommandInv, NEW check, NEW url, NEW found, NEW answered,
         RunCheck(check, url, found, answered), options' = options, codes' = codes,
         Fits(check, found), GroupOfCheck(check) \in options.groups,
         result.pages # <<>> => check \notin PageCheckNames,
         phase # "merge", phase' # "merge"
  PROVE  /\ Shape' /\ InHand' /\ Kept' /\ Accounts'
         /\ result'.pages = result.pages /\ landed' = landed
<1> DEFINE batch == [i \in DOMAIN found |-> Enriched(found[i], check, url)]
           a == result.findings
<1>1. /\ DOMAIN result = ResultFields /\ UNCHANGED crawlVars /\ landed' = landed
      /\ IsFiniteSet(DOMAIN landed.cookies)
  BY DEF CommandInv, Shape, RunCheck, crawlVars
<1>2. \A c \in result.ran \cup {check} : GroupOfCheck(c) \in options.groups
  BY DEF CommandInv, Kept
<1>3. CASE result' = [result EXCEPT !.ran = @ \cup {check}] /\ UNCHANGED seen
  <2>1. /\ DOMAIN result' = ResultFields /\ result'.findings = a /\ result'.pages = result.pages
        /\ result'.ran = result.ran \cup {check}
    BY <1>1, <1>3 DEF ResultFields
  <2> QED
    BY <1>1, <1>2, <1>3, <2>1, FindingsKept, HandKept
<1>4. CASE /\ result' = [result EXCEPT !.ran = @ \cup {check}, !.findings = @ \o batch]
           /\ seen' = seen \cup Sightings(found)
  <2>1. /\ DOMAIN result' = ResultFields /\ result'.findings = a \o batch
        /\ result'.pages = result.pages /\ result'.ran = result.ran \cup {check}
    BY <1>1, <1>4 DEF ResultFields
  <2>2. /\ IsSequence(batch) /\ DOMAIN batch = DOMAIN found
        /\ \A i \in DOMAIN batch : /\ IsFound(batch[i]) /\ batch[i].count = 0
                                   /\ batch[i].check = check /\ Fp(batch[i]) = Fp(found[i])
    BY BatchSays
  <2> HIDE DEF batch
  <2>3. IsSequence(a) /\ \A i \in DOMAIN a : IsFound(a[i])
    BY DEF CommandInv, Shape
  <2> HIDE DEF a
  <2>4. /\ IsSequence(a \o batch)
        /\ Len(a) \in Nat /\ DOMAIN a = 1 .. Len(a)
        /\ Len(batch) \in Nat /\ DOMAIN batch = 1 .. Len(batch)
        /\ DOMAIN (a \o batch) = 1 .. (Len(a) + Len(batch))
        /\ \A i \in DOMAIN a : (a \o batch)[i] = a[i]
        /\ \A i \in DOMAIN batch : (a \o batch)[Len(a) + i] = batch[i]
    <3>1. /\ IsSequence(a \o batch) /\ Len(a \o batch) = Len(a) + Len(batch)
          /\ \A i \in 1 .. Len(a) : (a \o batch)[i] = a[i]
          /\ \A i \in 1 .. Len(batch) : (a \o batch)[Len(a) + i] = batch[i]
      BY <2>2, <2>3, ConcatIs
    <3>2. Len(a) \in Nat /\ DOMAIN a = 1 .. Len(a)
      BY <2>3, SequenceHas
    <3>3. Len(batch) \in Nat /\ DOMAIN batch = 1 .. Len(batch)
      BY <2>2, SequenceHas
    <3>4. DOMAIN (a \o batch) = 1 .. Len(a \o batch)
      BY <3>1, SequenceHas
    <3> QED
      BY <3>1, <3>2, <3>3, <3>4
  <2>5. ASSUME NEW i \in DOMAIN (a \o batch)
        PROVE  \/ i \in DOMAIN a /\ (a \o batch)[i] = a[i]
               \/ \E j \in DOMAIN batch : (a \o batch)[i] = batch[j]
    <3>1. i \in DOMAIN a \/ (i - Len(a) \in DOMAIN batch /\ Len(a) + (i - Len(a)) = i)
      BY <2>4
    <3> QED
      BY <2>4, <3>1
  <2>6. ASSUME NEW j \in DOMAIN batch
        PROVE  Len(a) + j \in DOMAIN (a \o batch)
    BY <2>4
  <2> USE DEF a
  <2>7. Shape'
    BY <1>1, <2>1, <2>2, <2>3, <2>4, <2>5 DEF CommandInv, Shape
  <2>8. Kept'
    <3>1. \A i \in DOMAIN a : i \in DOMAIN (a \o batch)
      BY <2>4
    <3>2. \A s \in seen : \E i \in DOMAIN (a \o batch) : s = Fp((a \o batch)[i])
      BY <2>4, <3>1 DEF CommandInv, Kept
    <3>3. \A s \in Sightings(found) : \E i \in DOMAIN (a \o batch) : s = Fp((a \o batch)[i])
      BY <2>2, <2>4, <2>6 DEF Sightings
    <3> QED
      BY <1>2, <1>4, <2>1, <3>2, <3>3 DEF Kept
  <2>9. Accounts'
    <3>1. CASE result.pages = <<>>
      BY <2>1, <2>2, <2>5, <3>1 DEF CommandInv, Accounts
    <3>2. CASE result.pages # <<>>
      <4>1. OnFindings(a \o batch) = OnFindings(a)
        BY <2>2, <2>3, <3>2, OthersDoNotCount
      <4> QED
        BY <2>1, <3>2, <4>1 DEF CommandInv, Accounts
    <3> QED
      BY <3>1, <3>2
  <2> QED
    BY <1>1, <2>1, <2>7, <2>8, <2>9, HandKept
<1> QED
  BY <1>3, <1>4 DEF RunCheck

\* A whole phase that runs a check.
LEMMA CheckKeeps ==
  ASSUME CommandInv, NEW n \in (1 .. 11) \ {4}, NEW check, NEW found, NEW answered,
         Check(Phases[n], check, found, answered),
         Fits(check, found), GroupOfCheck(check) \in options.groups,
         n > 4 => check \notin PageCheckNames
  PROVE  CommandInv'
<1>1. phase = Phases[n] /\ RunCheck(check, "site", found, answered) /\ Proceed
  BY DEF Check
<1>2. options' = options /\ codes' = codes
  BY <1>1 DEF Proceed, mainVars
<1>3. n \in {1, 2, 3, 5, 6, 7, 8, 9, 10, 11}
  OBVIOUS
<1>4. phase # "merge" /\ (n < 4 => result.pages = <<>>)
  BY <1>1, <1>3, PhaseTable DEF CommandInv, Course, Before
<1>5. phase' # "merge"
  <2>1. PICK m \in n + 1 .. 13 : phase' = Phases[m]
    BY <1>1, FollowingSays DEF Proceed
  <2>2. m \in {2, 3, 4, 5, 6, 7, 8, 9, 10, 11, 12, 13}
    OBVIOUS
  <2> QED
    BY <2>1, <2>2, PhaseTable
<1>6. result.pages # <<>> => check \notin PageCheckNames
  BY <1>3, <1>4
<1>7. /\ Shape' /\ InHand' /\ Kept' /\ Accounts'
      /\ result'.pages = result.pages /\ landed' = landed
  BY <1>1, <1>2, <1>4, <1>5, <1>6, RunCheckKeeps
<1>8. Course' /\ Reported' /\ Worst'
  BY <1>1, <1>7, Proceeding
<1> QED
  BY <1>7, <1>8 DEF CommandInv

\* A phase of run_scan was entered because it applies.
LEMMA Entered ==
  ASSUME CommandInv, NEW n \in 1 .. 13, phase = Phases[n]
  PROVE  Applies(phase, landed)
BY DEF CommandInv, Course, SitePhases

\* The phases that are no part of what follows a baseline.
LEMMA NotSite ==
  \A p \in {"parse", "fetch", "tls-only", "judge", "merge", "write", "ended"} : p \notin SitePhases
<1>1. \A n \in 1 .. 13 : n \in {1, 2, 3, 4, 5, 6, 7, 8, 9, 10, 11, 12, 13}
  OBVIOUS
<1> QED
  BY <1>1, PhaseTable DEF SitePhases

\* The scan of a target may end early.
LEMMA Finishing ==
  ASSUME CommandInv, UNCHANGED mainVars, phase' = "finish"
  PROVE  Course' /\ Reported' /\ Worst'
<1>1. Applies(phase, landed)'
  BY DEF Applies
<1>2. Course'
  BY <1>1 DEF Course, Before, After
<1> QED
  BY <1>2, MainKept

-----------------------------------------------------------------------------
(* Every step keeps the invariant: the baseline request.                    *)

LEMMA ParseKeeps ==
  ASSUME CommandInv, Parse
  PROVE  CommandInv'
<1>1. /\ options' = options /\ codes' = codes /\ concern' = concern /\ UNCHANGED scanVars
      /\ phase = "parse"
      /\ (phase' = "ended" /\ exit' = 2) \/ phase' = "fetch"
  BY DEF Parse
<1>2. /\ UNCHANGED crawlVars
      /\ landed' = landed /\ probes' = probes /\ result' = result /\ seen' = seen
  BY <1>1 DEF scanVars
<1>3. DOMAIN result = ResultFields /\ IsFiniteSet(DOMAIN landed.cookies)
      /\ \A c \in result.ran : GroupOfCheck(c) \in options.groups
  BY DEF CommandInv, Shape, Kept
<1>4. Shape' /\ Kept' /\ Accounts'
  BY <1>1, <1>2, <1>3, FindingsKept
<1>5. InHand'
  BY <1>1, <1>2, HandKept
<1>6. Course'
  BY <1>1, <1>2, NotSite DEF CommandInv, Course, Before, After
<1>7. Reported' /\ Worst'
  BY <1>1 DEF CommandInv, Reported, Worst
<1> QED
  BY <1>4, <1>5, <1>6, <1>7 DEF CommandInv

LEMMA FetchFailsKeeps ==
  ASSUME CommandInv, FetchFails
  PROVE  CommandInv'
<1>1. phase = "fetch" /\ phase' = "finish" /\ UNCHANGED scanVars /\ UNCHANGED mainVars
  BY DEF FetchFails
<1>2. /\ UNCHANGED crawlVars /\ options' = options /\ codes' = codes
      /\ landed' = landed /\ result' = result /\ seen' = seen
  BY <1>1 DEF scanVars, mainVars
<1>3. DOMAIN result = ResultFields /\ IsFiniteSet(DOMAIN landed.cookies)
      /\ \A c \in result.ran : GroupOfCheck(c) \in options.groups
  BY DEF CommandInv, Shape, Kept
<1>4. Shape' /\ Kept' /\ Accounts'
  BY <1>1, <1>2, <1>3, FindingsKept
<1> QED
  BY <1>1, <1>2, <1>4, HandKept, Finishing DEF CommandInv

LEMMA FetchTlsFailsKeeps ==
  ASSUME CommandInv, FetchTlsFails
  PROVE  CommandInv'
<1>1. /\ phase = "fetch" /\ phase' = IF Want("tls") THEN "tls-only" ELSE "finish"
      /\ UNCHANGED crawlVars /\ seen' = seen /\ UNCHANGED mainVars
  BY DEF FetchTlsFails
<1>2. options' = options /\ codes' = codes
  BY <1>1 DEF mainVars
<1>3. PICK fromHttp \in BOOLEAN :
        LET judged == {c \in {"http-to-https-redirect"} : fromHttp /\ Want("https_redirect")}
        IN /\ landed' = [landed EXCEPT !.chain = IF fromHttp THEN <<"http">> ELSE <<"https">>]
           /\ result' = result \/ result' = [result EXCEPT !.ran = @ \cup judged]
           /\ Want("tls") => result' = result
  BY DEF FetchTlsFails
<1> DEFINE judged == {c \in {"http-to-https-redirect"} : fromHttp /\ Want("https_redirect")}
<1>4. landed = NotLanded /\ result.findings = <<>> /\ result.pages = <<>> /\ seen = {}
      /\ DOMAIN result = ResultFields
  BY <1>1 DEF CommandInv, Course, Before, Shape
<1>5. landed'.cookies = <<>> /\ IsFiniteSet(DOMAIN landed'.cookies)
  BY <1>3, <1>4, FS_EmptySet DEF NotLanded
<1>6. /\ DOMAIN result' = ResultFields /\ result'.findings = result.findings
      /\ result'.pages = result.pages /\ result'.ran \subseteq result.ran \cup judged
  BY <1>3, <1>4 DEF ResultFields
<1>7. \A c \in result'.ran : GroupOfCheck(c) \in options.groups
  BY <1>6, GroupsOfChecks DEF CommandInv, Kept, Want
<1>8. Shape' /\ Kept' /\ Accounts' /\ InHand'
  BY <1>1, <1>2, <1>5, <1>6, <1>7, FindingsKept, HandKept
<1>9. CASE Want("tls")
  <2>1. phase' = "tls-only" /\ Want("tls")'
    BY <1>1, <1>2, <1>9 DEF Want
  <2>2. Course'
    BY <1>1, <1>4, <1>6, <2>1, NotSite DEF Course, Before, After
  <2> QED
    BY <1>1, <1>8, <2>1, <2>2, MainKept DEF CommandInv
<1>10. CASE ~Want("tls")
  BY <1>1, <1>8, <1>10, Finishing DEF CommandInv
<1> QED
  BY <1>9, <1>10

LEMMA TlsOnlyKeeps ==
  ASSUME CommandInv, TlsOnly
  PROVE  CommandInv'
<1>1. /\ phase = "tls-only" /\ phase' = "finish" /\ UNCHANGED mainVars
      /\ landed' = landed /\ UNCHANGED crawlVars
  BY DEF TlsOnly
<1>2. options' = options /\ codes' = codes
  BY <1>1 DEF mainVars
<1> DEFINE judged == {c \in {"http-to-https-redirect"} :
                        landed.chain = <<"http">> /\ Want("https_redirect")}
<1>3. PICK found \in TlsResults, broken \in BOOLEAN :
        LET fs == SetToSeq(found)
        IN /\ result' = [result EXCEPT
                !.ran = @ \cup {"tls"} \cup judged,
                !.findings = IF broken THEN @
                             ELSE [i \in DOMAIN fs |-> Enriched(fs[i], "tls", "site")]]
           /\ seen' = IF broken THEN seen ELSE Sightings(fs)
  BY DEF TlsOnly
<1> DEFINE fs == SetToSeq(found)
           batch == [i \in DOMAIN fs |-> Enriched(fs[i], "tls", "site")]
<1>4. /\ result.findings = <<>> /\ result.pages = <<>> /\ seen = {} /\ Want("tls")
      /\ DOMAIN result = ResultFields /\ IsFiniteSet(DOMAIN landed.cookies)
  BY <1>1 DEF CommandInv, Course, Before, Shape
<1>5. /\ DOMAIN result' = ResultFields /\ result'.pages = result.pages
      /\ result'.ran = result.ran \cup {"tls"} \cup judged
      /\ result'.findings = IF broken THEN result.findings ELSE batch
  BY <1>3, <1>4 DEF ResultFields
<1>6. \A c \in result'.ran : GroupOfCheck(c) \in options.groups
  BY <1>4, <1>5, GroupsOfChecks DEF CommandInv, Kept, Want
<1>7. InHand' /\ Course' /\ Reported' /\ Worst'
  BY <1>1, HandKept, Finishing
<1>8. CASE broken
  BY <1>1, <1>2, <1>3, <1>4, <1>5, <1>6, <1>7, <1>8, FindingsKept DEF CommandInv
<1>9. CASE ~broken
  <2>1. Fits("tls", fs)
    BY CommandAssumption, ForeignFits DEF Foreign, PageCheckNames
  <2>2. /\ IsSequence(batch) /\ DOMAIN batch = DOMAIN fs
        /\ \A i \in DOMAIN batch : /\ IsFound(batch[i]) /\ batch[i].count = 0
                                   /\ Fp(batch[i]) = Fp(fs[i])
    BY <2>1, BatchSays
  <2>3. result'.findings = batch /\ seen' = Sightings(fs)
    BY <1>3, <1>5, <1>9
  <2> HIDE DEF batch, fs
  <2>4. Shape'
    BY <1>1, <1>2, <1>4, <1>5, <2>2, <2>3 DEF CommandInv, Shape
  <2>5. Kept'
    BY <1>2, <1>6, <2>2, <2>3 DEF Kept, Sightings
  <2>6. Accounts'
    BY <1>4, <1>5, <2>2, <2>3 DEF Accounts
  <2> QED
    BY <1>7, <2>4, <2>5, <2>6 DEF CommandInv
<1> QED
  BY <1>8, <1>9

LEMMA FetchKeeps ==
  ASSUME CommandInv, Fetch
  PROVE  CommandInv'
<1>1. /\ phase = "fetch" /\ result' = [result EXCEPT !.fetched = TRUE]
      /\ UNCHANGED crawlVars /\ seen' = seen /\ UNCHANGED mainVars
  BY DEF Fetch
<1>2. options' = options /\ codes' = codes
  BY <1>1 DEF mainVars
<1>3. PICK l \in Landings : landed' = l /\ phase' = PhaseFrom(1, l)
  BY DEF Fetch
<1>4. PICK m \in 1 .. 4 : phase' = Phases[m] /\ Applies(Phases[m], l)
  <2>1. PICK m \in 1 .. 13 : phase' = Phases[m] /\ Applies(Phases[m], l) /\ m <= 4
    BY <1>3, PhaseFromSays
  <2> QED
    BY <2>1
<1>5. m \in {1, 2, 3, 4} /\ phase' \in SitePhases
  BY <1>4 DEF SitePhases
<1>6. phase' \in {"headers", "start-hsts", "cookies", "page"}
  BY <1>4, <1>5, PhaseTable
<1>7. IsFiniteSet(DOMAIN landed'.cookies)
  BY <1>3, CommandAssumption
<1>8. /\ result.pages = <<>> /\ DOMAIN result = ResultFields
      /\ \A c \in result.ran : GroupOfCheck(c) \in options.groups
  BY <1>1 DEF CommandInv, Course, Before, Shape, Kept
<1>9. /\ DOMAIN result' = ResultFields /\ result'.findings = result.findings
      /\ result'.pages = result.pages /\ result'.ran = result.ran
  BY <1>1, <1>8 DEF ResultFields
<1>10. Shape' /\ Kept' /\ Accounts' /\ InHand'
  BY <1>1, <1>2, <1>6, <1>7, <1>8, <1>9, FindingsKept, HandKept
<1>11. Applies(phase, landed)'
  BY <1>2, <1>3, <1>4 DEF Applies, Want
<1>12. Course'
  BY <1>5, <1>6, <1>8, <1>9, <1>11 DEF Course, Before, After
<1> QED
  BY <1>1, <1>6, <1>10, <1>12, MainKept DEF CommandInv

LEMMA LimitReachedKeeps ==
  ASSUME CommandInv, LimitReached
  PROVE  CommandInv'
<1>1. /\ phase \in {"fetch", "tls-only", "start-hsts", "tls", "redirect", "cors",
                    "profile", "paths", "listing", "robots"}
      /\ result' = [result EXCEPT !.ran = @ \cup Started(phase), !.stoppedBy = "limit"]
      /\ phase' = "finish" /\ landed' = landed /\ UNCHANGED crawlVars /\ seen' = seen
      /\ UNCHANGED mainVars
  BY DEF LimitReached
<1>2. options' = options /\ codes' = codes
  BY <1>1 DEF mainVars
<1>3. \A c \in Started(phase) : GroupOfCheck(c) \in options.groups
  <2>1. CASE phase \in {"fetch", "profile"}
    BY <2>1 DEF Started
  <2>2. CASE phase = "tls-only"
    BY <2>2, GroupsOfChecks DEF CommandInv, Course, Started, Want
  <2>3. CASE phase = "start-hsts"
    <3>1. Applies("start-hsts", landed)
      BY <2>3, Entered, PhaseTable
    <3> QED
      BY <2>3, <3>1, GroupsOfChecks DEF Started, Applies, Want
  <2>4. CASE phase = "tls"
    <3>1. Applies("tls", landed)
      BY <2>4, Entered, PhaseTable
    <3> QED
      BY <2>4, <3>1, GroupsOfChecks DEF Started, Applies, Want
  <2>5. CASE phase = "redirect"
    <3>1. Applies("redirect", landed)
      BY <2>5, Entered, PhaseTable
    <3> QED
      BY <2>5, <3>1, GroupsOfChecks DEF Started, Applies, Want
  <2>6. CASE phase = "cors"
    <3>1. Applies("cors", landed)
      BY <2>6, Entered, PhaseTable
    <3> QED
      BY <2>6, <3>1, GroupsOfChecks DEF Started, Applies, Want
  <2>7. CASE phase = "paths"
    <3>1. Applies("paths", landed)
      BY <2>7, Entered, PhaseTable
    <3> QED
      BY <2>7, <3>1, GroupsOfChecks DEF Started, Applies, Want
  <2>8. CASE phase = "listing"
    <3>1. Applies("listing", landed)
      BY <2>8, Entered, PhaseTable
    <3> QED
      BY <2>8, <3>1, GroupsOfChecks DEF Started, Applies, Want
  <2>9. CASE phase = "robots"
    <3>1. Applies("robots", landed)
      BY <2>9, Entered, PhaseTable
    <3> QED
      BY <2>9, <3>1, GroupsOfChecks DEF Started, Applies, Want
  <2> QED
    BY <1>1, <2>1, <2>2, <2>3, <2>4, <2>5, <2>6, <2>7, <2>8, <2>9
<1>4. DOMAIN result = ResultFields /\ IsFiniteSet(DOMAIN landed.cookies)
  BY DEF CommandInv, Shape
<1>5. /\ DOMAIN result' = ResultFields /\ result'.findings = result.findings
      /\ result'.pages = result.pages /\ result'.ran = result.ran \cup Started(phase)
  BY <1>1, <1>4 DEF ResultFields
<1>6. \A c \in result'.ran : GroupOfCheck(c) \in options.groups
  BY <1>3, <1>5 DEF CommandInv, Kept
<1>7. Shape' /\ Kept' /\ Accounts' /\ InHand'
  BY <1>1, <1>2, <1>4, <1>5, <1>6, FindingsKept, HandKept
<1> QED
  BY <1>1, <1>7, Finishing DEF CommandInv

-----------------------------------------------------------------------------
(* The checks of the target's own page.                                     *)

LEMMA HeadersKeeps ==
  ASSUME CommandInv, Headers
  PROVE  CommandInv'
<1>1. phase = Phases[1] /\ Check(Phases[1], "security-headers",
                                 SetToSeq(SecurityHeaders(landed.page)), TRUE)
  BY PhaseTable DEF Headers, Check
<1>2. GroupOfCheck("security-headers") \in options.groups
  BY <1>1, Entered, PhaseTable, GroupsOfChecks DEF Applies, Want
<1>3. Fits("security-headers", SetToSeq(SecurityHeaders(landed.page)))
  BY SecurityHeadersSay, SetToSeqIs DEF Fits, PageCheckNames
<1>4. 1 \in (1 .. 11) \ {4} /\ ~(1 > 4)
  OBVIOUS
<1> QED
  BY <1>1, <1>2, <1>3, <1>4, CheckKeeps

LEMMA StartHstsKeeps ==
  ASSUME CommandInv, StartHsts
  PROVE  CommandInv'
<1>1. PICK answer \in StartHosts :
        IF answer = NoAnswer
        THEN /\ phase = "start-hsts"
             /\ result' = [result EXCEPT !.ran = @ \cup {"hsts-start-host"}]
             /\ UNCHANGED <<landed, probes, crawlVars, seen, looked>> /\ Proceed
        ELSE Check("start-hsts", "hsts-start-host", SetToSeq(StartHostHsts(answer)), TRUE)
  BY DEF StartHsts
<1>2. phase = Phases[2] /\ 2 \in (1 .. 11) \ {4} /\ ~(2 > 4)
  <2>1. phase = "start-hsts"
    BY <1>1 DEF Check
  <2> QED
    BY <2>1, PhaseTable
<1>3. GroupOfCheck("hsts-start-host") \in options.groups
  BY <1>2, Entered, PhaseTable, GroupsOfChecks DEF Applies, Want
<1>4. CASE answer = NoAnswer
  <2>1. /\ result' = [result EXCEPT !.ran = @ \cup {"hsts-start-host"}]
        /\ UNCHANGED crawlVars /\ landed' = landed /\ seen' = seen /\ Proceed
    BY <1>1, <1>4
  <2>2. options' = options /\ codes' = codes
    BY <2>1 DEF Proceed, mainVars
  <2>3. DOMAIN result = ResultFields /\ IsFiniteSet(DOMAIN landed.cookies)
    BY DEF CommandInv, Shape
  <2>4. /\ DOMAIN result' = ResultFields /\ result'.findings = result.findings
        /\ result'.pages = result.pages /\ result'.ran = result.ran \cup {"hsts-start-host"}
    BY <2>1, <2>3 DEF ResultFields
  <2>5. \A c \in result'.ran : GroupOfCheck(c) \in options.groups
    BY <1>3, <2>4 DEF CommandInv, Kept
  <2>6. Course' /\ Reported' /\ Worst' /\ phase' # "merge"
    BY <1>2, <2>1, <2>4, Proceeding
  <2>7. phase # "merge"
    BY <1>2, PhaseTable
  <2>8. Shape' /\ Kept' /\ Accounts' /\ InHand'
    BY <2>1, <2>2, <2>3, <2>4, <2>5, <2>6, <2>7, FindingsKept, HandKept
  <2> QED
    BY <2>6, <2>8 DEF CommandInv
<1>5. CASE answer # NoAnswer
  <2>1. Check(Phases[2], "hsts-start-host", SetToSeq(StartHostHsts(answer)), TRUE)
    BY <1>1, <1>5, PhaseTable
  <2>2. Fits("hsts-start-host", SetToSeq(StartHostHsts(answer)))
    BY StartHostSays, ForeignFits DEF PageCheckNames
  <2> QED
    BY <1>2, <1>3, <2>1, <2>2, CheckKeeps
<1> QED
  BY <1>4, <1>5

LEMMA CookiesKeep ==
  ASSUME CommandInv, CookiesOfPage
  PROVE  CommandInv'
<1>1. phase = Phases[3] /\ Check(Phases[3], "cookies", Cookies(landed.cookies), TRUE)
  BY PhaseTable DEF CookiesOfPage, Check
<1>2. GroupOfCheck("cookies") \in options.groups
  BY <1>1, Entered, PhaseTable, GroupsOfChecks DEF Applies, Want
<1>3. IsFiniteSet(DOMAIN landed.cookies)
  BY DEF CommandInv, Shape
<1>4. Fits("cookies", Cookies(landed.cookies))
  BY <1>3, CookiesSay DEF Fits, PageCheckNames
<1>5. 3 \in (1 .. 11) \ {4} /\ ~(3 > 4)
  OBVIOUS
<1> QED
  BY <1>1, <1>2, <1>4, <1>5, CheckKeeps

LEMMA TargetPageKeeps ==
  ASSUME CommandInv, TargetPage
  PROVE  CommandInv'
<1> DEFINE page == [url |-> landed.url, findings |-> PageCount(result.findings),
                    checked |-> Want("headers") \/ Want("cookies")]
<1>1. /\ phase = Phases[4] /\ phase = "page"
      /\ result' = [result EXCEPT !.pages = Append(@, page)]
      /\ UNCHANGED crawlVars /\ landed' = landed /\ seen' = seen /\ Proceed
  BY PhaseTable DEF TargetPage
<1>2. options' = options /\ codes' = codes
  BY <1>1 DEF Proceed, mainVars
<1>3. /\ DOMAIN result = ResultFields /\ IsSequence(result.findings)
      /\ result.pages = <<>> /\ \A i \in DOMAIN result.findings : result.findings[i].count = 0
  BY <1>1 DEF CommandInv, Shape, Course, Before, Accounts
<1>4. /\ DOMAIN result' = ResultFields /\ result'.findings = result.findings
      /\ result'.pages = Append(result.pages, page) /\ result'.ran = result.ran
  BY <1>1, <1>3 DEF ResultFields
<1>5. /\ page.findings = PageCount(result.findings) /\ PageCount(result.findings) \in Nat
      /\ IsFiniteSet(OnFindings(result.findings))
      /\ Cardinality(OnFindings(result.findings)) = PageCount(result.findings)
  BY <1>3, TargetPageCounts
<1> HIDE DEF page
<1>6. IsSequence(result.pages) /\ Len(result.pages) = 0
  BY <1>3 DEF CommandInv, Shape
<1>7. /\ IsSequence(Append(result.pages, page)) /\ Len(Append(result.pages, page)) = 1
      /\ Append(result.pages, page)[1] = page
  BY <1>6, AppendIs
<1>8. DOMAIN Append(result.pages, page) = {1} /\ Append(result.pages, page) # <<>>
  <2> DEFINE more == Append(result.pages, page)
  <2> HIDE DEF more
  <2>1. IsSequence(more) /\ Len(more) = 1
    BY <1>7 DEF more
  <2>2. DOMAIN more = 1 .. 1 /\ 1 .. 1 = {1}
    BY <2>1, SequenceHas
  <2>3. more # <<>>
    BY <2>1
  <2> QED
    BY <2>2, <2>3 DEF more
<1>9. /\ IsFiniteSet(OnPages(Append(result.pages, page)))
      /\ Cardinality(OnPages(Append(result.pages, page))) = page.findings
  <2>1. OnPages(result.pages) = {}
    BY <1>3 DEF OnPages
  <2>2. IsFiniteSet(OnPages(result.pages)) /\ Cardinality(OnPages(result.pages)) = 0
    BY <2>1, FS_EmptySet
  <2> QED
    BY <1>5, <1>6, <2>2, PageAdds
<1>10. Course' /\ Reported' /\ Worst' /\ phase' # "merge"
  <2>1. 4 \in 1 .. 12 /\ result'.pages # <<>>
    BY <1>4, <1>8
  <2> QED
    BY <1>1, <2>1, Proceeding
<1>11. Shape'
  BY <1>1, <1>2, <1>4, <1>5, <1>7, <1>8 DEF CommandInv, Shape
<1>12. Kept' /\ InHand'
  BY <1>1, <1>2, <1>4, <1>10, HandKept DEF CommandInv, Kept
<1>13. Accounts'
  BY <1>4, <1>5, <1>8, <1>9, <1>10 DEF Accounts
<1> QED
  BY <1>10, <1>11, <1>12, <1>13 DEF CommandInv

-----------------------------------------------------------------------------
(* The checks of the site.                                                  *)

LEMMA TlsKeeps ==
  ASSUME CommandInv, Tls
  PROVE  CommandInv'
<1>1. PICK found \in TlsResults : Check("tls", "tls", SetToSeq(found), TRUE)
  BY DEF Tls
<1>2. phase = Phases[5] /\ Phases[5] = "tls" /\ 5 \in (1 .. 11) \ {4}
  BY <1>1, PhaseTable DEF Check
<1>3. GroupOfCheck("tls") \in options.groups
  BY <1>2, Entered, PhaseTable, GroupsOfChecks DEF Applies, Want
<1>4. Fits("tls", SetToSeq(found))
  BY CommandAssumption, ForeignFits DEF Foreign, PageCheckNames
<1> QED
  BY <1>1, <1>2, <1>3, <1>4, CheckKeeps DEF PageCheckNames

LEMMA RedirectKeeps ==
  ASSUME CommandInv, Redirect
  PROVE  CommandInv'
<1> DEFINE judged(hops) == IF landed.chain[1] = "https" THEN HttpToHttpsRedirect(hops, MaxRedirects)
                           ELSE EvaluateRedirectChain(landed.chain)
<1>1. PICK hops \in HopAnswers :
        Check("redirect", "http-to-https-redirect", SetToSeq(judged(hops)),
              landed.chain[1] = "https" => NoAnswer \notin ToSet(hops))
  BY DEF Redirect
<1>2. phase = Phases[6] /\ Phases[6] = "redirect" /\ 6 \in (1 .. 11) \ {4}
  BY <1>1, PhaseTable DEF Check
<1>3. GroupOfCheck("http-to-https-redirect") \in options.groups
  BY <1>2, Entered, PhaseTable, GroupsOfChecks DEF Applies, Want
<1>4. Fits("http-to-https-redirect", SetToSeq(judged(hops)))
  BY RedirectSays, ForeignFits DEF PageCheckNames
<1> HIDE DEF judged
<1> QED
  BY <1>1, <1>2, <1>3, <1>4, CheckKeeps DEF PageCheckNames

LEMMA CorsKeeps ==
  ASSUME CommandInv, CorsOfTarget
  PROVE  CommandInv'
<1>1. PICK answer \in CorsAnswers :
        Check("cors", "cors", SetToSeq(Cors(answer)), answer # NoAnswer)
  BY DEF CorsOfTarget
<1>2. phase = Phases[7] /\ Phases[7] = "cors" /\ 7 \in (1 .. 11) \ {4}
  BY <1>1, PhaseTable DEF Check
<1>3. GroupOfCheck("cors") \in options.groups
  BY <1>2, Entered, PhaseTable, GroupsOfChecks DEF Applies, Want
<1>4. Fits("cors", SetToSeq(Cors(answer)))
  BY CorsSays, ForeignFits DEF PageCheckNames
<1> QED
  BY <1>1, <1>2, <1>3, <1>4, CheckKeeps DEF PageCheckNames

LEMMA ProfileKeeps ==
  ASSUME CommandInv, Profile
  PROVE  CommandInv'
<1>1. /\ phase = Phases[8] /\ landed' = landed /\ UNCHANGED crawlVars
      /\ result' = result /\ seen' = seen /\ Proceed
  BY PhaseTable DEF Profile
<1>2. options' = options /\ codes' = codes
  BY <1>1 DEF Proceed, mainVars
<1>3. /\ DOMAIN result = ResultFields /\ IsFiniteSet(DOMAIN landed.cookies)
      /\ \A c \in result.ran : GroupOfCheck(c) \in options.groups
  BY DEF CommandInv, Shape, Kept
<1>4. Course' /\ Reported' /\ Worst' /\ phase' # "merge"
  <2>1. 8 \in 1 .. 12
    OBVIOUS
  <2> QED
    BY <1>1, <2>1, Proceeding
<1>5. phase # "merge"
  BY <1>1, PhaseTable
<1>6. Shape' /\ Kept' /\ Accounts' /\ InHand'
  BY <1>1, <1>2, <1>3, <1>4, <1>5, FindingsKept, HandKept
<1> QED
  BY <1>4, <1>6 DEF CommandInv

LEMMA PathsKeep ==
  ASSUME CommandInv, Paths
  PROVE  CommandInv'
<1>1. PICK answerOf \in [SensitivePath -> PathAnswers] :
        Check("paths", "sensitive-paths",
              SetToSeq(SensitivePaths(answerOf, probes, SeverityOf)),
              \A p \in SensitivePath : answerOf[p] # NoAnswer)
  BY DEF Paths
<1>2. phase = Phases[9] /\ Phases[9] = "paths" /\ 9 \in (1 .. 11) \ {4}
  BY <1>1, PhaseTable DEF Check
<1>3. GroupOfCheck("sensitive-paths") \in options.groups
  BY <1>2, Entered, PhaseTable, GroupsOfChecks DEF Applies, Want
<1>4. IsFiniteSet(DOMAIN answerOf)
  BY CommandAssumption
<1>5. Fits("sensitive-paths", SetToSeq(SensitivePaths(answerOf, probes, SeverityOf)))
  BY <1>4, PathsSay, ForeignFits DEF PageCheckNames
<1> QED
  BY <1>1, <1>2, <1>3, <1>5, CheckKeeps DEF PageCheckNames

LEMMA ListingKeeps ==
  ASSUME CommandInv, Listing
  PROVE  CommandInv'
<1>1. PICK answerOf \in [ListingPath -> PathAnswers] :
        Check("listing", "directory-listing", SetToSeq(DirectoryListing(answerOf, probes)),
              \A p \in ListingPath : answerOf[p] # NoAnswer)
  BY DEF Listing
<1>2. phase = Phases[10] /\ Phases[10] = "listing" /\ 10 \in (1 .. 11) \ {4}
  BY <1>1, PhaseTable DEF Check
<1>3. GroupOfCheck("directory-listing") \in options.groups
  BY <1>2, Entered, PhaseTable, GroupsOfChecks DEF Applies, Want
<1>4. IsFiniteSet(DOMAIN answerOf)
  BY CommandAssumption
<1>5. Fits("directory-listing", SetToSeq(DirectoryListing(answerOf, probes)))
  BY <1>4, PathsSay, ForeignFits DEF PageCheckNames
<1> QED
  BY <1>1, <1>2, <1>3, <1>5, CheckKeeps DEF PageCheckNames

LEMMA RobotsKeep ==
  ASSUME CommandInv, Robots
  PROVE  CommandInv'
<1>1. PICK robots \in PathAnswers, sitemap \in PathAnswers :
        Check("robots", "robots-sitemap", SetToSeq(RobotsAndSitemap(robots, sitemap)),
              NoAnswer \notin {robots, sitemap})
  BY DEF Robots
<1>2. phase = Phases[11] /\ Phases[11] = "robots" /\ 11 \in (1 .. 11) \ {4}
  BY <1>1, PhaseTable DEF Check
<1>3. GroupOfCheck("robots-sitemap") \in options.groups
  BY <1>2, Entered, PhaseTable, GroupsOfChecks DEF Applies, Want
<1>4. Fits("robots-sitemap", SetToSeq(RobotsAndSitemap(robots, sitemap)))
  BY RobotsSay, ForeignFits DEF PageCheckNames
<1> QED
  BY <1>1, <1>2, <1>3, <1>4, CheckKeeps DEF PageCheckNames

-----------------------------------------------------------------------------
(* The pages of the crawl.                                                  *)

LEMMA CrawlKeeps ==
  ASSUME CommandInv, Crawl
  PROVE  CommandInv'
<1>1. /\ phase = "crawl" /\ phase' = "judge" /\ UNCHANGED mainVars
      /\ landed' = landed /\ pending' = pending /\ met' = met /\ seen' = seen
  BY DEF Crawl
<1>2. options' = options /\ codes' = codes
  BY <1>1 DEF mainVars
<1>3. PICK pages \in Crawls : crawled' = pages
  BY DEF Crawl
<1>4. PICK stopped \in {NoLimit, "limit"} : result' = [result EXCEPT !.stoppedBy = stopped]
  BY DEF Crawl
<1>5. /\ DOMAIN result = ResultFields /\ IsFiniteSet(DOMAIN landed.cookies)
      /\ \A c \in result.ran : GroupOfCheck(c) \in options.groups
  BY DEF CommandInv, Shape, Kept
<1>6. /\ DOMAIN result' = ResultFields /\ result'.findings = result.findings
      /\ result'.pages = result.pages /\ result'.ran = result.ran
  BY <1>4, <1>5 DEF ResultFields
<1>7. Shape' /\ Kept' /\ Accounts'
  BY <1>1, <1>2, <1>5, <1>6, FindingsKept
<1>8. InHand'
  BY <1>1, <1>3, CommandAssumption DEF CommandInv, InHand, IsSequence
<1>9. result.pages # <<>>
  BY <1>1 DEF CommandInv, Course, After
<1>10. Course'
  BY <1>1, <1>6, <1>9, NotSite DEF Course, Before, After
<1> QED
  BY <1>1, <1>7, <1>8, <1>10, MainKept DEF CommandInv

LEMMA CrawlBreaksKeeps ==
  ASSUME CommandInv, CrawlBreaks
  PROVE  CommandInv'
<1>1. /\ phase = "crawl" /\ phase' = "ended" /\ exit' = 1 /\ UNCHANGED scanVars
      /\ UNCHANGED <<options, target, report, codes, concern>>
  BY DEF CrawlBreaks
<1>2. /\ UNCHANGED crawlVars /\ landed' = landed /\ result' = result /\ seen' = seen
  BY <1>1 DEF scanVars
<1>3. Shape' /\ Kept' /\ Accounts'
  BY <1>1, <1>2 DEF CommandInv, Shape, Kept, Accounts
<1>4. Course'
  BY <1>1, NotSite DEF Course, Before, After
<1>5. Reported' /\ Worst'
  BY <1>1 DEF CommandInv, Reported, Worst
<1> QED
  BY <1>1, <1>2, <1>3, <1>4, <1>5, HandKept DEF CommandInv

\* What the checks found on a page is ready to be merged.
LEMMA PageFindingsSay ==
  ASSUME NEW page, IsFiniteSet(DOMAIN page.cookies), NEW whole
  PROVE  LET found == PageFindings(page, whole)
         IN /\ IsSequence(found)
            /\ \A i \in DOMAIN found :
                 IsFound(found[i]) /\ found[i].count = 0 /\ found[i].id \in PageIds
<1> DEFINE hs == SetToSeq(SecurityHeaders(page.page))
           cs == Cookies(page.cookies)
           H == [i \in DOMAIN hs |-> Enriched(hs[i], "security-headers", page.url)]
           C == [i \in DOMAIN cs |-> Enriched(cs[i], "cookies", page.url)]
           Ready(s) == /\ IsSequence(s)
                       /\ \A i \in DOMAIN s : IsFound(s[i]) /\ s[i].count = 0 /\ s[i].id \in PageIds
<1>1. Ready(<<>>)
  BY DEF IsSequence
<1>2. IsSequence(hs) /\ \A i \in DOMAIN hs : hs[i].id \in PageIds
  BY SecurityHeadersSay, SetToSeqIs
<1>3. IsSequence(cs) /\ \A i \in DOMAIN cs : cs[i].id \in PageIds
  BY CookiesSay
<1>4. Fits("security-headers", hs) /\ Fits("cookies", cs)
  BY <1>2, <1>3 DEF Fits, PageCheckNames
<1>5. Ready(H)
  BY <1>2, <1>4, BatchSays
<1>6. Ready(C)
  BY <1>3, <1>4, BatchSays
<1> DEFINE first == IF Want("headers") /\ "security-headers" \in whole THEN H ELSE <<>>
           second == IF Want("cookies") /\ "cookies" \in whole THEN C ELSE <<>>
<1>7. PageFindings(page, whole) = first \o second
  BY DEF PageFindings
<1> HIDE DEF H, C, Ready
<1>8. Ready(first) /\ Ready(second)
  BY <1>1, <1>5, <1>6
<1> HIDE DEF first, second
<1>9. /\ IsSequence(first) /\ IsSequence(second)
      /\ Len(first) \in Nat /\ Len(second) \in Nat
      /\ DOMAIN first = 1 .. Len(first) /\ DOMAIN second = 1 .. Len(second)
  BY <1>8, SequenceHas DEF Ready
<1>10. /\ IsSequence(first \o second) /\ Len(first \o second) = Len(first) + Len(second)
       /\ \A i \in 1 .. Len(first) : (first \o second)[i] = first[i]
       /\ \A i \in 1 .. Len(second) : (first \o second)[Len(first) + i] = second[i]
  BY <1>9, ConcatIs
<1>11. DOMAIN (first \o second) = 1 .. (Len(first) + Len(second))
  BY <1>10, SequenceHas
<1>12. ASSUME NEW i \in DOMAIN (first \o second)
       PROVE  \/ \E j \in DOMAIN first : (first \o second)[i] = first[j]
              \/ \E j \in DOMAIN second : (first \o second)[i] = second[j]
  <2>1. i \in 1 .. Len(first) \/ (i - Len(first) \in 1 .. Len(second)
                                  /\ Len(first) + (i - Len(first)) = i)
    BY <1>9, <1>11
  <2> QED
    BY <1>9, <1>10, <2>1
<1>13. Ready(first \o second)
  BY <1>8, <1>10, <1>12 DEF Ready
<1> QED
  BY <1>7, <1>13 DEF Ready

LEMMA JudgePageKeeps ==
  ASSUME CommandInv, JudgePage
  PROVE  CommandInv'
<1>1. /\ phase = "judge" /\ phase' = "merge" /\ crawled # <<>> /\ met' = {}
      /\ crawled' = crawled /\ landed' = landed /\ result' = result /\ seen' = seen
      /\ UNCHANGED mainVars
  BY DEF JudgePage
<1>2. options' = options /\ codes' = codes
  BY <1>1 DEF mainVars
<1> DEFINE page == Head(crawled)
<1>3. PICK whole \in SUBSET PageCheckNames :
        pending' = IF page.checkable THEN PageFindings(page, whole) ELSE <<>>
  BY DEF JudgePage
<1>4. /\ DOMAIN result = ResultFields /\ IsFiniteSet(DOMAIN landed.cookies)
      /\ \A c \in result.ran : GroupOfCheck(c) \in options.groups
  BY DEF CommandInv, Shape, Kept
<1>5. Shape' /\ Kept' /\ Accounts'
  BY <1>1, <1>2, <1>4, FindingsKept
<1>6. IsSequence(crawled) /\ \A p \in ToSet(crawled) : IsFiniteSet(DOMAIN p.cookies)
  BY DEF CommandInv, InHand
<1>7. IsFiniteSet(DOMAIN page.cookies)
  BY <1>1, <1>6, TailIs
<1> HIDE DEF page
<1>8. /\ IsSequence(pending')
      /\ \A i \in DOMAIN pending' :
           IsFound(pending'[i]) /\ pending'[i].count = 0 /\ pending'[i].id \in PageIds
  <2>1. IsSequence(<<>>) /\ DOMAIN <<>> = {}
    BY DEF IsSequence
  <2> QED
    BY <1>3, <1>7, <2>1, PageFindingsSay
<1>9. InHand'
  BY <1>1, <1>6, <1>8, FS_EmptySet DEF InHand
<1>10. result.pages # <<>>
  BY <1>1 DEF CommandInv, Course, After
<1>11. Course'
  BY <1>1, <1>10, NotSite DEF Course, Before, After
<1> QED
  BY <1>1, <1>5, <1>9, <1>11, MainKept DEF CommandInv

LEMMA MergeFindingKeeps ==
  ASSUME CommandInv, MergeFinding
  PROVE  CommandInv'
<1> DEFINE f == Head(pending)
           a == result.findings
           b == Merge(a, f, Head(crawled).url)
<1>1. /\ phase = "merge" /\ phase' = phase /\ pending # <<>> /\ pending' = Tail(pending)
      /\ crawled' = crawled /\ landed' = landed /\ UNCHANGED mainVars
  BY DEF MergeFinding
<1>2. options' = options /\ codes' = codes
  BY <1>1 DEF mainVars
<1>3. /\ IsSequence(crawled) /\ IsSequence(pending) /\ IsFiniteSet(met) /\ crawled # <<>>
      /\ \A p \in ToSet(crawled) : IsFiniteSet(DOMAIN p.cookies)
      /\ \A g \in ToSet(pending) : IsFound(g) /\ g.count = 0 /\ g.id \in PageIds
  BY <1>1 DEF CommandInv, InHand, ToSet
<1>4. /\ IsSequence(pending') /\ ToSet(pending') \subseteq ToSet(pending)
      /\ f \in ToSet(pending)
  BY <1>1, <1>3, TailIs
<1>5. /\ IsSequence(pending')
      /\ \A i \in DOMAIN pending' :
           IsFound(pending'[i]) /\ pending'[i].count = 0 /\ pending'[i].id \in PageIds
  BY <1>3, <1>4 DEF ToSet
<1>6. result.pages # <<>> /\ DOMAIN result = ResultFields
      /\ IsSequence(a) /\ \A i \in DOMAIN a : IsFound(a[i])
  BY <1>1 DEF CommandInv, Course, After, Shape
<1>7. Cardinality(met) \in Nat
  BY <1>3, FS_CardinalityType
<1>8. CASE Fp(f) \in met
  <2>1. result' = result /\ met' = met /\ seen' = seen
    BY <1>8 DEF MergeFinding
  <2>2. Shape' /\ Kept' /\ Accounts' /\ Course'
    BY <1>1, <1>2, <2>1, NotSite DEF CommandInv, Shape, Kept, Accounts, Course, Before, After
  <2>3. InHand'
    BY <1>1, <1>3, <1>5, <2>1 DEF InHand
  <2> QED
    BY <1>1, <2>2, <2>3, MainKept DEF CommandInv
<1>9. CASE Fp(f) \notin met
  <2>1. /\ met' = met \cup {Fp(f)} /\ seen' = seen \cup {Fp(f)}
        /\ result' = [result EXCEPT !.findings = Merge(@, f, Head(crawled).url)]
    BY <1>9 DEF MergeFinding
  <2>2. /\ DOMAIN result' = ResultFields /\ result'.findings = b
        /\ result'.pages = result.pages /\ result'.ran = result.ran
    BY <1>6, <2>1 DEF ResultFields
  <2>3. IsFound(f) /\ f.count = 0 /\ f.id \in PageIds
    BY <1>3, <1>4
  <2> HIDE DEF f
  <2>4. /\ IsSequence(b) /\ \A i \in DOMAIN b : IsFound(b[i])
        /\ {Fp(b[i]) : i \in DOMAIN b} = {Fp(a[i]) : i \in DOMAIN a} \cup {Fp(f)}
        /\ IsFiniteSet(OnFindings(a)) =>
             /\ IsFiniteSet(OnFindings(b))
             /\ Cardinality(OnFindings(b)) = Cardinality(OnFindings(a)) + 1
    BY <1>6, <2>3, MergeSays
  <2> HIDE DEF b
  <2>5. /\ IsFiniteSet(met') /\ Cardinality(met') = Cardinality(met) + 1
    BY <1>3, <1>9, <2>1, FS_AddElement
  <2>6. Shape'
    BY <1>1, <1>2, <2>2, <2>4 DEF CommandInv, Shape
  <2>7. Kept'
    BY <1>2, <2>1, <2>2, <2>4 DEF CommandInv, Kept
  <2>8. /\ IsFiniteSet(OnPages(result.pages)) /\ IsFiniteSet(OnFindings(a))
        /\ Cardinality(OnPages(result.pages)) + Cardinality(met) = Cardinality(OnFindings(a))
    BY <1>1, <1>6 DEF CommandInv, Accounts
  <2>9. Cardinality(OnPages(result.pages)) \in Nat
    BY <2>8, FS_CardinalityType
  <2>10. Accounts'
    BY <1>1, <1>6, <1>7, <2>2, <2>4, <2>5, <2>8, <2>9 DEF Accounts
  <2>11. Course'
    BY <1>1, <1>6, <2>2, NotSite DEF CommandInv, Course, Before, After
  <2>12. InHand'
    BY <1>1, <1>3, <1>5, <2>5 DEF InHand
  <2> QED
    BY <1>1, <2>6, <2>7, <2>10, <2>11, <2>12, MainKept DEF CommandInv
<1> QED
  BY <1>8, <1>9

LEMMA PageJudgedKeeps ==
  ASSUME CommandInv, PageJudged
  PROVE  CommandInv'
<1> DEFINE page == [url |-> Head(crawled).url, findings |-> Cardinality(met),
                    checked |-> Head(crawled).checkable]
           pages == result.pages
           more == Append(pages, page)
<1>1. /\ phase = "merge" /\ phase' = "judge" /\ pending = <<>> /\ pending' = pending
      /\ crawled' = Tail(crawled) /\ met' = met /\ landed' = landed /\ seen' = seen
      /\ result' = [result EXCEPT !.pages = Append(@, page)]
      /\ UNCHANGED mainVars
  BY DEF PageJudged
<1>2. options' = options /\ codes' = codes
  BY <1>1 DEF mainVars
<1>3. /\ DOMAIN result = ResultFields /\ IsSequence(pages) /\ pages # <<>>
      /\ \A p \in DOMAIN pages : pages[p].findings \in Nat
      /\ IsFiniteSet(OnPages(pages)) /\ IsFiniteSet(OnFindings(result.findings))
      /\ Cardinality(OnPages(pages)) + Cardinality(met) = Cardinality(OnFindings(result.findings))
  BY <1>1 DEF CommandInv, Shape, Course, After, Accounts
<1>4. /\ DOMAIN result' = ResultFields /\ result'.findings = result.findings
      /\ result'.pages = more /\ result'.ran = result.ran
  BY <1>1, <1>3 DEF ResultFields
<1>5. page.findings = Cardinality(met) /\ Cardinality(met) \in Nat
  BY FS_CardinalityType DEF CommandInv, InHand
<1> HIDE DEF page, pages
<1>6. /\ IsSequence(more) /\ Len(more) = Len(pages) + 1
      /\ (\A i \in 1 .. Len(pages) : more[i] = pages[i]) /\ more[Len(pages) + 1] = page
  BY <1>3, AppendIs
<1>7. Len(pages) \in Nat /\ DOMAIN pages = 1 .. Len(pages)
  BY <1>3, SequenceHas
<1>8. IsFiniteSet(OnPages(more))
      /\ Cardinality(OnPages(more)) = Cardinality(OnPages(pages)) + Cardinality(met)
  BY <1>3, <1>5, PageAdds
<1> HIDE DEF more
<1>9. DOMAIN more = 1 .. (Len(pages) + 1)
  BY <1>6, SequenceHas
<1>10. more # <<>>
  BY <1>6, <1>7
<1>11. \A p \in DOMAIN more : more[p].findings \in Nat
  <2>1. \A p \in DOMAIN more : p \in 1 .. Len(pages) \/ p = Len(pages) + 1
    BY <1>7, <1>9
  <2> QED
    BY <1>3, <1>5, <1>6, <1>7, <2>1
<1>12. Shape' /\ Kept'
  BY <1>1, <1>2, <1>4, <1>6, <1>11 DEF CommandInv, Shape, Kept
<1>13. Accounts'
  <2>1. Cardinality(OnPages(more)) \in Nat
    BY <1>8, FS_CardinalityType
  <2>2. IsFiniteSet(OnPages(result'.pages)) /\ IsFiniteSet(OnFindings(result'.findings))
    BY <1>3, <1>4, <1>8
  <2>3. Cardinality(OnPages(result'.pages)) + 0 = Cardinality(OnFindings(result'.findings))
    BY <1>3, <1>4, <1>8, <2>1
  <2>4. phase' # "merge" /\ result'.pages # <<>>
    BY <1>1, <1>4, <1>10
  <2> QED
    BY <2>2, <2>3, <2>4 DEF Accounts
<1>14. Course'
  BY <1>1, <1>4, <1>10, NotSite DEF Course, Before, After
<1>15. InHand'
  <2>1. IsSequence(crawled) /\ \A p \in ToSet(crawled) : IsFiniteSet(DOMAIN p.cookies)
    BY DEF CommandInv, InHand
  <2>2. crawled # <<>>
    BY <1>1 DEF CommandInv, InHand
  <2>3. IsSequence(crawled') /\ ToSet(crawled') \subseteq ToSet(crawled)
    BY <1>1, <2>1, <2>2, TailIs
  <2> QED
    BY <1>1, <2>1, <2>3 DEF CommandInv, InHand
<1> QED
  BY <1>1, <1>12, <1>13, <1>14, <1>15, MainKept DEF CommandInv

LEMMA CrawlJudgedKeeps ==
  ASSUME CommandInv, CrawlJudged
  PROVE  CommandInv'
<1>1. phase = "judge" /\ phase' = "finish" /\ UNCHANGED scanVars /\ UNCHANGED mainVars
  BY DEF CrawlJudged
<1>2. /\ UNCHANGED crawlVars /\ options' = options /\ codes' = codes
      /\ landed' = landed /\ result' = result /\ seen' = seen
  BY <1>1 DEF scanVars, mainVars
<1>3. DOMAIN result = ResultFields /\ IsFiniteSet(DOMAIN landed.cookies)
      /\ \A c \in result.ran : GroupOfCheck(c) \in options.groups
  BY DEF CommandInv, Shape, Kept
<1>4. Shape' /\ Kept' /\ Accounts'
  BY <1>1, <1>2, <1>3, FindingsKept
<1> QED
  BY <1>1, <1>2, <1>4, HandKept, Finishing DEF CommandInv

-----------------------------------------------------------------------------
(* The report, the exit code and the next target.                           *)

LEMMA FinishKeeps ==
  ASSUME CommandInv, Finish
  PROVE  CommandInv'
<1>1. /\ phase = "finish" /\ phase' = "write" /\ UNCHANGED scanVars
      /\ report' = Report(result, options.failOn, Baseline, options.entries, Today)
      /\ codes' = Append(codes, ExitCode(report'.gate))
      /\ UNCHANGED <<options, target, exit, concern>>
  BY DEF Finish
<1>2. /\ UNCHANGED crawlVars /\ landed' = landed /\ result' = result /\ seen' = seen
      /\ options' = options /\ target' = target
  BY <1>1 DEF scanVars
<1>3. codes \in Seq({0, 1, 3})
  BY DEF CommandInv, Shape
<1>4. ExitCode(report'.gate) \in {0, 1, 3}
  BY DEF ExitCode
<1>5. /\ codes' \in Seq({0, 1, 3}) /\ Len(codes') = Len(codes) + 1 /\ Len(codes) \in Nat
      /\ codes'[Len(codes')] = ExitCode(report'.gate)
      /\ \A i \in 1 .. Len(codes) : codes'[i] = codes[i]
  BY <1>1, <1>3, <1>4, AppendProperties
<1>6. ToSet(codes) \subseteq ToSet(codes')
  <2>1. DOMAIN codes = 1 .. Len(codes) /\ DOMAIN codes' = 1 .. Len(codes')
    BY <1>3, <1>5
  <2> QED
    BY <1>5, <2>1 DEF ToSet
<1>7. codes' # <<>>
  BY <1>5
<1>8. Shape' /\ Kept' /\ Accounts'
  BY <1>1, <1>2, <1>5 DEF CommandInv, Shape, Kept, Accounts
<1>9. InHand'
  BY <1>1, <1>2, HandKept
<1>10. Course'
  BY <1>1, NotSite DEF Course, Before, After
<1>11. Reported'
  <2>1. Baseline' = Baseline
    BY <1>2 DEF Baseline
  <2> QED
    BY <1>1, <1>2, <1>5, <1>7, <2>1 DEF Reported
<1>12. Worst'
  BY <1>1, <1>6 DEF CommandInv, Worst
<1> QED
  BY <1>8, <1>9, <1>10, <1>11, <1>12 DEF CommandInv

\* With a threshold set, a target that is not clean has code 1 or 3.
LEMMA UncleanHasCode ==
  ASSUME CommandInv, phase = "write", options.failOn # "none", ~Clean
  PROVE  1 \in ToSet(codes) \/ 3 \in ToSet(codes)
<1> DEFINE marked == {Marked(f, Baseline, options.entries, Today) : f \in FindingsOf(result)}
<1>1. /\ report = Report(result, options.failOn, Baseline, options.entries, Today)
      /\ codes # <<>> /\ codes[Len(codes)] = ExitCode(report.gate)
      /\ codes \in Seq({0, 1, 3})
  BY DEF CommandInv, Reported, Shape
<1>2. /\ report.gate = Gate(result, options.failOn, marked, Baseline)
      /\ report.findings = marked
  BY <1>1 DEF Report
<1> HIDE DEF marked
<1>3. /\ report.gate.failOn = options.failOn
      /\ report.gate.incomplete = Incomplete(result)
      /\ report.gate.failed =
           ({f.severity : f \in {m \in marked : ~Accepted(m)}} \cap FailOn[options.failOn] # {})
  BY <1>2 DEF Gate
<1>4. ExitCode(report.gate) \in {1, 3}
  <2>1. CASE Incomplete(result)
    BY <1>3, <2>1 DEF ExitCode
  <2>2. CASE ~Incomplete(result)
    <3>1. result.fetched /\ result.stoppedBy = NoLimit
      BY <2>2, CommandAssumption DEF Incomplete, IncompleteReason
    <3>2. PICK s \in seen :
            LET shown == {f \in report.findings : Fp(f) = s}
            IN \/ shown = {}
               \/ \E f \in shown : ~Accepted(f) /\ f.severity \in FailOn[options.failOn]
      BY <3>1 DEF Clean, Unaccepted
    <3>3. PICK i \in DOMAIN result.findings : Fp(result.findings[i]) = s
      BY DEF CommandInv, Kept
    <3> DEFINE m == Marked(result.findings[i], Baseline, options.entries, Today)
    <3>4. m \in report.findings
      BY <1>2 DEF marked, FindingsOf
    <3>5. Fp(m) = s
      BY <3>3 DEF Marked, Fp
    <3>6. PICK f \in marked : ~Accepted(f) /\ f.severity \in FailOn[options.failOn]
      BY <1>2, <3>2, <3>4, <3>5
    <3>7. report.gate.failed
      BY <1>3, <3>6
    <3> QED
      BY <3>7 DEF ExitCode
  <2> QED
    BY <2>1, <2>2
<1>5. codes[Len(codes)] \in ToSet(codes)
  <2>1. Len(codes) \in DOMAIN codes
    BY <1>1
  <2> QED
    BY <2>1 DEF ToSet
<1> QED
  BY <1>1, <1>4, <1>5

LEMMA WriteKeeps ==
  ASSUME CommandInv, Write
  PROVE  CommandInv'
<1>1. /\ phase = "write" /\ concern' = (concern \/ ~Clean)
      /\ options' = options /\ codes' = codes
  BY DEF Write
<1>2. options \in Options /\ codes \in Seq({0, 1, 3})
  BY DEF CommandInv, Shape
<1>3. options.failOn # "none" /\ concern' => 1 \in ToSet(codes) \/ 3 \in ToSet(codes)
  BY <1>1, UncleanHasCode DEF CommandInv, Worst
<1>4. CASE target < options.targets
  <2>1. phase' = "fetch" /\ BeginScan(options.groups)
    BY <1>4 DEF Write
  <2>2. Fresh'
    BY <1>1, <2>1 DEF BeginScan, Fresh
  <2>3. Shape' /\ InHand' /\ Course' /\ Kept' /\ Accounts'
    BY <1>1, <1>2, <2>1, <2>2, FreshLater
  <2>4. Reported' /\ Worst'
    BY <1>1, <1>3, <2>1 DEF Reported, Worst
  <2> QED
    BY <2>3, <2>4 DEF CommandInv
<1>5. CASE ~(target < options.targets)
  <2>1. phase' = "ended" /\ exit' = WorstCode /\ UNCHANGED scanVars
    BY <1>5 DEF Write
  <2>2. /\ UNCHANGED crawlVars /\ landed' = landed /\ result' = result /\ seen' = seen
    BY <2>1 DEF scanVars
  <2>3. Shape' /\ Kept' /\ Accounts'
    BY <1>1, <2>1, <2>2 DEF CommandInv, Shape, Kept, Accounts
  <2>4. Course'
    BY <2>1, NotSite DEF Course, Before, After
  <2>5. Reported' /\ Worst'
    BY <1>1, <1>3, <2>1 DEF Reported, Worst, WorstCode
  <2> QED
    BY <2>1, <2>2, <2>3, <2>4, <2>5, HandKept DEF CommandInv
<1> QED
  BY <1>4, <1>5

LEMMA WriteFailsKeeps ==
  ASSUME CommandInv, WriteFails
  PROVE  CommandInv'
<1>1. /\ phase = "write" /\ phase' = "ended" /\ exit' = 1 /\ UNCHANGED scanVars
      /\ UNCHANGED <<options, target, report, codes, concern>>
  BY DEF WriteFails
<1>2. /\ UNCHANGED crawlVars /\ landed' = landed /\ result' = result /\ seen' = seen
  BY <1>1 DEF scanVars
<1>3. Shape' /\ Kept' /\ Accounts'
  BY <1>1, <1>2 DEF CommandInv, Shape, Kept, Accounts
<1>4. Course'
  BY <1>1, NotSite DEF Course, Before, After
<1>5. Reported' /\ Worst'
  BY <1>1 DEF CommandInv, Reported, Worst
<1> QED
  BY <1>1, <1>2, <1>3, <1>4, <1>5, HandKept DEF CommandInv

-----------------------------------------------------------------------------
(* The theorems.                                                            *)

LEMMA CommandInit == Init => CommandInv
<1> SUFFICES ASSUME Init
             PROVE  CommandInv
  OBVIOUS
<1>1. Fresh /\ options \in Options /\ phase = "parse" /\ codes = <<>> /\ concern = FALSE
  BY DEF Init, Fresh
<1>2. codes \in Seq({0, 1, 3})
  BY <1>1
<1>3. Shape /\ InHand /\ Course /\ Kept /\ Accounts
  BY <1>1, <1>2, FreshSays
<1> QED
  BY <1>1, <1>3 DEF CommandInv, Reported, Worst

LEMMA CommandStep == CommandInv /\ [Next]_vars => CommandInv'
<1> SUFFICES ASSUME CommandInv, [Next]_vars
             PROVE  CommandInv'
  OBVIOUS
<1>1. CASE UNCHANGED vars
  <2>1. /\ phase' = phase /\ UNCHANGED scanVars /\ UNCHANGED mainVars
    BY <1>1 DEF vars
  <2>2. /\ landed' = landed /\ crawled' = crawled /\ pending' = pending /\ met' = met
        /\ result' = result /\ seen' = seen
        /\ options' = options /\ target' = target /\ report' = report /\ codes' = codes
        /\ exit' = exit /\ concern' = concern
    BY <2>1 DEF scanVars, crawlVars, mainVars
  <2>3. Shape' /\ InHand' /\ Kept' /\ Accounts' /\ Worst'
    BY <2>1, <2>2 DEF CommandInv, Shape, InHand, Kept, Accounts, Worst
  <2>4. Course'
    BY <2>1, <2>2 DEF CommandInv, Course, Applies, Want
  <2>5. Reported'
    BY <2>1, <2>2 DEF CommandInv, Reported, Baseline
  <2> QED
    BY <2>3, <2>4, <2>5 DEF CommandInv
<1>2. CASE Next
  BY <1>2, ParseKeeps, FetchFailsKeeps, FetchTlsFailsKeeps, TlsOnlyKeeps, FetchKeeps,
     LimitReachedKeeps, HeadersKeeps, StartHstsKeeps, CookiesKeep, TargetPageKeeps, TlsKeeps,
     RedirectKeeps, CorsKeeps, ProfileKeeps, PathsKeep, ListingKeeps, RobotsKeep, CrawlKeeps,
     CrawlBreaksKeeps,
     JudgePageKeeps, MergeFindingKeeps, PageJudgedKeeps, CrawlJudgedKeeps, FinishKeeps,
     WriteKeeps, WriteFailsKeeps
  DEF Next
<1> QED
  BY <1>1, <1>2

\* The inductive invariant of the scan command.
THEOREM CommandInvariant == Spec => []CommandInv
BY CommandInit, CommandStep, PTL DEF Spec

\* Exit code 0 with a threshold set means that every target was scanned to its end
\* and that whatever any check returned was reported, and below the threshold or
\* accepted: main's fold of the targets' codes forgets none of them.
THEOREM ZeroMeansClean == Spec => []ExitZeroMeansClean
<1>1. CommandInv => ExitZeroMeansClean
  BY DEF CommandInv, Worst, ExitZeroMeansClean
<1> QED
  BY <1>1, CommandInvariant, PTL

\* The five places that take the gate's decision again (exit code, message, JUnit,
\* CSV, SARIF) agree on every report that a scan can end with.
THEOREM FormatsAgree == Spec => []VerdictsAgree
<1>1. CommandInv => VerdictsAgree
  <2> SUFFICES ASSUME CommandInv, phase = "write"
               PROVE  LET code == ExitCode(report.gate)
                          junit == JUnitFailures(report)
                      IN /\ GateMessage(report.gate).code = code
                         /\ (junit.scan \/ junit.findings # {}) <=> code # 0
                         /\ (code = 1) <=> \E f \in CsvCounting(report) :
                                              f.severity \in FailOn[options.failOn]
                         /\ code = 3 => ~SarifSuccessful(report)
                         /\ code = 0 /\ SarifSuccessful(report) =>
                              GateMessage(report.gate).status = "pass"
    BY DEF VerdictsAgree
  <2> DEFINE gate == report.gate
             counting == {f \in report.findings : ~Accepted(f) /\ f.severity \in FailOn[gate.failOn]}
  <2>1. report = Report(result, options.failOn, Baseline, options.entries, Today)
    BY DEF CommandInv, Reported
  <2>2. /\ gate.failOn = options.failOn
        /\ gate.incomplete \in BOOLEAN
        /\ gate.failed = ({f.severity : f \in {m \in report.findings : ~Accepted(m)}}
                            \cap FailOn[options.failOn] # {})
    BY <2>1 DEF Report, Gate, Incomplete
  <2>3. gate.failed <=> counting # {}
    BY <2>2
  <2>4. gate.failed => gate.failOn # "none"
    <3>1. FailOn["none"] = {}
      BY DEF FailOn
    <3> QED
      BY <2>2, <3>1
  <2>5. gate.failed \in BOOLEAN
    BY <2>2
  <2> HIDE DEF gate
  <2>6. /\ gate.failed => ExitCode(gate) = 1
        /\ ~gate.failed /\ gate.incomplete /\ gate.failOn # "none" => ExitCode(gate) = 3
        /\ ~gate.failed /\ ~(gate.incomplete /\ gate.failOn # "none") => ExitCode(gate) = 0
    BY DEF ExitCode
  <2>7. /\ gate.failed => GateMessage(gate) = [status |-> "fail", code |-> 1]
        /\ ~gate.failed /\ gate.incomplete =>
             GateMessage(gate) = [status |-> "warn", code |-> IF gate.failOn = "none" THEN 0 ELSE 3]
        /\ ~gate.failed /\ ~gate.incomplete => GateMessage(gate) = [status |-> "pass", code |-> 0]
    BY DEF GateMessage
  <2>8. GateMessage(gate).code = ExitCode(gate)
    BY <2>6, <2>7
  <2>9. /\ JUnitFailures(report).findings = counting
        /\ JUnitFailures(report).scan = (gate.incomplete /\ gate.failOn # "none")
    BY DEF JUnitFailures, gate
  <2>10. (JUnitFailures(report).scan \/ JUnitFailures(report).findings # {}) <=> ExitCode(gate) # 0
    BY <2>2, <2>3, <2>4, <2>5, <2>6, <2>9
  <2>11. counting # {} <=> \E f \in CsvCounting(report) : f.severity \in FailOn[options.failOn]
    BY <2>2 DEF CsvCounting, Accepted, gate
  <2>12. (ExitCode(gate) = 1) <=> gate.failed
    BY <2>6
  <2>13. ExitCode(gate) = 3 => gate.incomplete
    BY <2>6
  <2>14. ExitCode(gate) = 0 /\ ~gate.incomplete => GateMessage(gate).status = "pass"
    BY <2>6, <2>7
  <2> QED
    BY <2>3, <2>8, <2>10, <2>11, <2>12, <2>13, <2>14 DEF SarifSuccessful, gate
<1> QED
  BY <1>1, CommandInvariant, PTL

\* The three lists of a baseline's findings (still there, fixed, not rechecked)
\* share nothing and leave nothing out, and what is called fixed was in a selected
\* group of a scan that finished and did not see it.
THEOREM BaselineSplit == Spec => []BaselineAccounted
<1>1. CommandInv => BaselineAccounted
  <2> SUFFICES ASSUME CommandInv, phase = "write", Baseline # NoBaseline, NEW b \in Baseline
               PROVE  LET unchanged == \E f \in report.findings : Fp(f) = Fp(b)
                          fixed == b \in report.fixed
                          open == b \in report.notRechecked
                      IN /\ unchanged \/ fixed \/ open
                         /\ ~(unchanged /\ fixed) /\ ~(unchanged /\ open) /\ ~(fixed /\ open)
                         /\ fixed => /\ result.fetched /\ result.stoppedBy = NoLimit
                                     /\ GroupOfCheck(b.check) \in options.groups
                                     /\ Fp(b) \notin seen
    BY DEF BaselineAccounted
  <2>1. report = Report(result, options.failOn, Baseline, options.entries, Today)
    BY DEF CommandInv, Reported
  <2>2. /\ report.findings =
             {Marked(f, Baseline, options.entries, Today) : f \in FindingsOf(result)}
        /\ report.fixed = FixedIn(result, Baseline)
        /\ report.notRechecked = NotRechecked(result, Baseline)
    BY <2>1 DEF Report
  <2>3. \A f : Fp(Marked(f, Baseline, options.entries, Today)) = Fp(f)
    BY DEF Marked, Fp
  <2>4. (\E f \in report.findings : Fp(f) = Fp(b)) <=> b \notin Gone(result, Baseline)
    BY <2>2, <2>3 DEF Gone
  <2>5. b \in report.fixed => /\ b \in Gone(result, Baseline) /\ ~Incomplete(result)
                              /\ b.check \in result.ran
    BY <2>2 DEF FixedIn
  <2>6. b \in report.notRechecked <=> b \in Gone(result, Baseline) /\ b \notin report.fixed
    BY <2>2 DEF NotRechecked
  <2>7. ~Incomplete(result) => result.fetched /\ result.stoppedBy = NoLimit
    BY CommandAssumption DEF Incomplete, IncompleteReason
  <2>8. b.check \in result.ran => GroupOfCheck(b.check) \in options.groups
    BY DEF CommandInv, Kept
  <2>9. b \in Gone(result, Baseline) => Fp(b) \notin seen
    BY DEF Gone, FindingsOf, CommandInv, Kept
  <2> QED
    BY <2>4, <2>5, <2>6, <2>7, <2>8, <2>9
<1> QED
  BY <1>1, CommandInvariant, PTL

\* However often an issue comes back, on one page or on many, what the pages of the
\* report count together is what the findings count together.
THEOREM CountsAddUp == Spec => []PagesAddUp
<1>1. CommandInv => PagesAddUp
  <2> SUFFICES ASSUME CommandInv, phase \in {"finish", "write"}, result.pages # <<>>
               PROVE  Cardinality(OnPages(result.pages)) = Cardinality(OnFindings(result.findings))
    BY DEF PagesAddUp
  <2>1. Cardinality(OnPages(result.pages)) \in Nat
    BY FS_CardinalityType DEF CommandInv, Accounts
  <2> QED
    BY <2>1 DEF CommandInv, Accounts
<1> QED
  BY <1>1, CommandInvariant, PTL

=============================================================================

--------------------------- MODULE TlsCheck_proofs ---------------------------
(***************************************************************************)
(* Proofs about TlsCheck, for every list of versions and groups the rules  *)
(* may hold, every set of suites and every server.                         *)
(***************************************************************************)
EXTENDS TlsCheck, SequenceTheorems, WellFoundedInduction, TLAPS

Before == {"certificate", "probe", "reply", "conclude"}
After == {"trust", "issuer", "done"}

\* What was negotiated and what the probes found is what the server has, and
\* what is noted as rejected the server itself has declined.
Honest ==
  /\ negotiated.version # None => negotiated.version \in server.versions
  /\ negotiated.group # None => \E s \in server.suites : GroupOf(s) = negotiated.group
  /\ \A p \in SetOf(Plan) :
       /\ report[p] = "accepted" => Accepts(p)
       /\ report[p] = "rejected" => p \in refused

\* Every probe before `at' has an outcome.
Settled == \A i \in DOMAIN Plan : i < at => report[Plan[i]] # "none"

\* Where the check is and what it has said by then.
Course ==
  /\ phase \in {"probe", "reply"} => probeOn
  /\ phase = "conclude" => ~probeOn
  /\ phase = "reply" => at \in DOMAIN Plan /\ records < MaxReplyRecords
  /\ phase = "certificate" => at = 1 /\ negotiated.version = None
  /\ phase \in Before \cup {"limit"} => findings = {}
  /\ phase \in Before \cup {"trust"} => trust = "none"
  /\ phase = "trust" => ~CertTimeProblem(certificate)

\* Connections are opened one per probe, until one of them fails.
Counted ==
  /\ phase = "certificate" => opened = 0
  /\ phase = "conclude" => opened = 1
  /\ phase = "probe" => opened <= at /\ (~stopped => opened = at)
  /\ phase = "reply" => ~stopped /\ opened = at + 1
  /\ phase = "trust" => opened <= ProbeCount + 1
  /\ (phase \in {"trust", "issuer"} /\ probeOn /\ ~stopped) => opened > ProbeCount
  /\ opened <= MaxConnections

\* NothingPassedOver from the moment the conclusions are drawn.
Told ==
  phase \in After /\ Connected /\ probeOn =>
    /\ \A v \in Weak \cap server.versions :
         <<"TLS-WEAK-PROTOCOL", v>> \in findings \/ v \in notes \/ v \in refused
    /\ \A g \in Probed :
         Accepts(g) => \/ <<"TLS-WEAK-CIPHER", g>> \in findings
                       \/ g \in notes \/ g \in refused

TlsInv ==
  /\ TypeOK /\ Honest /\ Settled /\ Course /\ Counted /\ Told
  /\ FindingsTrue /\ BudgetSuffices

(* The rules *)

\* The plan has every version and every group with suites, and nothing else.
LEMMA PlanSays ==
  /\ Plan \in Seq(STRING) /\ ProbeCount \in Nat /\ DOMAIN Plan = 1 .. ProbeCount
  /\ Protocol \subseteq SetOf(Plan) /\ Probed \subseteq SetOf(Plan)
  /\ SetOf(Plan) \subseteq Protocol \cup Group
  /\ MaxConnections \in Nat /\ MaxConnections >= ProbeCount + 2
<1>1. /\ Protocols \in Seq(STRING) /\ ProbedGroups \in Seq(Group) /\ Groups \in Seq(STRING)
  BY TlsAssumption
<1>2. Group \subseteq STRING
  BY <1>1 DEF Group, SetOf
<1>3. ProbedGroups \in Seq(STRING)
  BY <1>1, <1>2, SeqMonotonic
<1>4. /\ Plan \in Seq(STRING) /\ Len(Plan) = Len(Protocols) + Len(ProbedGroups)
      /\ \A i \in 1 .. Len(Plan) :
           Plan[i] = IF i <= Len(Protocols) THEN Protocols[i]
                     ELSE ProbedGroups[i - Len(Protocols)]
  BY <1>1, <1>3, ConcatProperties DEF Plan
<1>5. /\ DOMAIN Plan = 1 .. Len(Plan) /\ DOMAIN Protocols = 1 .. Len(Protocols)
      /\ DOMAIN ProbedGroups = 1 .. Len(ProbedGroups)
      /\ Len(Plan) \in Nat /\ Len(Protocols) \in Nat /\ Len(ProbedGroups) \in Nat
  BY <1>1, <1>3, <1>4
<1>6. Protocol \subseteq SetOf(Plan)
  BY <1>4, <1>5 DEF Protocol, SetOf
<1>7. Probed \subseteq SetOf(Plan)
  <2>1. ASSUME NEW j \in 1 .. Len(ProbedGroups)
        PROVE  j + Len(Protocols) \in 1 .. Len(Plan) /\ Plan[j + Len(Protocols)] = ProbedGroups[j]
    BY <1>4, <1>5
  <2> QED
    BY <1>5, <2>1 DEF Probed, SetOf
<1>8. SetOf(Plan) \subseteq Protocol \cup Group
  <2>1. ASSUME NEW i \in 1 .. Len(Plan)
        PROVE  Plan[i] \in Protocol \cup Group
    <3>1. CASE i <= Len(Protocols)
      BY <1>4, <1>5, <3>1 DEF Protocol, SetOf
    <3>2. CASE ~(i <= Len(Protocols))
      <4>1. i - Len(Protocols) \in 1 .. Len(ProbedGroups)
        BY <1>4, <1>5, <3>2
      <4>2. ProbedGroups[i - Len(Protocols)] \in Group
        BY <1>1, <4>1, ElementOfSeq
      <4> QED
        BY <1>4, <3>2, <4>2
    <3> QED
      BY <3>1, <3>2
  <2> QED
    BY <1>5, <2>1 DEF SetOf
<1>9. MaxConnections \in Nat /\ MaxConnections >= ProbeCount + 2
  BY TlsAssumption DEF RulesValid, CertificateConnections
<1> QED
  BY <1>4, <1>5, <1>6, <1>7, <1>8, <1>9 DEF ProbeCount

\* Who can agree to the probe of a version speaks it.
LEMMA AcceptsSays == \A v \in Protocol : Accepts(v) => v \in server.versions
BY DEF Accepts, Speaks

(* The steps *)

\* A probe gets its outcome, which has its ground in what the server said or
\* can do, and the next one is due.
Settles ==
  /\ at \in DOMAIN Plan /\ probeOn /\ phase' = "probe" /\ Elsewhere
  /\ \E o \in Outcome :
       /\ Record(o)
       /\ o = "accepted" => Accepts(Plan[at])
       /\ o = "rejected" => Plan[at] \in refused'
  /\ refused \subseteq refused' /\ refused' \subseteq SetOf(Plan)
  /\ records' \in 0 .. MaxReplyRecords /\ stopped' \in BOOLEAN
  /\ opened' \in Nat /\ opened' <= at + 1 /\ (~stopped' => opened' = at + 1)
  /\ phase \in {"probe", "reply"}

\* A record that is not the last the probe reads.
ReadMore == ReadPart /\ records + 1 # MaxReplyRecords

Step ==
  \/ LimitReached \/ CertificateConnection \/ CertificateConnectionFails \/ Connect
  \/ ReadMore \/ Conclude \/ VerifyTrust \/ VerifyTrustFails \/ Finish \/ Settles

\* However a probe ends, its outcome has its ground.
LEMMA EveryProbeSettles ==
  ASSUME TlsInv,
         \/ SkipProbe \/ ConnectFails \/ ReadHello \/ ReadRefusal \/ ReadFails
         \/ ReadPart /\ records + 1 = MaxReplyRecords
  PROVE  Settles
<1>0. /\ at \in 1 .. ProbeCount + 1 /\ opened \in Nat /\ stopped \in BOOLEAN
      /\ records \in 0 .. MaxReplyRecords /\ 0 \in 0 .. MaxReplyRecords
      /\ DOMAIN Plan = 1 .. ProbeCount /\ ProbeCount \in Nat /\ MaxConnections \in Nat
      /\ MaxConnections >= ProbeCount + 2 /\ refused \subseteq SetOf(Plan)
      /\ at \in DOMAIN Plan => Plan[at] \in SetOf(Plan)
  BY PlanSays DEF TlsInv, TypeOK, MaxReplyRecords, SetOf
<1>1. CASE SkipProbe
  <2>1. at \in DOMAIN Plan /\ phase = "probe" /\ (stopped \/ ~InBudget)
        /\ Record("error") /\ UNCHANGED <<phase, records, refused, stopped, opened>>
        /\ Elsewhere
    BY <1>1 DEF SkipProbe, Probing
  <2>2. opened <= at /\ (~stopped => opened = at) /\ probeOn
    BY <2>1 DEF TlsInv, Counted, Course
  <2>3. stopped
    BY <1>0, <2>1, <2>2 DEF InBudget, Budget, CertificateConnections
  <2> QED
    BY <1>0, <2>1, <2>2, <2>3 DEF Settles, Outcome
<1>2. CASE ConnectFails
  <2>1. at \in DOMAIN Plan /\ phase = "probe" /\ opened' = opened + 1 /\ stopped' = TRUE
        /\ Record("error") /\ UNCHANGED <<phase, records, refused>> /\ Elsewhere
    BY <1>2 DEF ConnectFails, Probing, Open
  <2>2. opened <= at /\ probeOn
    BY <2>1 DEF TlsInv, Counted, Course
  <2> QED
    BY <1>0, <2>1, <2>2 DEF Settles, Outcome
<1>3. ASSUME NEW o \in Outcome, NEW d \in BOOLEAN, Answered(o, d), phase = "reply",
             o = "accepted" => Accepts(Plan[at]), o = "rejected" => d
      PROVE  Settles
  <2>1. at \in DOMAIN Plan /\ probeOn /\ opened = at + 1 /\ opened' = opened
        /\ stopped' = stopped /\ records' = 0 /\ phase' = "probe" /\ Record(o) /\ Elsewhere
        /\ refused' = IF d THEN refused \cup {Plan[at]} ELSE refused
    BY <1>3 DEF Answered, TlsInv, Course, Counted
  <2> QED
    BY <1>0, <1>3, <2>1 DEF Settles
<1>4. CASE ReadHello
  <2>1. phase = "reply"
    BY <1>4 DEF ReadHello
  <2>2. CASE Accepts(Plan[at]) /\ Answered(Verdict(TRUE), FALSE)
    BY <1>3, <2>1, <2>2 DEF Verdict, ProtocolVerdict, GroupVerdict, Outcome
  <2>3. CASE Answered(Verdict(FALSE), Plan[at] \in Protocol)
    <3>1. /\ Verdict(FALSE) \in Outcome /\ Verdict(FALSE) # "accepted"
          /\ Verdict(FALSE) = "rejected" => Plan[at] \in Protocol
      BY DEF Verdict, ProtocolVerdict, GroupVerdict, Outcome
    <3>2. (Plan[at] \in Protocol) \in BOOLEAN
      OBVIOUS
    <3> QED
      BY <1>3, <2>1, <2>3, <3>1, <3>2
  <2> QED
    BY <1>4, <2>2, <2>3 DEF ReadHello
<1>5. CASE ReadRefusal
  BY <1>3, <1>5 DEF ReadRefusal, ReplyOutcome, Outcome
<1>6. CASE ReadFails
  BY <1>3, <1>6 DEF ReadFails, ReplyOutcome, Outcome
<1>7. CASE ReadPart /\ records + 1 = MaxReplyRecords
  BY <1>3, <1>7 DEF ReadPart, Outcome
<1> QED
  BY <1>1, <1>2, <1>4, <1>5, <1>6, <1>7

\* What recording an outcome does.
LEMMA RecordSays ==
  ASSUME TypeOK, at \in DOMAIN Plan, NEW o \in Outcome, Record(o)
  PROVE  /\ report' \in [SetOf(Plan) -> Outcome \cup {"none"}]
         /\ at' = at + 1 /\ at' \in 1 .. ProbeCount + 1
         /\ Plan[at] \in SetOf(Plan) /\ report'[Plan[at]] = o
         /\ \A p \in SetOf(Plan) : p # Plan[at] => report'[p] = report[p]
<1>1. report \in [SetOf(Plan) -> Outcome \cup {"none"}] /\ at \in 1 .. ProbeCount + 1
  BY DEF TypeOK
<1>2. Plan[at] \in SetOf(Plan)
  BY DEF SetOf
<1> QED
  BY <1>1, <1>2, PlanSays DEF Record

\* What a settled probe leaves behind.
LEMMA SettlesSays ==
  ASSUME TlsInv, Settles
  PROVE  \E o \in Outcome :
           /\ o = "accepted" => Accepts(Plan[at])
           /\ o = "rejected" => Plan[at] \in refused'
           /\ \A p \in SetOf(Plan) :
                (p = Plan[at] /\ report'[p] = o) \/ report'[p] = report[p]
           /\ report'[Plan[at]] = o
           /\ at \in 1 .. ProbeCount /\ at' = at + 1 /\ UNCHANGED <<server, negotiated>>
           /\ refused \subseteq refused'
<1>1. at \in DOMAIN Plan /\ TypeOK /\ UNCHANGED <<server, negotiated>>
      /\ refused \subseteq refused'
  BY DEF Settles, TlsInv, Elsewhere
<1>2. ASSUME NEW o \in Outcome, Record(o),
             o = "accepted" => Accepts(Plan[at]), o = "rejected" => Plan[at] \in refused'
      PROVE  \E q \in Outcome :
               /\ q = "accepted" => Accepts(Plan[at])
               /\ q = "rejected" => Plan[at] \in refused'
               /\ \A p \in SetOf(Plan) :
                    (p = Plan[at] /\ report'[p] = q) \/ report'[p] = report[p]
               /\ report'[Plan[at]] = q
               /\ at \in 1 .. ProbeCount /\ at' = at + 1 /\ UNCHANGED <<server, negotiated>>
               /\ refused \subseteq refused'
  <2>1. /\ at' = at + 1 /\ report'[Plan[at]] = o
        /\ \A p \in SetOf(Plan) : p # Plan[at] => report'[p] = report[p]
    BY <1>1, <1>2, RecordSays
  <2>2. at \in 1 .. ProbeCount
    BY <1>1, PlanSays
  <2>3. \A p \in SetOf(Plan) :
          (p = Plan[at] /\ report'[p] = o) \/ report'[p] = report[p]
    BY <2>1
  <2> QED
    BY <1>1, <1>2, <2>1, <2>2, <2>3
<1> QED
  BY <1>2 DEF Settles

\* The group of a suite is one of the groups with a marker in its name.
LEMMA GroupOfSays ==
  ASSUME NEW s \in Suite
  PROVE  GroupOf(s) \in Group \cup {None} /\ (GroupOf(s) # None => GroupOf(s) \in Markers[s])
<1> DEFINE R == OpToRel(<, Nat)
           hits == {i \in DOMAIN Groups : Groups[i] \in Markers[s]}
<1>1. CASE Markers[s] = {}
  BY <1>1 DEF GroupOf
<1>2. CASE Markers[s] # {}
  <2>1. Markers[s] \subseteq Group /\ DOMAIN Groups \subseteq Nat
    BY TlsAssumption
  <2>2. hits # {} /\ hits \subseteq Nat
    BY <1>2, <2>1 DEF Group, SetOf
  <2>3. IsWellFoundedOn(R, Nat)
    BY NatLessThanWellFounded
  <2>4. \A x, y \in Nat : y < x => <<y, x>> \in R
    BY DEF OpToRel
  <2> HIDE DEF R
  <2>5. PICK i \in hits : \A j \in hits : ~ <<j, i>> \in R
    BY <2>2, <2>3, WFMin
  <2>6. \A j \in 1 .. i - 1 : Groups[j] \notin Markers[s]
    <3> SUFFICES ASSUME NEW j \in 1 .. i - 1, Groups[j] \in Markers[s] PROVE FALSE
      OBVIOUS
    <3>1. j \in hits /\ j \in Nat /\ i \in Nat /\ j < i
      <4>1. /\ i \in Nat /\ i \in 1 .. Len(Groups)
            /\ DOMAIN Groups = 1 .. Len(Groups) /\ Len(Groups) \in Nat
        BY <2>2, <2>5, TlsAssumption
      <4> QED
        BY <4>1
    <3> QED
      BY <2>4, <2>5, <3>1
  <2>7. \E k \in DOMAIN Groups : Groups[k] \in Markers[s]
                                 /\ \A j \in 1 .. k - 1 : Groups[j] \notin Markers[s]
    BY <2>5, <2>6
  <2>8. GroupOf(s) \in Markers[s]
    BY <1>2, <2>7 DEF GroupOf
  <2> QED
    BY <2>1, <2>8
<1> QED
  BY <1>1, <1>2

\* Every step keeps the types.
LEMMA TypeStep ==
  ASSUME TlsInv, Step
  PROVE  TypeOK'
<1>1. CASE LimitReached
  BY <1>1 DEF LimitReached, Fixed, Open, TlsInv, TypeOK
<1>2. CASE CertificateConnection
  <2> USE DEF TlsInv, TypeOK
  <2>1. \A s \in Suite : GroupOf(s) \in Group \cup {None}
    BY GroupOfSays
  <2>2. server \in Server /\ Negotiable \subseteq Protocol
    BY TlsAssumption
  <2>3. server.versions \subseteq Protocol /\ server.suites \subseteq Suite
    BY <2>2 DEF Server
  <2>0. PICK v \in server.versions \cap Negotiable :
          \E g \in IF v = TLS13 THEN {None} ELSE {GroupOf(s) : s \in server.suites} :
            negotiated' = [version |-> v, group |-> g]
    BY <1>2 DEF CertificateConnection
  <2>4. PICK g \in IF v = TLS13 THEN {None} ELSE {GroupOf(s) : s \in server.suites} :
          negotiated' = [version |-> v, group |-> g]
    BY <2>0
  <2>5. negotiated' \in [version : Protocol \cup {None}, group : Group \cup {None}]
    BY <2>1, <2>3, <2>4
  <2> QED
    BY <1>2, <2>5 DEF CertificateConnection, Fixed, Open
<1>3. CASE CertificateConnectionFails
  BY <1>3 DEF CertificateConnectionFails, Fixed, Open, TlsInv, TypeOK
<1>4. CASE Connect
  BY <1>4 DEF Connect, Probing, Open, Elsewhere, MaxReplyRecords, TlsInv, TypeOK
<1>5. CASE ReadMore
  BY <1>5 DEF ReadMore, ReadPart, Elsewhere, MaxReplyRecords, Course, TlsInv, TypeOK
<1>6. CASE Conclude
  BY <1>6 DEF Conclude, Fixed, Open, TlsInv, TypeOK
<1>7. CASE VerifyTrust
  BY <1>7 DEF VerifyTrust, Fixed, Open, TlsInv, TypeOK
<1>8. CASE VerifyTrustFails
  BY <1>8 DEF VerifyTrustFails, Fixed, Open, TlsInv, TypeOK
<1>9. CASE Finish
  BY <1>9 DEF Finish, TlsInv, TypeOK
<1>10. CASE Settles
  BY <1>10, RecordSays DEF Settles, Elsewhere, TlsInv, TypeOK
<1> QED
  BY <1>1, <1>2, <1>3, <1>4, <1>5, <1>6, <1>7, <1>8, <1>9, <1>10 DEF Step

\* What is recorded has its ground in what the server has and has said.
LEMMA HonestStep ==
  ASSUME TlsInv, Step
  PROVE  Honest'
<1>1. CASE LimitReached
  BY <1>1 DEF LimitReached, Fixed, Open, TlsInv, Honest, Accepts, Speaks
<1>2. CASE CertificateConnection
  <2> USE DEF TlsInv, Honest, Accepts, Speaks
  <2>0. PICK v \in server.versions \cap Negotiable :
          \E g \in IF v = TLS13 THEN {None} ELSE {GroupOf(s) : s \in server.suites} :
            negotiated' = [version |-> v, group |-> g]
    BY <1>2 DEF CertificateConnection
  <2>1. UNCHANGED <<server, report, refused>>
    BY <1>2 DEF CertificateConnection, Fixed
  <2> QED
    BY <2>0, <2>1
<1>3. CASE CertificateConnectionFails
  BY <1>3 DEF CertificateConnectionFails, Fixed, Open, TlsInv, Honest, Accepts, Speaks
<1>4. CASE Connect
  BY <1>4 DEF Connect, Probing, Open, Elsewhere, TlsInv, Honest, Accepts, Speaks
<1>5. CASE ReadMore
  BY <1>5 DEF ReadMore, ReadPart, Elsewhere, MaxReplyRecords, TlsInv, Honest, Accepts,
     Speaks
<1>6. CASE Conclude
  BY <1>6 DEF Conclude, Fixed, Open, TlsInv, Honest, Accepts, Speaks
<1>7. CASE VerifyTrust
  BY <1>7 DEF VerifyTrust, Fixed, Open, TlsInv, Honest, Accepts, Speaks
<1>8. CASE VerifyTrustFails
  BY <1>8 DEF VerifyTrustFails, Fixed, Open, TlsInv, Honest, Accepts, Speaks
<1>9. CASE Finish
  BY <1>9 DEF Finish, TlsInv, Honest, Accepts, Speaks
<1>10. CASE Settles
  <2> USE DEF TlsInv, Honest, Accepts, Speaks
  <2> HIDE DEF Accepts, Speaks
  <2>1. server' = server /\ \A p : Accepts(p)' <=> Accepts(p)
    BY <1>10, SettlesSays DEF Accepts, Speaks
  <2> QED
    BY <1>10, <2>1, SettlesSays
<1> QED
  BY <1>1, <1>2, <1>3, <1>4, <1>5, <1>6, <1>7, <1>8, <1>9, <1>10 DEF Step

\* Every probe that was passed has its outcome.
LEMMA SettledStep ==
  ASSUME TlsInv, Step
  PROVE  Settled'
<1>1. CASE LimitReached
  BY <1>1 DEF LimitReached, Fixed, Open, TlsInv, Settled
<1>2. CASE CertificateConnection
  BY <1>2 DEF CertificateConnection, Fixed, Open, TlsInv, Settled
<1>3. CASE CertificateConnectionFails
  BY <1>3 DEF CertificateConnectionFails, Fixed, Open, TlsInv, Settled
<1>4. CASE Connect
  BY <1>4 DEF Connect, Probing, Open, Elsewhere, TlsInv, Settled
<1>5. CASE ReadMore
  BY <1>5 DEF ReadMore, ReadPart, Elsewhere, MaxReplyRecords, TlsInv, Settled
<1>6. CASE Conclude
  BY <1>6 DEF Conclude, Fixed, Open, TlsInv, Settled
<1>7. CASE VerifyTrust
  BY <1>7 DEF VerifyTrust, Fixed, Open, TlsInv, Settled
<1>8. CASE VerifyTrustFails
  BY <1>8 DEF VerifyTrustFails, Fixed, Open, TlsInv, Settled
<1>9. CASE Finish
  BY <1>9 DEF Finish, TlsInv, Settled
<1>10. CASE Settles
  <2> USE DEF TlsInv, Settled
  <2>1. PICK o \in Outcome :
          /\ \A p \in SetOf(Plan) :
               (p = Plan[at] /\ report'[p] = o) \/ report'[p] = report[p]
          /\ report'[Plan[at]] = o /\ at \in 1 .. ProbeCount /\ at' = at + 1
    BY <1>10, SettlesSays
  <2>2. ASSUME NEW i \in DOMAIN Plan, i < at'
        PROVE  report'[Plan[i]] # "none"
    <3>1. Plan[i] \in SetOf(Plan) /\ o # "none"
      BY DEF SetOf, Outcome
    <3>2. i < at \/ i = at
      BY <2>1, <2>2, PlanSays
    <3>3. CASE i = at
      BY <2>1, <3>1, <3>3
    <3>4. CASE i < at
      BY <2>1, <3>1, <3>4
    <3> QED
      BY <3>2, <3>3, <3>4
  <2> QED
    BY <2>2
<1> QED
  BY <1>1, <1>2, <1>3, <1>4, <1>5, <1>6, <1>7, <1>8, <1>9, <1>10 DEF Step

\* The check keeps its course.
LEMMA CourseStep ==
  ASSUME TlsInv, Step
  PROVE  Course'
<1>1. CASE LimitReached
  BY <1>1 DEF LimitReached, Fixed, Open, TlsInv, Course, Before
<1>2. CASE CertificateConnection
  BY <1>2 DEF CertificateConnection, Fixed, TlsInv, Course, Before
<1>3. CASE CertificateConnectionFails
  BY <1>3 DEF CertificateConnectionFails, Fixed, Open, TlsInv, Course, Before
<1>4. CASE Connect
  BY <1>4 DEF Connect, Probing, Elsewhere, MaxReplyRecords, TlsInv, Course, Before
<1>5. CASE ReadMore
  BY <1>5 DEF ReadMore, ReadPart, Elsewhere, MaxReplyRecords, TypeOK, TlsInv, Course, Before
<1>6. CASE Conclude
  BY <1>6 DEF Conclude, Fixed, Open, TlsInv, Course, Before
<1>7. CASE VerifyTrust
  BY <1>7 DEF VerifyTrust, Fixed, Open, TlsInv, Course, Before
<1>8. CASE VerifyTrustFails
  BY <1>8 DEF VerifyTrustFails, Fixed, Open, TlsInv, Course, Before
<1>9. CASE Finish
  BY <1>9 DEF Finish, TlsInv, Course, Before
<1>10. CASE Settles
  BY <1>10 DEF Settles, Elsewhere, TlsInv, Course, Before
<1> QED
  BY <1>1, <1>2, <1>3, <1>4, <1>5, <1>6, <1>7, <1>8, <1>9, <1>10 DEF Step

\* One connection for the certificate, one per probe, one for the trust.
LEMMA CountedStep ==
  ASSUME TlsInv, Step
  PROVE  Counted'
<1>1. CASE LimitReached
  BY <1>1, PlanSays DEF LimitReached, Fixed, Open, TlsInv, Course, Counted, TypeOK
<1>2. CASE CertificateConnection
  BY <1>2, PlanSays DEF CertificateConnection, Fixed, Open, TlsInv, Course, Counted, TypeOK
<1>3. CASE CertificateConnectionFails
  BY <1>3, PlanSays DEF CertificateConnectionFails, Fixed, Open, TlsInv, Course, Counted,
     TypeOK
<1>4. CASE Connect
  BY <1>4, PlanSays DEF Connect, Probing, Open, Elsewhere, TlsInv, Course, Counted, TypeOK
<1>5. CASE ReadMore
  BY <1>5, PlanSays DEF ReadMore, ReadPart, Elsewhere, MaxReplyRecords, TlsInv, Course,
     Counted, TypeOK
<1>6. CASE Conclude
  BY <1>6, PlanSays DEF Conclude, Fixed, Open, TlsInv, Course, Counted, TypeOK
<1>7. CASE VerifyTrust
  BY <1>7, PlanSays DEF VerifyTrust, Fixed, Open, TlsInv, Course, Counted, TypeOK
<1>8. CASE VerifyTrustFails
  BY <1>8, PlanSays DEF VerifyTrustFails, Fixed, Open, TlsInv, Course, Counted, TypeOK
<1>9. CASE Finish
  BY <1>9, PlanSays DEF Finish, TlsInv, Course, Counted, TypeOK
<1>10. CASE Settles
  BY <1>10, PlanSays, RecordSays DEF Settles, Elsewhere, TlsInv, Course, Counted, TypeOK
<1> QED
  BY <1>1, <1>2, <1>3, <1>4, <1>5, <1>6, <1>7, <1>8, <1>9, <1>10 DEF Step

\* What is not a finding is among what could not be tested.
LEMMA ToldStep ==
  ASSUME TlsInv, Step
  PROVE  Told'
<1>1. CASE LimitReached
  BY <1>1 DEF LimitReached, Fixed, TlsInv, Told, After, Connected, Accepts, Speaks
<1>2. CASE CertificateConnection
  BY <1>2 DEF CertificateConnection, Fixed, TlsInv, Told, After, Connected, Accepts, Speaks
<1>3. CASE CertificateConnectionFails
  BY <1>3 DEF CertificateConnectionFails, Fixed, Course, TlsInv, Told, After, Connected,
     Accepts, Speaks
<1>4. CASE Connect
  BY <1>4 DEF Connect, Probing, Open, Elsewhere, TlsInv, Told, After, Connected,
     Accepts, Speaks
<1>5. CASE ReadMore
  BY <1>5 DEF ReadMore, ReadPart, Elsewhere, MaxReplyRecords, TlsInv, Told, After,
     Connected, Accepts, Speaks
<1>6. CASE Conclude
  <2> USE DEF TlsInv, Told, After, Connected, Accepts, Speaks
  <2>1. UNCHANGED <<server, probeOn, report, refused, negotiated>>
    BY <1>6 DEF Conclude, Fixed
  <2>2. SUFFICES ASSUME probeOn PROVE
          /\ \A v \in Weak \cap server.versions :
               <<"TLS-WEAK-PROTOCOL", v>> \in findings' \/ v \in notes' \/ v \in refused
          /\ \A g \in Probed :
               Accepts(g) => \/ <<"TLS-WEAK-CIPHER", g>> \in findings'
                             \/ g \in notes' \/ g \in refused
    BY <2>1
  <2>3. /\ WeakProtocolFindings \cup WeakCipherFindings \subseteq findings'
        /\ UntestedNotes \subseteq notes'
    BY <1>6, <2>2 DEF Conclude
  <2>4. \A p \in SetOf(Plan) : report[p] # "none"
    <3>1. at \notin DOMAIN Plan
      BY <1>6, <2>2 DEF Conclude, Course
    <3>2. \A i \in DOMAIN Plan : i < at
      BY <3>1, PlanSays DEF TypeOK
    <3> QED
      BY <3>2 DEF Settled, SetOf
  <2>5. \A p \in SetOf(Plan) : report[p] \in Outcome /\ DOMAIN report = SetOf(Plan)
    BY <2>4 DEF TypeOK
  <2>6. \A p \in SetOf(Plan) : AcceptedBy(p) \/ p \in UntestedNotes \/ p \in refused
    BY <2>5 DEF Honest, AcceptedBy, UntestedNotes, Outcome
  <2>7. ASSUME NEW v \in Weak \cap server.versions
        PROVE  <<"TLS-WEAK-PROTOCOL", v>> \in findings' \/ v \in notes' \/ v \in refused
    <3>1. v \in SetOf(Plan)
      BY <2>7, TlsAssumption, PlanSays
    <3> QED
      BY <2>3, <2>6, <2>7, <3>1 DEF WeakProtocolFindings
  <2>8. ASSUME NEW g \in Probed, Accepts(g)
        PROVE  <<"TLS-WEAK-CIPHER", g>> \in findings' \/ g \in notes' \/ g \in refused
    <3>1. g \in Group /\ g \in SetOf(Plan)
      BY <2>8, TlsAssumption, PlanSays
    <3> QED
      BY <2>3, <2>6, <3>1 DEF WeakCipherFindings
  <2> QED
    BY <2>7, <2>8
<1>7. CASE VerifyTrust
  BY <1>7 DEF VerifyTrust, Fixed, Course, TlsInv, Told, After, Connected, Accepts, Speaks
<1>8. CASE VerifyTrustFails
  BY <1>8 DEF VerifyTrustFails, Fixed, Course, TlsInv, Told, After, Connected, Accepts, Speaks
<1>9. CASE Finish
  BY <1>9 DEF Finish, TlsInv, Told, After, Connected, Accepts, Speaks
<1>10. CASE Settles
  BY <1>10, RecordSays DEF Settles, Elsewhere, TlsInv, Told, After, Connected, Accepts, Speaks
<1> QED
  BY <1>1, <1>2, <1>3, <1>4, <1>5, <1>6, <1>7, <1>8, <1>9, <1>10 DEF Step

\* Only what the server accepts is found.
LEMMA FindingsTrueStep ==
  ASSUME TlsInv, Step
  PROVE  FindingsTrue'
<1>1. CASE LimitReached
  BY <1>1 DEF LimitReached, Fixed, Open, TlsInv, FindingsTrue, Uses, Accepts, Speaks
<1>2. CASE CertificateConnection
  BY <1>2 DEF CertificateConnection, Fixed, Open, TlsInv, FindingsTrue, Uses, Accepts, Speaks
<1>3. CASE CertificateConnectionFails
  BY <1>3 DEF CertificateConnectionFails, Fixed, Open, TlsInv, FindingsTrue, Uses,
     Accepts, Speaks
<1>4. CASE Connect
  BY <1>4 DEF Connect, Probing, Open, Elsewhere, TlsInv, FindingsTrue, Uses, Accepts, Speaks
<1>5. CASE ReadMore
  BY <1>5 DEF ReadMore, ReadPart, Elsewhere, MaxReplyRecords, TlsInv, FindingsTrue, Uses,
     Accepts, Speaks
<1>6. CASE Conclude
  <2> USE DEF TlsInv, FindingsTrue, Uses, Accepts, Speaks
  <2> HIDE DEF Uses, Accepts, Speaks
  <2>1. UNCHANGED <<server, trust>>
    BY <1>6 DEF Conclude, Fixed
  <2>2. PICK c \in Certificate :
          findings' = WeakProtocolFindings \cup WeakCipherFindings \cup CertificateFindings(c)
    BY <1>6 DEF Conclude
  <2>3. \A p \in DOMAIN report : AcceptedBy(p) => Accepts(p)
    BY DEF Honest, AcceptedBy, TypeOK
  <2>4. ASSUME NEW f \in WeakProtocolFindings
        PROVE  f[1] = "TLS-WEAK-PROTOCOL" /\ f[2] \in server.versions
    <3>1. PICK v \in Weak : /\ f = <<"TLS-WEAK-PROTOCOL", v>>
                            /\ negotiated.version = v \/ AcceptedBy(v)
      BY <2>4 DEF WeakProtocolFindings
    <3>2. v \in Protocol /\ v # None
      BY TlsAssumption
    <3>3. v \in server.versions
      BY <2>3, <3>1, <3>2, AcceptsSays DEF Honest, AcceptedBy
    <3> QED
      BY <3>1, <3>3
  <2>5. ASSUME NEW f \in WeakCipherFindings
        PROVE  f[1] = "TLS-WEAK-CIPHER" /\ Uses(f[2])
    <3>1. PICK g \in Group : /\ f = <<"TLS-WEAK-CIPHER", g>>
                             /\ negotiated.group = g \/ AcceptedBy(g)
      BY <2>5 DEF WeakCipherFindings
    <3>2. g # None
      BY TlsAssumption
    <3>3. Uses(g)
      BY <2>3, <3>1, <3>2, AcceptsSays DEF Honest, AcceptedBy, Uses
    <3> QED
      BY <3>1, <3>3
  <2>6. ASSUME NEW f \in CertificateFindings(c)
        PROVE  f[1] \notin {"TLS-WEAK-PROTOCOL", "TLS-WEAK-CIPHER", "TLS-CERT-NOT-TRUSTED"}
    BY <2>6 DEF CertificateFindings
  <2>7. \A g : Uses(g)' <=> Uses(g)
    BY <2>1 DEF Uses, Accepts, Speaks
  <2>8. ASSUME NEW f \in findings'
        PROVE  /\ f[1] = "TLS-WEAK-PROTOCOL" => f[2] \in server.versions
               /\ f[1] = "TLS-WEAK-CIPHER" => Uses(f[2])
               /\ f[1] # "TLS-CERT-NOT-TRUSTED"
    <3>1. CASE f \in WeakProtocolFindings
      BY <2>4, <3>1
    <3>2. CASE f \in WeakCipherFindings
      BY <2>5, <3>2
    <3>3. CASE f \in CertificateFindings(c)
      BY <2>6, <3>3
    <3> QED
      BY <2>2, <2>8, <3>1, <3>2, <3>3
  <2> QED
    BY <2>1, <2>7, <2>8
<1>7. CASE VerifyTrust
  <2> USE DEF TlsInv, FindingsTrue, Uses, Accepts, Speaks
  <2>1. UNCHANGED <<server, certificate>> /\ ~CertTimeProblem(certificate) /\ trust = "none"
    BY <1>7 DEF VerifyTrust, Fixed, Course, Before
  <2>2. \A g : Uses(g)' <=> Uses(g)
    BY <2>1
  <2> QED
    BY <1>7, <2>1, <2>2 DEF VerifyTrust
<1>8. CASE VerifyTrustFails
  BY <1>8 DEF VerifyTrustFails, Fixed, Course, Before, TlsInv, FindingsTrue, Uses,
     Accepts, Speaks
<1>9. CASE Finish
  BY <1>9 DEF Finish, TlsInv, FindingsTrue, Uses, Accepts, Speaks
<1>10. CASE Settles
  BY <1>10, RecordSays DEF Settles, Elsewhere, TlsInv, FindingsTrue, Uses, Accepts, Speaks
<1> QED
  BY <1>1, <1>2, <1>3, <1>4, <1>5, <1>6, <1>7, <1>8, <1>9, <1>10 DEF Step

\* The budget is enough for every probe.
LEMMA BudgetSufficesStep ==
  ASSUME TlsInv, Step
  PROVE  BudgetSuffices'
<1>1. CASE LimitReached
  BY <1>1, PlanSays DEF LimitReached, Fixed, Open, TlsInv, BudgetSuffices, Course, Counted,
     TypeOK, Connected
<1>2. CASE CertificateConnection
  BY <1>2, PlanSays DEF CertificateConnection, Fixed, Open, TlsInv, BudgetSuffices, Course,
     Counted, TypeOK, Connected
<1>3. CASE CertificateConnectionFails
  BY <1>3, PlanSays DEF CertificateConnectionFails, Fixed, Open, TlsInv, BudgetSuffices,
     Course, Counted, TypeOK, Connected
<1>4. CASE Connect
  BY <1>4, PlanSays DEF Connect, Probing, Open, Elsewhere, TlsInv, BudgetSuffices, Course,
     Counted, TypeOK, Connected
<1>5. CASE ReadMore
  BY <1>5, PlanSays DEF ReadMore, ReadPart, Elsewhere, MaxReplyRecords, TlsInv,
     BudgetSuffices, Course, Counted, TypeOK, Connected
<1>6. CASE Conclude
  BY <1>6, PlanSays DEF Conclude, Fixed, Open, TlsInv, BudgetSuffices, Course, Counted,
     TypeOK, Connected
<1>7. CASE VerifyTrust
  BY <1>7, PlanSays DEF VerifyTrust, Fixed, Open, TlsInv, BudgetSuffices, Course, Counted,
     TypeOK, Connected
<1>8. CASE VerifyTrustFails
  BY <1>8, PlanSays DEF VerifyTrustFails, Fixed, Open, TlsInv, BudgetSuffices, Course,
     Counted, TypeOK, Connected
<1>9. CASE Finish
  BY <1>9, PlanSays DEF Finish, TlsInv, BudgetSuffices, Course, Counted, TypeOK, Connected
<1>10. CASE Settles
  BY <1>10, PlanSays DEF Settles, Elsewhere, TlsInv, BudgetSuffices, Course, Counted,
     TypeOK, Connected
<1> QED
  BY <1>1, <1>2, <1>3, <1>4, <1>5, <1>6, <1>7, <1>8, <1>9, <1>10 DEF Step

LEMMA TlsInvInitially ==
  ASSUME Init
  PROVE  TlsInv
<1>1. ProbeCount \in Nat /\ MaxConnections \in Nat /\ MaxConnections >= ProbeCount + 2
  BY PlanSays
<1>2. /\ server \in Server /\ probeOn \in BOOLEAN /\ phase = "certificate" /\ at = 1
      /\ records = 0 /\ report = [p \in SetOf(Plan) |-> "none"] /\ stopped = FALSE
      /\ opened = 0 /\ negotiated = [version |-> None, group |-> None]
      /\ certificate = "none" /\ trust = "none" /\ refused = {}
  BY DEF Init, Start
<1>5. report \in [SetOf(Plan) -> Outcome \cup {"none"}]
  BY <1>2
<1>6. at \in 1 .. ProbeCount + 1
  BY <1>1, <1>2
<1>7. TypeOK
  <2>1. negotiated \in [version : Protocol \cup {None}, group : Group \cup {None}]
    BY <1>2
  <2>2. records = 0 /\ opened = 0
    BY <1>2
  <2>3. records \in 0 .. MaxReplyRecords /\ opened \in Nat
    BY <2>2 DEF MaxReplyRecords
  <2>4. stopped \in BOOLEAN
    BY <1>2
  <2> QED
    BY <1>2, <1>5, <1>6, <2>1, <2>3, <2>4 DEF TypeOK
<1>3. Honest /\ Settled
  BY <1>1, PlanSays DEF Init, Start, Honest, Settled
<1>4. Course /\ Counted /\ Told /\ FindingsTrue /\ BudgetSuffices
  BY <1>1 DEF Init, Start, Course, Counted, Told, FindingsTrue, BudgetSuffices, Before, After
<1> QED
  BY <1>3, <1>4, <1>7 DEF TlsInv

LEMMA TlsInvStutters ==
  ASSUME TlsInv, UNCHANGED vars
  PROVE  TlsInv'
BY DEF TlsInv, vars, TypeOK, Honest, Accepts, Speaks, Settled, Course, Counted, Told,
   Connected, FindingsTrue, Uses, BudgetSuffices, Before, After

LEMMA TlsInvStep ==
  ASSUME TlsInv, Next
  PROVE  TlsInv'
<1>1. Step
  <2>1. CASE \/ SkipProbe \/ ConnectFails \/ ReadHello \/ ReadRefusal \/ ReadFails
             \/ ReadPart /\ records + 1 = MaxReplyRecords
    BY <2>1, EveryProbeSettles DEF Step
  <2>2. CASE ReadPart /\ records + 1 # MaxReplyRecords
    BY <2>2 DEF Step, ReadMore
  <2> QED
    BY <2>1, <2>2 DEF Next, Step
<1> QED
  BY <1>1, TypeStep, HonestStep, SettledStep, CourseStep, CountedStep, ToldStep,
     FindingsTrueStep, BudgetSufficesStep DEF TlsInv

(* The results *)

\* Types, the grounds of every outcome (a ServerHello the server could send, or
\* its own refusal) and the count of connections hold throughout run_probes and
\* check_tls, whatever the server answers to any probe.
THEOREM TlsInvariant == Spec => []TlsInv
<1>1. Init => TlsInv
  BY TlsInvInitially
<1>2. TlsInv /\ [Next]_vars => TlsInv'
  BY TlsInvStep, TlsInvStutters
<1> QED
  BY <1>1, <1>2, PTL DEF Spec

\* A weak version the server speaks, or a weak group it would agree to, is found
\* or among what could not be tested, unless the server itself declined that
\* very probe (run_probes, check_tls).
THEOREM NothingEverPassedOver == Spec => []NothingPassedOver
<1>1. TlsInv => NothingPassedOver
  BY DEF TlsInv, Told, After, NothingPassedOver
<1> QED
  BY <1>1, TlsInvariant, PTL

\* No finding of weak protocols, weak ciphers or a failed trust is false.
THEOREM FindingsAreTrue == Spec => []FindingsTrue
<1>1. TlsInv => FindingsTrue
  BY DEF TlsInv
<1> QED
  BY <1>1, TlsInvariant, PTL

\* What rule_loader demands of max_connections is enough for every probe, and
\* the check never opens more.
THEOREM BudgetAlwaysSuffices == Spec => []BudgetSuffices
<1>1. TlsInv => BudgetSuffices
  BY DEF TlsInv
<1> QED
  BY <1>1, TlsInvariant, PTL

=============================================================================

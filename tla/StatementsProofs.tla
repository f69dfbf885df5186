-------------------------- MODULE StatementsProofs --------------------------
(***************************************************************************)
(* Proofs about the history of a company's concepts, for any reports it    *)
(* publishes and in whatever portions they are ingested: on the basis as   *)
(* originally reported, what was first said of a period under a tag stays. *)
(***************************************************************************)
EXTENDS Statements, TLAPS

\* Reports are published by rising date, and ingested in that order.
Typed ==
  /\ filings \in Seq(Reports)
  /\ ingested \in 0 .. Len(filings)
ByDate ==
  \A i, j \in 1 .. Len(filings) : i < j => Filed(filings[i]) < Filed(filings[j])
IInv == Typed /\ ByDate

\* A report has a quarter, and is filed in the quarter after it.
LEMMA ReportIs ==
  ASSUME NEW x \in Reports
  PROVE  /\ x.quarter \in Int /\ Filed(x) \in Int
         /\ x.shape = "amended" => Filed(x) = 2 * x.quarter + 2
         /\ x.shape # "amended" => Filed(x) = 2 * x.quarter + 1
         /\ Filed(x) <= 2 * x.quarter + 2
<1>1. x.quarter \in Int
  BY StatementsAssumption DEF Reports
<1> QED BY <1>1 DEF Filed

\* Each of its facts bears the date of the report.
LEMMA FactsAreDated ==
  ASSUME NEW x \in Reports, NEW f \in FilingFacts[x]
  PROVE  f.filed = Filed(x)
<1>1. CASE f \in FlowFacts(x)
  BY <1>1 DEF FlowFacts, Fact
<1>2. CASE f \in LevelFacts(x)
  BY <1>2 DEF LevelFacts, Fact
<1>3. f \in FlowFacts(x) \/ f \in LevelFacts(x)
  BY DEF FilingFacts
<1> QED BY <1>1, <1>2, <1>3

----------------------------------------------------------------------------
(* The steps.                                                              *)

\* A report is filed after the last one: its own amendment or the next quarter.
LEMMA PublishLater ==
  ASSUME IInv, NEW x \in Reports, Publish(x)
  PROVE  \A i \in 1 .. Len(filings) : Filed(filings[i]) < Filed(x)
<1> SUFFICES ASSUME NEW i \in 1 .. Len(filings) PROVE Filed(filings[i]) < Filed(x)
  OBVIOUS
<1> DEFINE n == Len(filings)
           last == filings[n]
<1>1. filings \in Seq(Reports) /\ n \in Nat /\ i \in 1 .. n /\ filings # <<>>
  BY DEF IInv, Typed
<1>2. last \in Reports /\ filings[i] \in Reports
  BY <1>1
<1>3. filings[i] = last \/ Filed(filings[i]) < Filed(last)
  <2>1. CASE i = n
    BY <2>1
  <2>2. CASE i # n
    BY <1>1, <2>2 DEF IInv, ByDate
  <2> QED BY <2>1, <2>2
<1>4. Filed(last) < Filed(x)
  <2>1. CASE x.shape = "amended"
    <3>1. x.quarter = last.quarter /\ last.shape # "amended"
      BY <2>1 DEF Publish
    <3> HIDE DEF last
    <3> QED BY <1>2, <2>1, <3>1, ReportIs
  <2>2. CASE x.shape # "amended"
    <3>1. x.quarter = last.quarter + 1
      BY <1>1, <2>2 DEF Publish, NextQuarters
    <3> HIDE DEF last
    <3>2. last.quarter \in Int /\ Filed(last) \in Int /\ Filed(last) <= 2 * last.quarter + 2
      BY <1>2, ReportIs
    <3>3. Filed(x) = 2 * x.quarter + 1
      BY <2>2, ReportIs
    <3> QED BY <3>1, <3>2, <3>3
  <2> QED BY <2>1, <2>2
<1> QED
  <2> HIDE DEF last
  <2> QED BY <1>2, <1>3, <1>4, ReportIs

\* A read or an ingest changes nothing but what is ingested, and that to all.
Loads ==
  /\ filings' = filings /\ framed' = framed
  /\ ingested' \in {ingested, Len(filings)}
LEMMA FullReadLoads ==
  ASSUME NEW ask, NEW found, NEW body, FullRead(ask, found, body)
  PROVE  Loads
BY DEF FullRead, Show, AllLoaded, Loads
LEMMA PeriodReadLoads ==
  ASSUME NEW ask, NEW found, NEW body, PeriodRead(ask, found, body)
  PROVE  Loads
BY DEF PeriodRead, Show, PeriodLoaded, Loads
LEMMA ReadLoads == Read => Loads
<1> SUFFICES ASSUME Read PROVE Loads
  OBVIOUS
<1>1. ASSUME NEW k, NEW s, GetStatement(s, k[1], k[2]) PROVE Loads
  BY <1>1, PeriodReadLoads DEF GetStatement
<1>2. ASSUME NEW k, \/ GetIncomeViz(k[1], k[2]) \/ GetBalanceViz(k[1], k[2])
                    \/ GetNormalizedFacts(k[1], k[2])
      PROVE  Loads
  BY <1>2, PeriodReadLoads DEF GetIncomeViz, GetBalanceViz, GetNormalizedFacts
<1>3. ASSUME NEW k, GetCashFlowViz(k[1], k[2]) \/ GetMetrics(k[1], k[2]) PROVE Loads
  BY <1>3, FullReadLoads DEF GetCashFlowViz, GetMetrics
<1>4. ASSUME NEW k, GetComponents(k[1], k[2]) PROVE Loads
  BY <1>4 DEF GetComponents, Show, Loads
<1>5. ASSUME NEW y, NEW p, GetFootnotes(y, p) \/ GetCapital(y, p) \/ GetObligations(y, p) PROVE Loads
  BY <1>5, FullReadLoads DEF GetFootnotes, GetCapital, GetObligations, GetCards
<1>6. ASSUME NEW k, NEW n, GetRawFacts(<<"revenue", 1>>, k[1], n - 1, n) PROVE Loads
  BY <1>6, FullReadLoads DEF GetRawFacts
<1>7. ASSUME NEW p, NEW n, NEW s, GetCondensedStatement(s, p, n) PROVE Loads
  BY <1>7, FullReadLoads DEF GetCondensedStatement
<1>8. ASSUME NEW p, NEW n, GetCapitalStructure(p, n) \/ GetCashFlowSeries(p, n) PROVE Loads
  BY <1>8, FullReadLoads DEF GetCapitalStructure, GetCashFlowSeries
<1>9. ASSUME GetPeriods \/ GetSharesOutstanding \/ GetMetricPeriods PROVE Loads
  BY <1>9, FullReadLoads DEF GetPeriods, GetSharesOutstanding, GetMetricPeriods
<1>10. ASSUME NEW f, NEW b, NEW m, GetMetricHistory(m, f, b) PROVE Loads
  BY <1>10, FullReadLoads DEF GetMetricHistory
<1>11. ASSUME NEW f, NEW b, NEW c, GetConceptSeries(c, f, b) PROVE Loads
  BY <1>11, FullReadLoads DEF GetConceptSeries
<1> QED BY <1>1, <1>2, <1>3, <1>4, <1>5, <1>6, <1>7, <1>8, <1>9, <1>10, <1>11, Zenon DEF Read

\* So of every step: a report is published, or nothing but loading is done.
LEMMA StepIs ==
  ASSUME [Next]_vars
  PROVE  \/ \E x \in Reports : Publish(x)
         \/ Loads
         \/ UNCHANGED <<filings, ingested>>
<1>1. ASSUME Ingest PROVE Loads
  BY <1>1 DEF Ingest, Loads
<1>2. ASSUME NEW q, BackfillFrames(q) PROVE UNCHANGED <<filings, ingested>>
  BY <1>2 DEF BackfillFrames
<1>3. ASSUME Close PROVE UNCHANGED <<filings, ingested>>
  BY <1>3 DEF Close
<1>4. ASSUME UNCHANGED vars PROVE UNCHANGED <<filings, ingested>>
  BY <1>4 DEF vars
<1> QED BY <1>1, <1>2, <1>3, <1>4, ReadLoads DEF Next

\* At first nothing is published.
LEMMA InitHolds == Init => IInv
BY DEF Init, IInv, Typed, ByDate

\* Every step keeps the order.
LEMMA StepHolds == IInv /\ [Next]_vars => IInv'
<1> SUFFICES ASSUME IInv, [Next]_vars PROVE IInv'
  OBVIOUS
<1>1. filings \in Seq(Reports) /\ Len(filings) \in Nat /\ ingested \in 0 .. Len(filings)
  BY DEF IInv, Typed
<1>2. ASSUME NEW x \in Reports, Publish(x) PROVE IInv'
  <2> DEFINE n == Len(filings)
  <2>1. filings' = Append(filings, x) /\ ingested' = ingested
    BY <1>2 DEF Publish
  <2>2. filings' \in Seq(Reports) /\ Len(filings') = n + 1
        /\ \A i \in 1 .. n + 1 : filings'[i] = IF i = n + 1 THEN x ELSE filings[i]
    BY <1>1, <2>1
  <2>3. Typed'
    BY <1>1, <2>1, <2>2 DEF Typed
  <2>4. \A i \in 1 .. n : Filed(filings[i]) < Filed(x)
    BY <1>2, PublishLater
  <2>5. ASSUME NEW i \in 1 .. n + 1, NEW j \in 1 .. n + 1, i < j
        PROVE  Filed(filings'[i]) < Filed(filings'[j])
    <3>1. i \in 1 .. n /\ filings'[i] = filings[i]
      BY <1>1, <2>2, <2>5
    <3>2. CASE j = n + 1
      BY <2>2, <2>4, <3>1, <3>2
    <3>3. CASE j # n + 1
      <4>1. j \in 1 .. n /\ filings'[j] = filings[j]
        BY <1>1, <2>2, <3>3
      <4> QED BY <2>5, <3>1, <4>1 DEF IInv, ByDate
    <3> QED BY <3>2, <3>3
  <2>6. ByDate'
    BY <2>2, <2>5 DEF ByDate, Filed
  <2> QED BY <2>3, <2>6 DEF IInv
<1>3. ASSUME Loads PROVE IInv'
  BY <1>1, <1>3 DEF Loads, IInv, Typed, ByDate
<1>4. ASSUME UNCHANGED <<filings, ingested>> PROVE IInv'
  BY <1>1, <1>4 DEF IInv, Typed, ByDate
<1> QED BY <1>2, <1>3, <1>4, StepIs

(* For any company and any readers: reports are on file by rising date,    *)
(* and the store has had the facts of the first few of them (the routes,   *)
(* ingest/incremental.py).                                                 *)
THEOREM InvariantHolds == Spec => []IInv
BY InitHolds, StepHolds, PTL DEF Spec

----------------------------------------------------------------------------
(* The first of a period's facts.                                          *)

\* Facts filed later displace none of a period that had one.
LEMMA PeriodStays ==
  ASSUME NEW p, NEW q, DOMAIN p \subseteq DOMAIN q, \A f \in DOMAIN p : p[f] = q[f],
         \A f \in DOMAIN q : f.filed \in Int,
         \A f \in DOMAIN p, g \in DOMAIN q \ DOMAIN p : f.filed < g.filed,
         NEW a, a = ByPeriod(p, Original), NEW b, b = ByPeriod(q, Original)
  PROVE  \A k \in DOMAIN a : k \in DOMAIN b /\ b[k].value = a[k].value
<1> DEFINE P(k) == {f \in DOMAIN p : p[f] = k}
           Q(k) == {f \in DOMAIN q : q[f] = k}
<1>1. ASSUME NEW k \in Range(p) PROVE Standing(P(k), Original) = Standing(Q(k), Original)
  <2>1. PICK e \in P(k) : TRUE
    BY DEF Range
  <2>2. \A f \in Q(k) : f \in P(k) \/ e.filed < f.filed
    BY <2>1
  <2>3. \A f \in P(k) : f \in Q(k)
    OBVIOUS
  <2>4. ASSUME NEW f \in P(k), NEW g \in Q(k), g.filed < f.filed PROVE g \in P(k)
    BY <2>4
  <2>5. \A f \in Q(k) : f.filed \in Int
    OBVIOUS
  <2> HIDE DEF P, Q
  <2> QED BY <2>1, <2>2, <2>3, <2>4, <2>5 DEF Standing, Wins
<1>2. Range(p) \subseteq Range(q)
  BY DEF Range
<1>3. a = [k \in Range(p) |-> CHOOSE f \in Standing(P(k), Original) : TRUE]
  BY Zenon DEF ByPeriod
<1>4. b = [k \in Range(q) |-> CHOOSE f \in Standing(Q(k), Original) : TRUE]
  BY Zenon DEF ByPeriod
<1> HIDE DEF P, Q
<1>5. ASSUME NEW k \in DOMAIN a PROVE k \in DOMAIN b /\ b[k] = a[k]
  <2>1. k \in Range(p) /\ k \in Range(q)
    BY <1>2, <1>3
  <2>2. a[k] = CHOOSE f \in Standing(P(k), Original) : TRUE
    BY <1>3, <2>1
  <2>3. b[k] = CHOOSE f \in Standing(Q(k), Original) : TRUE
    BY <1>4, <2>1
  <2>4. b[k] = a[k]
    BY <1>1, <2>1, <2>2, <2>3, Zenon
  <2> QED BY <1>4, <2>1, <2>4
<1> QED BY <1>5

Later(F, H) ==
  /\ F \subseteq H
  /\ \A f \in H : f.filed \in Int
  /\ \A f \in F, g \in H \ F : f.filed < g.filed

\* So of a tag: later facts add periods to its history and change none.
LEMMA TagStays ==
  ASSUME NEW F, NEW H, Later(F, H), NEW t
  PROVE  Kept(TagHistory(F, t, Original), TagHistory(H, t, Original))
<1> DEFINE old == TagHistory(F, t, Original)
           new == TagHistory(H, t, Original)
           G(S) == {f \in S : f.tag = t /\ IsNumber(f.value)}
           Spans(S)  == {g \in G(S) : g.start # Instant}
           Levels(S) == {g \in G(S) : g.start = Instant}
           D(S) == [f \in Spans(S) |-> <<f.start, f.end>>]
           I(S) == [f \in Levels(S) |-> f.end]
<1>1. old = [durations |-> ByPeriod(D(F), Original), instants |-> ByPeriod(I(F), Original)]
  BY Zenon DEF TagHistory
<1>2. new = [durations |-> ByPeriod(D(H), Original), instants |-> ByPeriod(I(H), Original)]
  BY Zenon DEF TagHistory
<1> HIDE DEF old, new
<1>3. G(F) \subseteq G(H) /\ G(H) \subseteq H /\ G(H) \ G(F) \subseteq H \ F /\ G(F) \subseteq F
  BY DEF Later
<1> HIDE DEF G
<1>4. /\ DOMAIN D(F) = Spans(F) /\ DOMAIN D(H) = Spans(H)
      /\ DOMAIN I(F) = Levels(F) /\ DOMAIN I(H) = Levels(H)
  OBVIOUS
<1>5. /\ Spans(F) \subseteq Spans(H) /\ Levels(F) \subseteq Levels(H)
      /\ \A f \in Spans(F) : D(F)[f] = D(H)[f]
      /\ \A f \in Levels(F) : I(F)[f] = I(H)[f]
  BY <1>3
<1>6. /\ \A f \in Spans(H) : f.filed \in Int
      /\ \A f \in Levels(H) : f.filed \in Int
  BY <1>3 DEF Later
<1>7. /\ \A f \in Spans(F), g \in Spans(H) \ Spans(F) : f.filed < g.filed
      /\ \A f \in Levels(F), g \in Levels(H) \ Levels(F) : f.filed < g.filed
  BY <1>3 DEF Later
<1> HIDE DEF Spans, Levels, D, I
<1>8. \A k \in DOMAIN ByPeriod(D(F), Original) :
        /\ k \in DOMAIN ByPeriod(D(H), Original)
        /\ ByPeriod(D(H), Original)[k].value = ByPeriod(D(F), Original)[k].value
  BY <1>4, <1>5, <1>6, <1>7, PeriodStays
<1>9. \A k \in DOMAIN ByPeriod(I(F), Original) :
        /\ k \in DOMAIN ByPeriod(I(H), Original)
        /\ ByPeriod(I(H), Original)[k].value = ByPeriod(I(F), Original)[k].value
  BY <1>4, <1>5, <1>6, <1>7, PeriodStays
<1>10. Kept(old, new)
  BY <1>1, <1>2, <1>8, <1>9 DEF Kept
<1> QED BY <1>10 DEF old, new

\* And of a concept, as long as it is read off the same tag.
LEMMA FirstStays ==
  ASSUME NEW F, NEW H, Later(F, H), NEW c
  PROVE  KeptAsReported(F, H, c)
<1> DEFINE old == ConceptData(F, c, Original)
           new == ConceptData(H, c, Original)
           Preferred(S) == ChooseTag({f \in S : f.tag \in Range(Candidates[c])}, c)
           Told(S) == TagHistory(S, Preferred(S)[1], Original)
           Full(S) == [tag |-> Preferred(S), durations |-> Told(S).durations, instants |-> Told(S).instants]
<1>1. old = IF Preferred(F) = <<>> THEN NoData ELSE Full(F)
  BY Zenon DEF ConceptData
<1>2. new = IF Preferred(H) = <<>> THEN NoData ELSE Full(H)
  BY Zenon DEF ConceptData
<1> HIDE DEF old, new, Preferred
<1>3. \A t : Kept(TagHistory(F, t, Original), TagHistory(H, t, Original))
  BY TagStays
<1>4. ASSUME old.tag = new.tag PROVE Kept(old, new)
  <2>1. Preferred(F) = Preferred(H)
    BY <1>1, <1>2, <1>4 DEF NoData
  <2>2. CASE Preferred(F) = <<>>
    <3>1. old = NoData
      BY <1>1, <2>2
    <3>2. DOMAIN old.durations = {} /\ DOMAIN old.instants = {}
      BY <3>1 DEF NoData
    <3> QED BY <3>2 DEF Kept
  <2>3. CASE Preferred(F) # <<>>
    <3>1. Kept(Told(F), Told(H))
      BY <1>3, <2>1
    <3> HIDE DEF Told
    <3>2. old = Full(F) /\ new = Full(H)
      BY <1>1, <1>2, <2>1, <2>3
    <3>3. /\ old.durations = Told(F).durations /\ old.instants = Told(F).instants
          /\ new.durations = Told(H).durations /\ new.instants = Told(H).instants
      BY <3>2
    <3> QED BY <3>1, <3>3 DEF Kept
  <2> QED BY <2>2, <2>3
<1> QED BY <1>3, <1>4, Zenon DEF KeptAsReported, old, new

\* The facts of the first reports are dated, those of the others later.
LEMMA FactsByDate ==
  ASSUME IInv, NEW m \in 0 .. Len(filings), NEW n \in 0 .. Len(filings), m <= n
  PROVE  /\ FactsOf(m) \subseteq FactsOf(n)
         /\ \A f \in FactsOf(n) : f.filed \in Int
         /\ \A f \in FactsOf(m), g \in FactsOf(n) \ FactsOf(m) : f.filed < g.filed
<1>1. filings \in Seq(Reports) /\ Len(filings) \in Nat
  BY DEF IInv, Typed
<1>2. \A i \in 1 .. Len(filings) : filings[i] \in Reports
  BY <1>1
<1>3. 1 .. m \subseteq 1 .. n /\ 1 .. n \subseteq 1 .. Len(filings)
  BY <1>1
<1>4. \A i \in 1 .. n : \A f \in FilingFacts[filings[i]] :
        f.filed = Filed(filings[i]) /\ Filed(filings[i]) \in Int
  BY <1>2, <1>3, FactsAreDated, ReportIs
<1>5. \A k : \A f : f \in FactsOf(k) <=> \E i \in 1 .. k : f \in FilingFacts[filings[i]]
  BY Zenon DEF FactsOf
<1>6. FactsOf(m) \subseteq FactsOf(n)
  BY <1>3, <1>5
<1>7. \A f \in FactsOf(n) : f.filed \in Int
  BY <1>4, <1>5
<1>8. ASSUME NEW f \in FactsOf(m), NEW g \in FactsOf(n) \ FactsOf(m) PROVE f.filed < g.filed
  <2>1. PICK i \in 1 .. m : f \in FilingFacts[filings[i]]
    BY <1>5
  <2>2. PICK j \in 1 .. n : g \in FilingFacts[filings[j]]
    BY <1>5
  <2>3. j \notin 1 .. m
    BY <1>5, <1>8, <2>2
  <2>4. i \in 1 .. Len(filings) /\ j \in 1 .. Len(filings) /\ i < j
    BY <1>3, <2>3
  <2>5. Filed(filings[i]) < Filed(filings[j])
    BY <2>4 DEF IInv, ByDate
  <2> QED BY <1>3, <1>4, <2>1, <2>2, <2>5
<1> QED BY <1>6, <1>7, <1>8

(* For any company, whatever its reports restate, recode or amend, and     *)
(* however late they are ingested: under each tag, what the first report   *)
(* of a period said of it stays what the as-originally-reported basis has; *)
(* and so does what it shows of a concept, as long as coverage chooses the *)
(* same tag of the concept before and after (_ConceptData._wins).          *)
THEOREM ReportedStaysHolds == Spec => ReportedStays
<1>1. ASSUME IInv, [Next]_vars, ingested' > ingested, framed = {}, NEW c
      PROVE  StaysAsReported(c)
  <2>1. ingested \in 0 .. Len(filings) /\ Len(filings) \in Nat
    BY <1>1 DEF IInv, Typed
  <2>2. filings' = filings /\ framed' = {} /\ ingested' = Len(filings)
    <3>1. \A x : Publish(x) => ingested' = ingested
      BY DEF Publish
    <3> QED BY <1>1, <2>1, <3>1, StepIs DEF Loads
  <2>3. Known(ingested) = FactsOf(ingested)
    BY <1>1 DEF Known
  <2>4. Known(ingested)' = FactsOf(ingested')
    BY <2>2 DEF Known, FactsOf
  <2>5. ingested' \in 0 .. Len(filings) /\ ingested <= ingested'
    BY <2>1, <2>2
  <2> DEFINE F == FactsOf(ingested)
             H == FactsOf(ingested')
  <2>6. Later(F, H)
    <3>1. /\ F \subseteq H
          /\ \A f \in H : f.filed \in Int
          /\ \A f \in F, g \in H \ F : f.filed < g.filed
      BY <1>1, <2>1, <2>5, FactsByDate
    <3> QED BY <3>1 DEF Later
  <2> HIDE DEF F, H
  <2>7. KeptAsReported(F, H, c)
    BY <2>6, FirstStays
  <2>8. Known(ingested) = F /\ Known(ingested)' = H
    BY <2>3, <2>4 DEF F, H
  <2> QED BY <2>7, <2>8, Zenon DEF StaysAsReported
<1>2. IInv /\ [Next]_vars =>
        [(ingested' > ingested /\ framed = {}) => \A c \in SeriesAsked : StaysAsReported(c)]_vars
  BY <1>1
<1> QED BY <1>2, InvariantHolds, PTL DEF Spec, ReportedStays
=============================================================================

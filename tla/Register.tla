------------------------------ MODULE Register ------------------------------
(***************************************************************************)
(* The 13F reports of a few managers over some quarters, and the requests  *)
(* for one issuer that are answered from them (routes.py, the endpoints    *)
(* institutional-* and /managers/...).  A report is stored or replaced as  *)
(* a whole, in one transaction, by the backfill, which is another process; *)
(* an endpoint makes one query after another, each in a snapshot of its    *)
(* own, so a report may be replaced between two of them.  RegisterViews    *)
(* has what is computed from the rows read.                                *)
(***************************************************************************)
EXTENDS RegisterViews

CONSTANTS Managers, Issuers, Focus,   \* filers; issuers, one of them viewed
          CusipsOf,                   \* the share classes of each issuer
          Reports,                    \* what a manager may file for a quarter
          LastQuarter,
          Places, States, Categories, \* codes of places, those a map can draw, kinds of filers
          Known,                      \* the CUSIPs resolved at first
          Ownership,                  \* what the caches of forms 3/4/5 and 13D/G may hold
  Asked,                      \* the kinds of requests
          Top, MinOverlap,            \* query parameters
          MaxStores, MaxLocated       \* bounds

Quarters == 1 .. LastQuarter
Cusips == UNION {CusipsOf[i] : i \in Issuers}

(* A report: [rows, filed, amendment, place, stored], a row [line, cusip,  *)
(* shares, kind]; NoReport is not stored.                                  *)
NoReport == [rows |-> {}, filed |-> NoDate, amendment |-> FALSE, place |-> NoPlace, stored |-> FALSE]

ASSUME RegisterAssumption ==
  /\ Focus \in Issuers /\ CusipsOf \in [Issuers -> SUBSET Cusips]
  /\ LastQuarter \in Nat \ {0} /\ MaxStores \in Nat /\ MaxLocated \in Nat
  /\ Known \subseteq Cusips
  /\ IsFiniteSet(Managers) /\ Top \in Nat /\ NoPlace \notin States
  /\ \A r \in Reports :
       /\ DOMAIN r = DOMAIN NoReport /\ r.stored /\ IsFiniteSet(r.rows)
       /\ \A w \in r.rows : w.cusip \in Cusips /\ w.shares \in Int /\ w.shares >= NoCount
  /\ \A rows \in Ownership :
       /\ rows \in Seq(Range(rows))
       /\ \A i \in DOMAIN rows :
            /\ rows[i].shares \in Int /\ rows[i].filed \in Int /\ rows[i].dated \in Int
            /\ rows[i].filed >= NoDate /\ rows[i].dated >= NoDate

VARIABLES
  snapshots, \* holdings_snapshots and holdings, by manager and quarter
  resolved,  \* cusip_map: the CUSIPs known to be their issuer's
  request,   \* the request being answered
  stores, located \* how often a report, a place was stored

vars == <<snapshots, resolved, request, stores, located>>

----------------------------------------------------------------------------
(* sqlite_holdings_repository.py.                                          *)

Stored(m, q) == q \in Quarters /\ snapshots[m][q].stored

GetSnapshot(m, q) ==
  LET s == IF Stored(m, q) THEN snapshots[m][q] ELSE NoReport
  IN {[manager |-> m, line |-> w.line, cusip |-> w.cusip, shares |-> w.shares, kind |-> w.kind,
       place |-> s.place, filed |-> s.filed, amendment |-> s.amendment] : w \in s.rows}
HoldersOf(cusips, q) ==
  {h \in UNION {GetSnapshot(m, q) : m \in Managers} : h.cusip \in cusips}

(* The quarters with a holder, the newest first.                           *)
IssuerPeriods(cusips) ==
  SetToSortSeq({q \in Quarters : HoldersOf(cusips, q) # {}}, LAMBDA p, q : p > q)

ManagerCusipSets(M, q) ==
  [m \in {n \in M : GetSnapshot(n, q) # {}} |-> CusipsIn(GetSnapshot(m, q))]
HolderCount(cusips, q) ==
  SumFunction([c \in cusips |-> Cardinality(ManagersOf(HoldersOf({c}, q)))])

CusipsFor(i) == resolved \cap CusipsOf[i]

----------------------------------------------------------------------------
NoRequest == [kind |-> "none", period |-> 0, cusips |-> {}, periods |-> <<>>, reads |-> <<>>,
              got |-> <<>>, peers |-> <<>>, sets |-> <<>>, phase |-> "done"]

Init ==
  /\ snapshots = [m \in Managers |-> [q \in Quarters |-> NoReport]]
  /\ resolved = Known
  /\ request = NoRequest /\ stores = 0 /\ located = 0

(* upsert_snapshot: the rows of the quarter become exactly these.          *)
Upsert(m, q) ==
  /\ stores < MaxStores /\ stores' = stores + 1
  /\ \E r \in Reports :
       snapshots' = [snapshots EXCEPT ![m][q] = r]
  /\ UNCHANGED <<resolved, request, located>>

(* set_filing_manager_location, for a report stored without a place.       *)
Locate(m, q) ==
  /\ located < MaxLocated /\ located' = located + 1
  /\ Stored(m, q) /\ snapshots[m][q].place = NoPlace
  /\ \E p \in Places :
       snapshots' = [snapshots EXCEPT ![m][q].place = p]
  /\ UNCHANGED <<resolved, request, stores>>

Resolve(c) ==
  /\ c \notin resolved /\ resolved' = resolved \cup {c}
  /\ UNCHANGED <<snapshots, request, stores, located>>

----------------------------------------------------------------------------
(* An endpoint of one issuer: its CUSIPs (none: 404), then the quarters    *)
(* with a holder if it is about several, then the holders of each.         *)
Read(cusips, q) == [cusips |-> cusips, quarter |-> q]
OverQuarters == {"periods", "series", "shape", "points"}

FirstReads(k, cusips, p) ==
  CASE k \in OverQuarters -> <<>>
    [] k = "activity" -> <<Read(cusips, p), Read(cusips, PriorQuarterEnd(p))>>
    [] k = "domicile" -> <<Read(cusips, PriorQuarterEnd(p)), Read(cusips, p)>>
    [] OTHER -> <<Read(cusips, p)>>

Ask(k, p) ==
  /\ request.kind = "none" /\ CusipsFor(Focus) # {}
  /\ request' = [NoRequest EXCEPT !.kind = k, !.period = p, !.cusips = CusipsFor(Focus),
                   !.reads = FirstReads(k, CusipsFor(Focus), p),
                   !.phase = IF k \in OverQuarters THEN "periods" ELSE "holders"]
  /\ UNCHANGED <<snapshots, resolved, stores, located>>

(* The series shows a quarter only if the one before it is ingested too.   *)
Transitions(periods) ==
  LET to == SelectSeq(periods, LAMBDA q : PriorQuarterEnd(q) \in Range(periods))
  IN [i \in 1 .. Min({Top, Len(to)}) |-> <<to[i], PriorQuarterEnd(to[i])>>]

Newest(periods, n) == SubSeq(periods, 1, Min({n, Len(periods)}))
PeriodReads(k, periods) ==
  CASE k = "series"  -> FlattenSeq(Transitions(periods))
    [] k = "periods" -> Newest(periods, 1)
    [] OTHER         -> Newest(periods, Top)

SeePeriods ==
  /\ request.phase = "periods"
  /\ LET ps == IssuerPeriods(request.cusips)
         qs == PeriodReads(request.kind, ps)
     IN request' = [request EXCEPT !.periods = ps, !.phase = "holders",
                      !.reads = [i \in DOMAIN qs |-> Read(request.cusips, qs[i])]]
  /\ UNCHANGED <<snapshots, resolved, stores, located>>

SeeHolders ==
  /\ request.reads # <<>>
  /\ LET r == Head(request.reads)
     IN request' = [request EXCEPT !.reads = Tail(@), !.got = Append(@, HoldersOf(r.cusips, r.quarter))]
  /\ UNCHANGED <<snapshots, resolved, stores, located>>

(* _peer_labels: the peers whose own registers are the largest.            *)
SeePeers ==
  /\ request.kind = "peers" /\ request.phase = "holders" /\ request.reads = <<>>
  /\ LET size == [i \in Issuers \ {Focus} |-> HolderCount(CusipsFor(i), request.period)]
         s == SetToSortSeq({i \in DOMAIN size : size[i] > 0}, LAMBDA i, j : size[i] > size[j])
         chosen == SubSeq(s, 1, Min({Top, Len(s)}))
     IN request' = [request EXCEPT !.peers = chosen, !.phase = "peers",
                      !.reads = [i \in DOMAIN chosen |-> Read(CusipsFor(chosen[i]), request.period)]]
  /\ UNCHANGED <<snapshots, resolved, stores, located>>

SeeCusipSets ==
  /\ request.kind = "coholding" /\ request.phase = "holders" /\ request.reads = <<>>
  /\ request' = [request EXCEPT !.phase = "sets",
                   !.sets = ManagerCusipSets(TopManagers(request.got[1], Top), request.period)]
  /\ UNCHANGED <<snapshots, resolved, stores, located>>

(* /managers/{cik}/activity reads a manager's two reports; without the     *)
(* current one it answers 404.                                             *)
AskManager(m, p) ==
  /\ request.kind = "none"
  /\ request' = [NoRequest EXCEPT !.kind = "manager", !.period = p, !.peers = <<m>>,
                   !.phase = IF Stored(m, p) THEN "prior" ELSE "missing",
                   !.got = <<GetSnapshot(m, p)>>]
  /\ UNCHANGED <<snapshots, resolved, stores, located>>
SeePrior ==
  /\ request.phase = "prior"
  /\ request' = [request EXCEPT !.phase = "read",
                   !.got = Append(@, GetSnapshot(request.peers[1], PriorQuarterEnd(request.period)))]
  /\ UNCHANGED <<snapshots, resolved, stores, located>>
----------------------------------------------------------------------------
(* The answers.                                                            *)

Ready ==
  /\ request.kind # "none" /\ request.reads = <<>>
  /\ request.phase = CASE request.kind = "peers" -> "peers" [] request.kind = "coholding" -> "sets"
                       [] request.kind = "manager" -> "read" [] OTHER -> "holders"

H == request.got[1]

Activity(unchanged) == DiffHolders(H, request.got[2], unchanged)
ActivitySeries ==
  [i \in DOMAIN Transitions(request.periods) |->
     SummarizeActivity(DiffHolders(request.got[2 * i - 1], request.got[2 * i], FALSE))]
ManagerActivity(unchanged) == DiffSnapshots(request.peers[1], H, request.got[2], unchanged)

RegisterShape ==
  [turnover  |-> IF Len(request.got) < 2 THEN [status |-> "na"] ELSE Turnover(H, request.got[2]),
   tenure    |-> Tenure(request.got),
   retention |-> Retention(request.got),
   stable    |-> StableCapital(request.got)]

(* One point for each line a manager's report has of a CUSIP.              *)
HoldingsSeries ==
  [k \in {<<h.manager, h.cusip>> : h \in UNION Range(request.got)} |->
     [i \in DOMAIN request.got |->
        {[line |-> h.line, shares |-> h.shares] :
           h \in {g \in request.got[i] : <<g.manager, g.cusip>> = k}}]]

PeriodsAnswer ==
  [periods |-> request.periods,
   meta    |-> IF request.got = <<>> THEN "none" ELSE PeriodMeta(H)]

RegisterAnswer(types, sic) ==
  LET v == ShareVector(H)
  IN [meta |-> PeriodMeta(H), concentration |-> Concentration(v), composition |-> Composition(v, sic),
      vector |-> VectorPayload(v, Top, ReportingTypes(types), sic),
      excluded |-> Excluded(H), total |-> TotalShares(v)]

PeersAnswer ==
  LET holders == [i \in {Focus} \cup Range(request.peers) |->
                    IF i = Focus THEN ManagersOf(H)
                    ELSE ManagersOf(request.got[1 + CHOOSE k \in DOMAIN request.peers : request.peers[k] = i])]
  IN PeerOverlap(Focus, request.peers, holders, ShareVector(H), Top)

DomicileAnswer == Domicile(request.got[2], H)
GeographyAnswer == Geography(H, States)
ConvictionAnswer == Conviction(H, Top)
CoHoldingAnswer == CoHolding(H, request.sets, request.cusips, Top, MinOverlap)
AttributionAnswer(rows) == ShareAttribution(ShareVector(H), rows)
FiledSinceAnswer(rows) == FiledSince(H, rows)

Reply ==
  /\ Ready \/ request.phase = "missing"
  /\ request' = NoRequest
  /\ UNCHANGED <<snapshots, resolved, stores, located>>

Next ==
  \/ \E m \in Managers, q \in Quarters : Upsert(m, q) \/ Locate(m, q) \/ AskManager(m, q)
  \/ \E c \in Cusips : Resolve(c)
  \/ \E k \in Asked, q \in Quarters : Ask(k, q)
  \/ SeePeriods \/ SeeHolders \/ SeePeers \/ SeeCusipSets \/ SeePrior \/ Reply

Spec == Init /\ [][Next]_vars
----------------------------------------------------------------------------
(* Properties.                                                             *)

TypeOK ==
  /\ \A m \in Managers, q \in Quarters :
       snapshots[m][q] \in {NoReport} \cup
         {[r EXCEPT !.place = p] : r \in Reports,
                                   p \in {NoPlace} \cup Places \cup {t.place : t \in Reports}}
  /\ resolved \subseteq Cusips
  /\ request.kind \in {"none", "manager"} \cup Asked
  /\ Ready => CASE request.kind = "peers"     -> PeersAnswer.status \in {"ok", "na"}
                [] request.kind = "coholding" -> \A P \in CoHoldingAnswer.edges : Cardinality(P) = 2
                [] request.kind = "domicile"  -> DomicileAnswer.status \in {"ok", "na"}
                [] request.kind = "points"    -> \A k \in DOMAIN HoldingsSeries : k[2] \in request.cusips
                [] request.kind = "series"    -> \A i \in DOMAIN ActivitySeries : ActivitySeries[i].inflow >= 0
                [] request.kind = "activity"  -> \A d \in Activity(FALSE) : d.action # "unchanged"
                [] request.kind = "manager"   -> \A d \in ManagerActivity(FALSE) : d.action # "unchanged"
                [] request.kind = "register"  ->
                     /\ RegisterAnswer(<<>>, [m \in Managers |-> "none"]).composition.classified = 0
                     /\ \A rows \in Ownership : Len(FiledSinceAnswer(rows)) <= Len(rows)
                [] request.kind = "periods"   -> PeriodsAnswer.periods = request.periods
                [] OTHER -> TRUE

(* "One fact, one source": the endpoints that describe one quarter's       *)
(* register from code of their own give the same managers the same shares. *)
(* The domicile ranking, the composition and the attribution add up to the *)
(* total of the share vector; the treemap of conviction shows a part of    *)
(* the vector, and leaves out just those with a row of unknown count; the  *)
(* Gini coefficient is the mean difference of the managers' shares, and    *)
(* the managers for half are no more than needed.  A filer is on the map   *)
(* once.  In the attribution a position counts nowhere once its owner      *)
(* reports one of a later date.  (The docstring, attribution.py:96, says   *)
(* of a later filing; but an insider's row counts at its transaction,      *)
(* attribution.py:174, so a Form 4/A of the same transaction supersedes    *)
(* nothing: of rows of one date the one filed first is kept.)              *)
OneRegister ==
  Ready /\ request.kind = "register" =>
    LET v == ShareVector(H)
        d == Domicile(H, {})
        c == ConvictionAnswer
        a == AttributionAnswer(<<>>)
        g == GeographyAnswer
        k == Concentration(v)
        Unknown == {m \in ManagersOf(H) : \E h \in H : h.manager = m /\ h.kind = "SH" /\ h.shares = NoCount}
    IN /\ d.located + d.unlocated = TotalShares(v)
       /\ SumFunction([p \in DOMAIN d.rows |-> d.rows[p].shares]) = d.located
       /\ \A sic \in [Managers -> Categories \cup {"none"}] :
            LET x == Composition(v, sic)
            IN x.classified + x.unclassified = TotalShares(v) /\ SumFunction(x.categories) = x.classified
       /\ OrZero(a.institutional) = TotalShares(v)
       /\ TotalShares(c.holders) + c.other = c.pool
       /\ \A m \in DOMAIN c.holders : m \in DOMAIN v \ Unknown /\ c.holders[m] = v[m]
       /\ c.pool = SumFunctionOnSet(v, DOMAIN v \ Unknown)
       /\ SumFunction(g.state) + g.outside + g.unknown = Cardinality(ManagersOf(H))
       /\ \A rows \in Ownership : \A i, j \in DOMAIN rows :
            /\ rows[i].who = rows[j].who /\ rows[i].kind = rows[j].kind
            /\ DateOf(rows[j]) > DateOf(rows[i]) /\ rows[j].shares # NoCount
            => AttributionAnswer(RemoveAt(rows, i)) = AttributionAnswer(rows)
       /\ k.status = "ok" =>
            /\ k.gini = SumFunction([P \in kSubset(2, DOMAIN v) |->
                                      Max({v[m] : m \in P}) - Min({v[m] : m \in P})])
            /\ \E M \in kSubset(k.half, DOMAIN v) : 2 * SumFunctionOnSet(v, M) >= TotalShares(v)
            /\ \A M \in SUBSET DOMAIN v :
                 Cardinality(M) < k.half => 2 * SumFunctionOnSet(v, M) < TotalShares(v)

(* institutional-activity is "the issuer-centric inverse of                *)
(* /managers/{manager_cik}/activity": a manager's changes in the issuer's  *)
(* CUSIPs are the same in both, and those of all managers add up to the    *)
(* change of the register, unless a report lists a CUSIP twice.  (Where    *)
(* one does, flows.py:42 adds the lines up and flows.py:186 keeps the      *)
(* smallest.)                                                              *)
FlowsMirror ==
  Ready /\ request.kind = "activity" =>
    LET prior == request.got[2]
        Of(R, m) == {h \in R : h.manager = m}
        Once == \A R \in {H, prior} : \A g, h \in R :
                  g.manager = h.manager /\ g.cusip = h.cusip => g = h
    IN Once =>
         /\ \A m \in Managers, u \in BOOLEAN :
              {d \in Activity(u) : d.manager = m} = DiffSnapshots(m, Of(H, m), Of(prior, m), u)
         /\ SummarizeActivity(Activity(FALSE)).net = Total(H) - Total(prior)

(* The views of institutional-register-shape are of one read of each       *)
(* quarter and fit together, whatever was stored between the reads: the    *)
(* managers retained are those of a tenure of two quarters or more, the    *)
(* entrants those of one; the bands of tenure hold the newest register and *)
(* all its shares; a cohort survives only among the newest managers, and   *)
(* the cohorts together are just those.                                    *)
ShapeAgrees ==
  Ready /\ request.kind = "shape" /\ request.got # <<>> =>
    LET s == RegisterShape
        t == s.tenure
        r == s.retention
        Longer == {m \in DOMAIN t.quarters : t.quarters[m] >= 2}
    IN /\ t.status = "ok" /\ s.turnover.status = "ok" =>
            /\ s.turnover.retained = Cardinality(Longer)
            /\ s.turnover.entrants = Cardinality(DOMAIN t.quarters \ Longer)
            /\ s.turnover.prior = s.turnover.retained + s.turnover.exits
       /\ t.status = "ok" =>
            /\ SumFunction(t.holders) = Cardinality(DOMAIN t.quarters)
            /\ SumFunction(t.shares) = TotalShares(ShareVector(H))
            /\ s.stable.stable <= 4 * TotalShares(ShareVector(H))
       /\ r.status = "ok" /\ t.status = "ok" =>
            LET n == Len(request.got)
                Survivors(i) == IF r.cohorts[i].size = 0 THEN 0 ELSE r.cohorts[i].survival[n]
            IN /\ SumFunction([i \in 1 .. n |-> Survivors(i)]) = Cardinality(DOMAIN t.quarters)
               /\ \A i \in 1 .. n : Survivors(i) <= r.cohorts[i].size
               /\ Cardinality({m \in DOMAIN t.quarters : t.quarters[m] = n}) <= Survivors(1)
=============================================================================

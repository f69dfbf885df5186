--------------------------- MODULE RegisterViews ---------------------------
(***************************************************************************)
(* What normalize/flows.py, register.py, attribution.py, overlap.py,       *)
(* coholding.py and the endpoints of 13F data compute from holders already *)
(* read.  No state: a holder is a row of one manager's report,             *)
(*                                                                         *)
(*   [manager, cusip, line, shares, kind, place, filed, amendment]         *)
(*                                                                         *)
(* shares is NoCount where the row has no share count; kind is "SH", "OPT" *)
(* (an option: put_call) or "PRN" (a principal amount).  Two lines of one  *)
(* report may have the same cusip.  A quarter-end is a number, a date the  *)
(* days after it.  Fractions are kept as their numerators: the denominator *)
(* is named where one is defined.  Names and labels are left out.          *)
(***************************************************************************)
EXTENDS Integers, Sequences, FiniteSets, FiniteSetsExt, SequencesExt, Functions

NoCount == -1
NoDate  == -1000000 \* before any date
NoPlace == "none"
OrZero(n) == IF n = NoCount THEN 0 ELSE n
Total(H) == SumFunction([h \in H |-> OrZero(h.shares)])
ManagersOf(H) == {h.manager : h \in H}
CusipsIn(H) == {h.cusip : h \in H}

----------------------------------------------------------------------------
(* flows.py: what changed between two quarters.                            *)

PriorQuarterEnd(q) == q - 1

Classify(before, after) ==
  CASE before = 0 /\ after > 0 -> "new"
    [] before > 0 /\ after = 0 -> "exited"
    [] before > 0 /\ after > before -> "added"
    [] after > 0 /\ after < before -> "reduced"
    [] OTHER -> "unchanged"

(* The deltas, given the shares by key before and after.                   *)
Deltas(before, after, unchanged) ==
  {d \in {[manager |-> k[1], cusip |-> k[2], before |-> before[k], after |-> after[k],
           action |-> Classify(before[k], after[k])] : k \in DOMAIN before} :
     unchanged \/ d.action # "unchanged"}

(* One manager's report: lines of one CUSIP are added up.                  *)
ByCusip(H, c) == Total({h \in H : h.cusip = c})
DiffSnapshots(m, cur, prior, unchanged) ==
  LET K == {<<m, c>> : c \in CusipsIn(cur \cup prior)}
  IN Deltas([k \in K |-> ByCusip(prior, k[2])], [k \in K |-> ByCusip(cur, k[2])], unchanged)

(* One issuer's holders, ordered by shares, the greatest first: a dict     *)
(* keyed by manager and CUSIP keeps the last line of each.                 *)
Position(H, k) ==
  LET L == {OrZero(h.shares) : h \in {g \in H : g.manager = k[1] /\ g.cusip = k[2]}}
  IN IF L = {} THEN 0 ELSE Min(L)
\* Keyed by manager alone.
DiffHoldersByManager(cur, prior, unchanged) ==
  LET Of(H, k) == LET L == {OrZero(h.shares) : h \in {g \in H : g.manager = k[1]}}
                  IN IF L = {} THEN 0 ELSE Min(L)
      K == {<<h.manager, h.cusip>> : h \in cur \cup prior}
  IN Deltas([k \in K |-> Of(prior, k)], [k \in K |-> Of(cur, k)], unchanged)
DiffHolders(cur, prior, unchanged) ==
  LET K == {<<h.manager, h.cusip>> : h \in cur \cup prior}
  IN Deltas([k \in K |-> Position(prior, k)], [k \in K |-> Position(cur, k)], unchanged)

SummarizeActivity(D) ==
  LET Flow(S) == SumFunction([d \in S |-> d.after - d.before])
      In  == {d \in D : d.action \in {"new", "added"}}
      Out == {d \in D : d.action \in {"reduced", "exited"}}
  IN [count   |-> [a \in {"new", "added", "reduced", "exited"} |->
                     Cardinality({d \in D : d.action = a})],
      inflow  |-> Flow(In),
      outflow |-> -Flow(Out),
      net     |-> Flow(In) + Flow(Out)]

----------------------------------------------------------------------------
(* register.py: the shape of one quarter's register.                       *)

ReportedShares(H) == {h \in H : h.shares > 0 /\ h.kind = "SH"}

(* Managers with their shares; a weight is shares / TotalShares.           *)
ShareVector(H) ==
  LET R == ReportedShares(H)
  IN [m \in ManagersOf(R) |-> Total({h \in R : h.manager = m})]
TotalShares(v) == SumFunction(v)
Excluded(H) == Cardinality(ManagersOf(H) \ DOMAIN ShareVector(H))
Ranked(v) ==
  CHOOSE s \in SetToSeqs(DOMAIN v) : \A i, j \in DOMAIN s : i < j => v[s[i]] >= v[s[j]]
Held(v, s, k) == SumFunctionOnSet(v, {s[i] : i \in 1 .. Min({k, Len(s)})})

LorenzPoints == 101
MinHolders == 2

(* hhi over TotalShares^2, gini over n * TotalShares, the rest over        *)
(* TotalShares.                                                            *)
Concentration(v) ==
  LET n    == Cardinality(DOMAIN v)
      desc == Ranked(v)
      asc  == Reverse(desc)
  IN IF n < MinHolders THEN [status |-> "na"]
     ELSE [status |-> "ok",
           hhi    |-> SumFunction([m \in DOMAIN v |-> v[m] * v[m]]),
           gini   |-> Max({0, 2 * SumFunction([i \in 1 .. n |-> i * v[asc[i]]])
                                - (n + 1) * TotalShares(v)}),
           top    |-> [k \in {1, 5, 10} |-> Held(v, desc, k)],
           half   |-> Min({k \in 1 .. n : 2 * Held(v, desc, k) >= TotalShares(v)}),
           lorenz |-> [i \in 0 .. LorenzPoints - 1 |->
                         Held(v, asc, (i * n) \div (LorenzPoints - 1))]]

(* By the managers' own SIC category; sic[m] is "none" where none is known.*)
Composition(v, sic) ==
  LET Rated == {m \in DOMAIN v : sic[m] # "none"}
  IN [status       |-> IF Rated = {} THEN "na" ELSE "ok",
      categories   |-> [c \in {sic[m] : m \in Rated} |->
                          SumFunctionOnSet(v, {m \in Rated : sic[m] = c})],
      classified   |-> SumFunctionOnSet(v, Rated),
      unclassified |-> SumFunctionOnSet(v, DOMAIN v \ Rated)]

(* A place is the code of the cover page.  A ranking rolls Canada's        *)
(* provinces up and knows no place "XX", EDGAR's own unknown.              *)
Provinces == {"A0", "A1", "A2", "A3", "A4", "A5", "A6", "A7", "A8", "A9", "B0", "Z4"}
DescribeLocation(code) ==
  IF code = "XX" THEN NoPlace ELSE IF code \in Provinces THEN "Canada" ELSE code
PlaceOf(H, m) ==
  LET P == {h.place : h \in {g \in H : g.manager = m}} \ {NoPlace}
  IN IF P = {} THEN NoPlace ELSE DescribeLocation(CHOOSE p \in P : TRUE)

(* Weights are over located; the prior quarter's over its own located.     *)
DomicileGroup(H) ==
  LET v == ShareVector(H)
      At(p) == {m \in DOMAIN v : PlaceOf(H, m) = p}
      Drawn == {PlaceOf(H, m) : m \in DOMAIN v} \ {NoPlace}
  IN [places   |-> [p \in Drawn |-> SumFunctionOnSet(v, At(p))],
      located  |-> SumFunctionOnSet(v, DOMAIN v \ At(NoPlace)),
      unlocated |-> SumFunctionOnSet(v, At(NoPlace))]
\* Of all rows, those that are no shares too.
DomicileOfAllRows(H, prior) ==
  LET P == {h.place : h \in H} \ {NoPlace}
      Of(S) == Total(S)
  IN [status |-> IF P = {} THEN "na" ELSE "ok",
      rows   |-> [p \in P |-> [shares |-> Of({h \in H : h.place = p}), prior |-> 0, of |-> 0]],
      located |-> Of({h \in H : h.place \in P}), unlocated |-> Of({h \in H : h.place = NoPlace})]
Domicile(H, prior) ==
  LET G == DomicileGroup(H)
      B == DomicileGroup(prior)
  IN [status |-> IF G.located = 0 THEN "na" ELSE "ok",
      rows   |-> [p \in DOMAIN G.places |->
                    [shares |-> G.places[p],
                     prior  |-> IF p \in DOMAIN B.places THEN B.places[p] ELSE NoCount,
                     of     |-> B.located]],
      located |-> G.located, unlocated |-> G.unlocated]

(* institutional-holder-geography: all rows, by manager; States are those  *)
(* the map can draw.                                                       *)
Geography(H, States) ==
  LET At(S) == ManagersOf({h \in H : h.place \in S})
      Drawn == {h.place : h \in H}
  IN [state   |-> [p \in Drawn \cap States |-> Cardinality(At({p}))],
      outside |-> Cardinality(At(Drawn \ (States \cup {NoPlace}))),
      unknown |-> Cardinality(At({NoPlace}))]

(* institutional-conviction: a manager with a row of unknown count is left *)
(* out of the pool altogether.                                             *)
Conviction(H, top) ==
  LET E  == {h \in H : h.kind = "SH"}
      Of(m) == {h \in E : h.manager = m}
      Valued == {m \in ManagersOf(E) : Total(Of(m)) > 0 /\ \A h \in Of(m) : h.shares # NoCount}
      v  == [m \in Valued |-> Total(Of(m))]
      s  == Ranked(v)
      Shown == {s[i] : i \in 1 .. Min({top, Len(s)})}
  IN [pool    |-> TotalShares(v),
      holders |-> Restrict(v, Shown),
      other   |-> SumFunctionOnSet(v, Valued \ Shown),
      na      |-> ManagersOf(E) \ Valued]

(* institutional-register: the largest holders, with the type of their own *)
(* schedules 13D/G (rows newest filed first) and their category.           *)
ReportingTypes(rows) ==
  LET Of(w) == {i \in DOMAIN rows : rows[i].who = w}
  IN [w \in {rows[i].who : i \in DOMAIN rows} |-> rows[Min(Of(w))].kind]
VectorPayload(v, limit, types, sic) ==
  LET s == Ranked(v)
  IN [i \in 1 .. Min({limit, Len(s)}) |->
        [manager |-> s[i], shares |-> v[s[i]], cumulative |-> Held(v, s, i), category |-> sic[s[i]],
         type |-> IF s[i] \in DOMAIN types THEN types[s[i]] ELSE "none"]]

----------------------------------------------------------------------------
(* register.py: how the register changes.  by[i] is the i-th newest of the *)
(* quarters read.                                                          *)

Present(H) == ManagersOf(ReportedShares(H))

\* Managers with any row at all.
TurnoverOfAllRows(cur, prior) ==
  LET now == ManagersOf(cur)  was == ManagersOf(prior)
  IN IF was = {} THEN [status |-> "na"]
     ELSE [status |-> "ok", entrants |-> Cardinality(now \ was), exits |-> Cardinality(was \ now),
           retained |-> Cardinality(now \cap was), prior |-> Cardinality(was)]
Turnover(cur, prior) ==
  LET now == Present(cur)
      was == Present(prior)
  IN IF was = {} THEN [status |-> "na"]
     ELSE [status   |-> "ok",
           entrants |-> Cardinality(now \ was),
           exits    |-> Cardinality(was \ now),
           retained |-> Cardinality(now \cap was),
           prior    |-> Cardinality(was)]

Streaks(by) ==
  [m \in Present(by[1]) |->
     Max({k \in 1 .. Len(by) : \A i \in 1 .. k : m \in Present(by[i])})]

(* The bands of tenure are 8, 4, 2 and 1 quarters; weights in quarters.    *)
Bands == <<8, 4, 2, 1>>
BandWeights == <<4, 2, 1, 0>>
BandOf(k) == Min({b \in DOMAIN Bands : k >= Bands[b]})

\* Twice the median.
Median2(s) ==
  LET runs == SetToSortSeq(DOMAIN s, LAMBDA m, n : s[m] < s[n])
      n == Len(runs)
  IN s[runs[(n \div 2) + 1]] + s[runs[IF n % 2 = 1 THEN (n \div 2) + 1 ELSE n \div 2]]

Tenure(by) ==
  LET s == Streaks(by)
      v == ShareVector(by[1])
      In(b) == {m \in DOMAIN s : BandOf(s[m]) = b}
  IN IF by = <<>> \/ Present(by[1]) = {} THEN [status |-> "na"]
     ELSE [status   |-> "ok",
           quarters |-> s,
           median2  |-> Median2(s),
           holders  |-> [b \in DOMAIN Bands |-> Cardinality(In(b))],
           shares   |-> [b \in DOMAIN Bands |-> SumFunctionOnSet(v, In(b))]]

(* Over 4 * TotalShares.                                                   *)
StableCapital(by) ==
  LET t == Tenure(by)
      v == ShareVector(by[1])
  IN IF t.status = "na" THEN [status |-> "na"]
     ELSE [status |-> "ok",
           stable |-> SumFunction([m \in DOMAIN v |-> v[m] * BandWeights[BandOf(t.quarters[m])]])]

(* The oldest quarter first; survival[j] is over size, for j >= i.         *)
Retention(by) ==
  LET p == [i \in DOMAIN by |-> Present(Reverse(by)[i])]
      Cohort(i) == p[i] \ UNION {p[j] : j \in 1 .. i - 1}
  IN IF Len(by) < 2 \/ \A i \in DOMAIN p : p[i] = {} THEN [status |-> "na"]
     ELSE [status  |-> "ok",
           cohorts |-> [i \in DOMAIN p |->
             [size |-> Cardinality(Cohort(i)), censored |-> i = 1,
              survival |-> [j \in (IF Cohort(i) = {} THEN {} ELSE i .. Len(p)) |->
                              Cardinality(Cohort(i) \cap p[j])]]]]

----------------------------------------------------------------------------
(* Overlaps.  A set of managers per issuer, a set of CUSIPs per manager.   *)

(* coholding.py; the fraction min / 100 stands for min_overlap.            *)
CoHoldingEdges(sets, exclude, min) ==
  LET Either(P) == UNION {sets[m] : m \in P} \ exclude
      Shared(P) == {c \in Either(P) : \A m \in P : c \in sets[m]}
  IN {P \in kSubset(2, DOMAIN sets) :
        Shared(P) # {} /\ 100 * Cardinality(Shared(P)) >= min * Cardinality(Either(P))}

(* Nodes: every row counts; the managers with the largest rows are shown.  *)
TopManagers(H, top) ==
  LET Largest(m) == Max({h.shares : h \in {g \in H : g.manager = m}})
      s == SetToSortSeq(ManagersOf(H), LAMBDA m, n : Largest(m) > Largest(n))
  IN {s[i] : i \in 1 .. Min({top, Len(s)})}
CoHolding(H, sets, exclude, top, min) ==
  [nodes |-> [m \in TopManagers(H, top) |->
                [shares |-> Total({h \in H : h.manager = m}),
                 others |-> IF m \in DOMAIN sets THEN Cardinality(sets[m] \ exclude) ELSE 0]],
   edges |-> CoHoldingEdges(sets, exclude, min)]

MaxCombinationIssuers == 6
PeerOverlap(focus, peers, holders, weights, top) ==
  LET order == <<focus>> \o peers
      Cut   == {order[i] : i \in 1 .. Min({MaxCombinationIssuers, Len(order)})}
      HeldBy(m) == {i \in Cut : m \in holders[i]}
      PeersHeld(m) == {i \in Range(peers) : m \in holders[i]}
      W(m)  == IF m \in DOMAIN weights THEN weights[m] ELSE 0
      ranked == SetToSortSeq(holders[focus], LAMBDA m, n :
                  W(m) > W(n) \/ (W(m) = W(n) /\ Cardinality(PeersHeld(m)) > Cardinality(PeersHeld(n))))
  IN IF peers = <<>> \/ holders[focus] = {} THEN [status |-> "na"]
     ELSE [status |-> "ok",
           matrix |-> [i \in Range(order) |-> [j \in Range(order) |->
                         IF i = j \/ holders[i] = {} THEN NoCount
                         ELSE Cardinality(holders[i] \cap holders[j])]],
           combinations |-> [S \in {HeldBy(m) : m \in UNION {holders[i] : i \in Cut}} |->
                         Cardinality({m \in UNION {holders[i] : i \in Cut} : HeldBy(m) = S})],
           holders |-> [k \in 1 .. Min({top, Len(ranked)}) |-> PeersHeld(ranked[k])]]

----------------------------------------------------------------------------
(* Other filings beside the register.                                      *)

(* One quarter's freshness; the age, which is of today, is left out.       *)
DeadlineDays == 45
PeriodMeta(H) ==
  LET D == {h.filed : h \in H} \ {NoDate}
  IN [earliest   |-> IF D = {} THEN NoDate ELSE Min(D),
      latest     |-> IF D = {} THEN NoDate ELSE Max(D),
      inTime     |-> D # {} /\ Max(D) <= DeadlineDays,
      filers     |-> Cardinality(ManagersOf(H)),
      amendments |-> Cardinality(ManagersOf({h \in H : h.amendment}))]

(* Ownership rows, newest filed first: [who, filed, dated, shares, kind],  *)
(* kind "owned", "derivative" or "unknown" for forms 3/4/5, "13DG" for the *)
(* beneficial owners.  who is the owner, of an insider with the title and  *)
(* the form of what it owns; dated the date of the transaction (3/4/5) or  *)
(* of the event (13D/G).                                                   *)
FiledSince(H, rows) ==
  LET since == PeriodMeta(H).latest
  IN IF since = NoDate THEN <<>> ELSE SelectSeq(rows, LAMBDA r : r.filed > since)

(* An insider's row is of the day of its transaction, a 13D/G's of that of *)
(* its filing.                                                             *)
DateOf(r) ==
  LET first  == IF r.kind = "13DG" THEN r.filed ELSE r.dated
      second == IF r.kind = "13DG" THEN r.dated ELSE r.filed
  IN IF first # NoDate THEN first ELSE second

(* The most recent row of each holder; of those of one date the last of    *)
(* the list, and so of the filing filed first.                             *)
UsableRows(rows, kind) ==
  {i \in DOMAIN rows : rows[i].kind = kind /\ DateOf(rows[i]) # NoDate /\ rows[i].shares # NoCount}
IsNewest(rows, U, w, i) ==
  /\ rows[i].who = w
  /\ \A j \in U : rows[j].who = w =>
       \/ DateOf(rows[j]) < DateOf(rows[i])
       \/ DateOf(rows[j]) = DateOf(rows[i]) /\ j <= i
LatestBy(rows, kind) ==
  LET U == UsableRows(rows, kind)
  IN [w \in {rows[i].who : i \in U} |-> rows[CHOOSE i \in U : IsNewest(rows, U, w, i)].shares]

Row(n) == IF n = 0 THEN NoCount ELSE n
ShareAttribution(v, rows) ==
  [institutional |-> Row(TotalShares(v)),
   insider       |-> Row(SumFunction(LatestBy(rows, "owned"))),
   floor         |-> \E i \in DOMAIN rows : rows[i].kind = "unknown",
   beneficial    |-> Row(SumFunction(LatestBy(rows, "13DG")))]
=============================================================================

----------------------------- MODULE MetricViews -----------------------------
(***************************************************************************)
(* normalize/metrics.py: the history of every concept, the periods it      *)
(* spans, the metrics of a period and their trends.  A quotient is         *)
(* [status, num, den]: "ok", "approximate", "na" or "nm".                  *)
(*                                                                         *)
(* A fiscal year is the year its end falls in; its last quarter is 4 * y.  *)
(* The facts of a company are read in whatever order SQLite gives them     *)
(* (sqlite_repository.py:161 asks for none).  Assumed here is that of the  *)
(* unique key, a tag's by the start of the period: among durations that    *)
(* end together the one that starts last is seen last.                     *)
(***************************************************************************)
EXTENDS StatementViews

Restated == "as-restated"
Original == "as-originally-reported"
YearEnd(y) == 8 * y
YearOf(e)  == (e + 7) \div 8

----------------------------------------------------------------------------
(* One concept on one basis.                                               *)

\* The coverage of a tag: the distinct periods it has a value for.
Coverage(F, t) ==
  Cardinality({<<f.start, f.end>> : f \in {g \in F : g.tag = t /\ IsNumber(g.value)}})
(* The first candidate with two thirds of the best one's coverage.  F are  *)
(* the facts of the concept.                                               *)
ChooseTag(F, c) ==
  LET tags == SelectSeq(Candidates[c], LAMBDA t : Coverage(F, t) > 0)
      best == Max({0} \cup {Coverage(F, t) : t \in Range(tags)})
      used == SelectSeq(tags, LAMBDA t : 3 * Coverage(F, t) >= 2 * best)
  IN IF best = 0 THEN <<>> ELSE <<Head(used)>>

\* Whichever basis, the latest.
LatestWins(f, g, basis) == f.filed > g.filed
(* Of two filings that report a period: the latest as restated, else the   *)
(* first.  A row without a date of filing counts as the earliest.          *)
Wins(f, g, basis) == IF basis = Original THEN f.filed < g.filed ELSE f.filed > g.filed
(* The facts by period: of each the one that no other wins against.        *)
Standing(S, basis) == {f \in S : \A g \in S : ~Wins(g, f, basis)}
ByPeriod(period, basis) ==
  [k \in Range(period) |->
     CHOOSE f \in Standing({g \in DOMAIN period : period[g] = k}, basis) : TRUE]

\* What the facts of one tag give.
TagHistory(F, t, basis) ==
  LET G == {f \in F : f.tag = t /\ IsNumber(f.value)}
  IN [durations |-> ByPeriod([f \in {g \in G : g.start # Instant} |-> <<f.start, f.end>>], basis),
      instants  |-> ByPeriod([f \in {g \in G : g.start = Instant} |-> f.end], basis)]

(* One tag for the whole series, the one chosen.                           *)
NoData == [tag |-> <<>>, durations |-> <<>>, instants |-> <<>>]
ConceptData(F, c, basis) ==
  LET tag == ChooseTag({f \in F : f.tag \in Range(Candidates[c])}, c)
      told == TagHistory(F, tag[1], basis)
  IN IF tag = <<>> THEN NoData
     ELSE [tag |-> tag, durations |-> told.durations, instants |-> told.instants]
\* Every concept with a fact; the others have no data.
IndexConcepts(F, basis) ==
  LET tags == {f.tag : f \in F}
  IN FoldSet(LAMBDA c, index : (c :> ConceptData(F, c, basis)) @@ index, <<>>,
             {c \in Concepts : Range(Candidates[c]) \cap tags # {}})

Ends(data) == {k[2] : k \in DOMAIN data.durations}
\* The durations as they are.
TaggedQuarters(data) ==
  [e \in Ends(data) |->
     LET s == Max({k[1] : k \in {j \in DOMAIN data.durations : j[2] = e}})
     IN data.durations[<<s, e>>].value]
(* Among durations of one start, each less the one before it.  The group   *)
(* seen last decides where two end together.                               *)
DiscreteQuarters(data) ==
  [e \in Ends(data) |->
     LET s == Max({k[1] : k \in {j \in DOMAIN data.durations : j[2] = e}})
         before == {k[2] : k \in {j \in DOMAIN data.durations : j[1] = s /\ j[2] < e}}
     IN data.durations[<<s, e>>].value
          - IF before = {} THEN 0 ELSE data.durations[<<s, Max(before)>>].value]

----------------------------------------------------------------------------
(* The periods.                                                            *)

(* The years with a twelve-month duration of some concept, with their ends.*)
FiscalYearEnds(index) ==
  LET annual == {k[2] : k \in {j \in UNION {DOMAIN index[c].durations : c \in DOMAIN index} :
                                 j[2] - j[1] = 8}}
  IN [y \in {YearOf(e) : e \in annual} |-> Max({e \in annual : YearOf(e) = y})]
AllQuarterEnds(index) == UNION {Ends(index[c]) : c \in DOMAIN index}

(* The quarter-ends after the last year's end up to this year's; without   *)
(* bound while the year is open.                                           *)
Calendar(index) == [fye |-> FiscalYearEnds(index), ends |-> AllQuarterEnds(index)]
QuartersInFy(cal, y) ==
  LET after(e) == y - 1 \in DOMAIN cal.fye => e > cal.fye[y - 1]
      upto(e)  == y \in DOMAIN cal.fye => e <= cal.fye[y]
  IN IF {y, y - 1} \cap DOMAIN cal.fye = {} THEN <<>>
     ELSE Sorted({e \in cal.ends : after(e) /\ upto(e)}, <)
(* A quarter is known by its place among those on file.                    *)
QuarterName == <<"Q1", "Q2", "Q3", "Q4">>
QuarterNumber(p) == CHOOSE n \in 1 .. 4 : p = QuarterName[n]
PeriodEnd(cal, y, p) ==
  LET ends == QuartersInFy(cal, y)
  IN CASE p = "FY" /\ y \in DOMAIN cal.fye -> cal.fye[y]
       [] p # "FY" /\ QuarterNumber(p) <= Len(ends) -> ends[QuarterNumber(p)]
       [] OTHER -> NoDate
ResolveAnchor(cal, y, p) ==
  [year |-> y, period |-> p, end |-> PeriodEnd(cal, y, p),
   prior |-> PeriodEnd(cal, y - 1, p), prior2 |-> PeriodEnd(cal, y - 2, p)]

(* The years that ended, and the quarters of these and of the open one.    *)
MetricPeriods(cal) ==
  LET years == DOMAIN cal.fye
      open  == IF years = {} THEN {} ELSE {Max(years) + 1}
      quarters(y) == FirstN(QuartersInFy(cal, y), 4)
  IN {[year |-> y, period |-> "FY", end |-> cal.fye[y]] : y \in years}
     \cup UNION {{[year |-> y, period |-> QuarterName[i], end |-> quarters(y)[i]] :
                    i \in DOMAIN quarters(y)} : y \in years \cup open}

----------------------------------------------------------------------------
(* The values of a period.                                                 *)

(* Twelve months: a duration that is one, else (unless of a figure that    *)
(* cannot be added up) the last four quarters if nothing is missing        *)
(* between them.                                                           *)
TtmFlow(data, end, allowSum) ==
  LET annual == {k \in DOMAIN data.durations : k[2] = end /\ k[2] - k[1] = 8}
      ends   == Sorted({e \in Ends(data) : e <= end}, <)
      n      == Len(ends)
      Q      == DiscreteQuarters(data)
  IN CASE end = NoDate -> NoValue
       [] end # NoDate /\ annual # {} -> data.durations[CHOOSE k \in annual : TRUE].value
       [] end # NoDate /\ annual = {} /\ allowSum /\ n >= 4
          /\ \A i \in n - 3 .. n - 1 : ends[i + 1] - ends[i] = 2 ->
            FoldSet(LAMBDA i, sum : sum + Q[ends[i]], 0, n - 3 .. n)
       [] OTHER -> NoValue

DataOf(index, c) == IF c \in DOMAIN index THEN index[c] ELSE NoData

(* The mean of the levels at both ends of the year, as a sum over two;     *)
(* inexact if only the last one is there.                                  *)
AvgBalance(data, end, prior) ==
  CASE end \notin DOMAIN data.instants -> [sum |-> NoValue, exact |-> FALSE]
    [] end \in DOMAIN data.instants /\ prior \notin DOMAIN data.instants ->
         [sum |-> 2 * data.instants[end].value, exact |-> FALSE]
    [] OTHER -> [sum |-> data.instants[end].value + data.instants[prior].value, exact |-> TRUE]

Quotient(s, n, d) == [status |-> s, num |-> n, den |-> d]
NA == Quotient("na", 0, 1)
NM == Quotient("nm", 0, 1)
Defined(S) == \A v \in S : IsNumber(v)
OrZeroIfNone(v) == IF IsNumber(v) THEN v ELSE 0

Ratio(n, d) == IF Defined({n, d}) /\ d # 0 THEN Quotient("ok", n, d) ELSE NA
Plain(v) == IF IsNumber(v) THEN Quotient("ok", v, 1) ELSE NA
Inexactly(q, exact) ==
  IF q.status = "ok" /\ ~exact THEN [q EXCEPT !.status = "approximate"] ELSE q
(* Of a base that is zero or negative a growth means nothing.              *)
Growth(cur, prior) ==
  CASE ~Defined({cur, prior}) -> NA
    [] Defined({cur, prior}) /\ prior <= 0 -> NM
    [] OTHER -> Quotient("ok", cur - prior, prior)
TtmOverAvg(flow, avg) ==
  IF ~Defined({flow, avg.sum}) THEN NA ELSE Inexactly(Ratio(2 * flow, avg.sum), avg.exact)
DaysOf(avg, flow) ==
  IF ~Defined({flow, avg.sum}) \/ flow = 0 THEN NA
  ELSE Inexactly(Quotient("ok", 365 * avg.sum, 2 * flow), avg.exact)

(* Current debt in parts with no total: leverage is understated.           *)
DebtSplit(F, end) ==
  LET tags == {f.tag : f \in {g \in F : g.start = Instant /\ g.end = end /\ IsNumber(g.value)}}
  IN <<"debt_current", 1>> \notin tags
     /\ tags \cap {<<"debt_current", 2>>, <<"debt_current", 3>>} # {}

----------------------------------------------------------------------------
(* The metrics.  x is the context of one period: its facts, its anchor,    *)
(* and what every concept amounts to there.                                *)

Flows(index, end, allowSum) ==
  [c \in Concepts |-> TtmFlow(DataOf(index, c), end, allowSum)]
LevelAt(data, end) == IF end \in DOMAIN data.instants THEN data.instants[end].value ELSE NoValue
Context(F, index, anchor) ==
  [facts |-> F, anchor |-> anchor,
   ttm   |-> Flows(index, anchor.end, TRUE),    share  |-> Flows(index, anchor.end, FALSE),
   prior |-> Flows(index, anchor.prior, TRUE),  prior2 |-> Flows(index, anchor.prior2, TRUE),
   level |-> [c \in Concepts |-> LevelAt(DataOf(index, c), anchor.end)],
   avg   |-> [c \in Concepts |-> AvgBalance(DataOf(index, c), anchor.end, anchor.prior)]]
Ttm(x, c)       == x.ttm[c]
TtmPrior(x, c)  == x.prior[c]
TtmPrior2(x, c) == x.prior2[c]
PerShare(x, c)  == x.share[c]
Stock(x, c)     == x.level[c]
Avg(x, c)       == x.avg[c]
Debt(x) == OrZeroIfNone(Stock(x, "long_term_debt")) + OrZeroIfNone(Stock(x, "debt_current"))
HasDebt(x) == IsNumber(Stock(x, "long_term_debt")) \/ IsNumber(Stock(x, "debt_current"))
Split(x, q) == Inexactly(q, ~DebtSplit(x.facts, x.anchor.end))
Less(a, b) == IF IsNumber(a) THEN a - OrZeroIfNone(b) ELSE NoValue
FreeCash(x) == Less(Ttm(x, "cash_from_operations"), Ttm(x, "capital_expenditures"))

(* Gross profit, or what revenue leaves of its cost.                       *)
GrossMargin(x) ==
  LET rev == Ttm(x, "revenue")
      gp  == Ttm(x, "gross_profit")
      cor == Ttm(x, "cost_of_revenue")
  IN IF ~IsNumber(gp) /\ Defined({rev, cor}) THEN Ratio(rev - cor, rev) ELSE Ratio(gp, rev)

(* Taxed at the filer's own rate if it lies between 0 and 35%, else at 21%.*)
Roic(x) ==
  LET op  == Ttm(x, "operating_income")
      eq  == Stock(x, "stockholders_equity")
      ibt == Ttm(x, "income_before_tax")
      tax == Ttm(x, "income_tax_expense")
      capital == eq + Debt(x) - OrZeroIfNone(Stock(x, "cash_and_equivalents"))
      own == Defined({ibt, tax}) /\ ibt > 0 /\ tax >= 0 /\ 100 * tax <= 35 * ibt
  IN CASE ~Defined({op, eq}) -> NA
       [] Defined({op, eq}) /\ capital = 0 -> NA
       [] OTHER -> Split(x, IF own THEN Quotient("ok", op * (ibt - tax), ibt * capital)
                            ELSE Quotient("ok", op * 79, 100 * capital))

GrowthAcceleration(x) ==
  LET c  == Ttm(x, "revenue")
      p1 == TtmPrior(x, "revenue")
      p2 == TtmPrior2(x, "revenue")
  IN CASE ~Defined({c, p1, p2}) -> NA
       [] Defined({c, p1, p2}) /\ (p1 <= 0 \/ p2 <= 0) -> NM
       [] OTHER -> Quotient("ok", c * p2 - p1 * p1, p1 * p2)

DebtToEquity(x) ==
  LET eq == Stock(x, "stockholders_equity")
  IN IF ~IsNumber(eq) \/ ~HasDebt(x) \/ eq = 0 THEN NA ELSE Split(x, Quotient("ok", Debt(x), eq))
NetDebt(x) ==
  IF ~HasDebt(x) THEN NA
  ELSE Split(x, Plain(Debt(x) - OrZeroIfNone(Stock(x, "cash_and_equivalents"))))

Accruals(x) ==
  LET ni  == Ttm(x, "net_income")
      ocf == Ttm(x, "cash_from_operations")
      avg == Avg(x, "total_assets")
  IN IF ~Defined({ni, ocf, avg.sum}) THEN NA ELSE Inexactly(Ratio(2 * (ni - ocf), avg.sum), avg.exact)
EquityMultiplier(x) ==
  LET assets == Avg(x, "total_assets")
      equity == Avg(x, "stockholders_equity")
  IN Inexactly(Ratio(assets.sum, equity.sum), assets.exact /\ equity.exact)

Dio(x) == DaysOf(Avg(x, "inventory"), Ttm(x, "cost_of_revenue"))
Dso(x) == DaysOf(Avg(x, "accounts_receivable"), Ttm(x, "revenue"))
Dpo(x) == DaysOf(Avg(x, "accounts_payable"), Ttm(x, "cost_of_revenue"))
(* A missing leg is never a zero.  Two of the three are days of cost.      *)
Ccc(x) ==
  LET i == Dio(x) s == Dso(x) p == Dpo(x)
      approx == "approximate" \in {i.status, s.status, p.status}
  IN IF {i.status, s.status, p.status} \subseteq {"ok", "approximate"}
     THEN Inexactly(Quotient("ok", (i.num - p.num) * s.den + s.num * i.den, i.den * s.den), ~approx)
     ELSE NA

(* Not to be added up over quarters: off the year there is none.           *)
ReportedPerShare(x, c) ==
  LET v == PerShare(x, c)
  IN CASE IsNumber(v) -> Plain(v)
       [] ~IsNumber(v) /\ x.anchor.period # "FY" -> NM
       [] OTHER -> NA
FcfPerShare(x) ==
  LET sh == PerShare(x, "shares_diluted") IN Ratio(FreeCash(x), sh)

MetricKeys ==
  <<"gross_margin", "operating_margin", "net_margin", "roa", "roe", "roic",
    "revenue_growth_yoy", "earnings_growth_yoy", "ocf_growth_yoy", "growth_acceleration",
    "current_ratio", "quick_ratio", "debt_to_equity", "net_debt", "interest_coverage", "fcf",
    "fcf_margin", "accruals", "asset_turnover", "equity_multiplier", "inventory_turnover",
    "dso", "dio", "dpo", "ccc", "eps_basic", "eps_diluted", "book_value_per_share",
    "fcf_per_share", "share_count">>
Metric(x, m) ==
  CASE m = "gross_margin"     -> GrossMargin(x)
    [] m = "operating_margin" -> Ratio(Ttm(x, "operating_income"), Ttm(x, "revenue"))
    [] m = "net_margin"       -> Ratio(Ttm(x, "net_income"), Ttm(x, "revenue"))
    [] m = "roa"  -> TtmOverAvg(Ttm(x, "net_income"), Avg(x, "total_assets"))
    [] m = "roe"  -> TtmOverAvg(Ttm(x, "net_income"), Avg(x, "stockholders_equity"))
    [] m = "roic" -> Roic(x)
    [] m = "revenue_growth_yoy"  -> Growth(Ttm(x, "revenue"), TtmPrior(x, "revenue"))
    [] m = "earnings_growth_yoy" -> Growth(Ttm(x, "net_income"), TtmPrior(x, "net_income"))
    [] m = "ocf_growth_yoy" ->
         Growth(Ttm(x, "cash_from_operations"), TtmPrior(x, "cash_from_operations"))
    [] m = "growth_acceleration" -> GrowthAcceleration(x)
    [] m = "current_ratio" ->
         Ratio(Stock(x, "total_current_assets"), Stock(x, "total_current_liabilities"))
    [] m = "quick_ratio" ->
         Ratio(Less(Stock(x, "total_current_assets"), Stock(x, "inventory")),
               Stock(x, "total_current_liabilities"))
    [] m = "debt_to_equity"    -> DebtToEquity(x)
    [] m = "net_debt"          -> NetDebt(x)
    [] m = "interest_coverage" -> Ratio(Ttm(x, "operating_income"), Ttm(x, "interest_expense"))
    [] m = "fcf"            -> Plain(FreeCash(x))
    [] m = "fcf_margin"     -> Ratio(FreeCash(x), Ttm(x, "revenue"))
    [] m = "accruals"       -> Accruals(x)
    [] m = "asset_turnover" -> TtmOverAvg(Ttm(x, "revenue"), Avg(x, "total_assets"))
    [] m = "equity_multiplier"  -> EquityMultiplier(x)
    [] m = "inventory_turnover" -> TtmOverAvg(Ttm(x, "cost_of_revenue"), Avg(x, "inventory"))
    [] m = "dso" -> Dso(x)
    [] m = "dio" -> Dio(x)
    [] m = "dpo" -> Dpo(x)
    [] m = "ccc" -> Ccc(x)
    [] m \in {"eps_basic", "eps_diluted"} -> ReportedPerShare(x, m)
    [] m = "book_value_per_share" ->
         Ratio(Stock(x, "stockholders_equity"), Stock(x, "shares_outstanding"))
    [] m = "fcf_per_share" -> FcfPerShare(x)
    [] m = "share_count"   -> Plain(PerShare(x, "shares_diluted"))

(* The latest filing that reported anything at this end.                   *)
AsOf(index, end) ==
  LET dates == UNION {{index[c].durations[k].filed : k \in {j \in DOMAIN index[c].durations : j[2] = end}}
                      \cup {index[c].instants[e].filed : e \in {end} \cap DOMAIN index[c].instants}
                      : c \in DOMAIN index}
  IN IF dates = {} THEN 0 ELSE Max(dates)

(* The whole set of a period; nothing if the period is not on file.        *)
At(F, index, y, p) == Context(F, index, ResolveAnchor(Calendar(index), y, p))
Measured(x, index) ==
  IF x.anchor.end = NoDate THEN [end |-> NoDate]
  ELSE [end |-> x.anchor.end, as_of |-> AsOf(index, x.anchor.end),
        values |-> [m \in Range(MetricKeys) |-> Metric(x, m)]]
MetricSet(F, index, y, p) == Measured(At(F, index, y, p), index)
ComputeMetrics(F, y, p) == MetricSet(F, IndexConcepts(F, Restated), y, p)
(* A year with its quarters, at most four.                                 *)
WithTrend(F, index, y) ==
  LET annual   == MetricSet(F, index, y, "FY")
      quarters == FirstN(QuartersInFy(Calendar(index), y), 4)
  IN IF annual.end = NoDate THEN annual
     ELSE [trend |-> [i \in DOMAIN quarters |-> MetricSet(F, index, y, QuarterName[i])]] @@ annual
FyMetricsWithTrend(F, y) == WithTrend(F, IndexConcepts(F, Restated), y)
\* The parts a group's DuPont and asset cycle are summed from: all or none.
DupontParts(x) ==
  LET parts == [net_income |-> Ttm(x, "net_income"), revenue |-> Ttm(x, "revenue"),
                assets |-> Avg(x, "total_assets").sum, equity |-> Avg(x, "stockholders_equity").sum]
  IN IF x.anchor.end = NoDate \/ ~Defined(Range(parts))
        \/ 0 \in {parts.revenue, parts.assets, parts.equity} THEN <<>> ELSE <<parts>>
LifecycleParts(x) ==
  LET parts == [inventory |-> Avg(x, "inventory").sum, payables |-> Avg(x, "accounts_payable").sum,
                receivables |-> Avg(x, "accounts_receivable").sum,
                cost |-> Ttm(x, "cost_of_revenue"), revenue |-> Ttm(x, "revenue")]
  IN IF x.anchor.end = NoDate \/ ~Defined(Range(parts)) \/ 0 \in {parts.cost, parts.revenue}
     THEN <<>> ELSE <<parts>>
ComponentsAt(x) == [dupont |-> DupontParts(x), lifecycle |-> LifecycleParts(x)]
Components(F, y, p) == ComponentsAt(At(F, IndexConcepts(F, Restated), y, p))

----------------------------------------------------------------------------
(* Series and their signals.                                               *)

InOrder(P) == Sorted(P, LAMBDA a, b : a.end < b.end)
PeriodsOf(cal, frequency) ==
  InOrder({k \in MetricPeriods(cal) : (k.period = "FY") = (frequency = "annual")})

Usable(q) == q.status \in {"ok", "approximate"}
(* a/b < c/d with denominators of any sign.                                *)
Below(q, r) ==
  IF (q.den > 0) = (r.den > 0) THEN q.num * r.den < r.num * q.den
  ELSE q.num * r.den > r.num * q.den
Window(points, n) == SubSeq(points, Max({1, Len(points) - n + 1}), Len(points))
UsablePoints(points) == SelectSeq(points, LAMBDA k : Usable(k.value))

(* Differences and rates are left to their operands; the first and last    *)
(* usable points of a window are what a change is taken over.              *)
Expansion(W) ==
  LET u == UsablePoints(W)
  IN IF Len(u) < 2 THEN [status |-> "nm"]
     ELSE [status |-> "ok", from |-> u[1].end, to |-> u[Len(u)].end,
           up |-> Below(u[1].value, u[Len(u)].value)]
Cagr(W) ==
  LET u == UsablePoints(W)
      positive(q) == q.num * q.den > 0
  IN CASE Len(u) < 2 -> [status |-> "na"]
       [] Len(u) >= 2 /\ u[1].end >= u[Len(u)].end -> [status |-> "na"]
       [] Len(u) >= 2 /\ u[1].end < u[Len(u)].end
          /\ ~(positive(u[1].value) /\ positive(u[Len(u)].value)) -> [status |-> "nm"]
       [] OTHER -> [status |-> "ok", from |-> u[1].end, to |-> u[Len(u)].end]
Acceleration(W) ==
  LET u == UsablePoints(W) n == Len(u)
  IN IF n < 3 THEN [status |-> "nm"] ELSE [status |-> "ok", of |-> {u[n].end, u[n - 1].end, u[n - 2].end}]
(* How many of the last steps went the way the last one did; a gap ends it.*)
Streak(points) ==
  LET n    == Len(points)
      run  == {i \in 1 .. n : \A k \in i .. n : Usable(points[k].value)}
      v(i) == points[i].value
      same(i) == IF Below(v(n - 1), v(n)) THEN Below(v(i - 1), v(i)) ELSE Below(v(i), v(i - 1))
  IN IF Cardinality(run) < 2 THEN [status |-> "nm"]
     ELSE [status |-> "ok",
           steps |-> Cardinality({i \in run \ {Min(run)} : \A k \in i .. n : same(k)})]
DistanceFromPeak(W) ==
  LET u == UsablePoints(W) n == Len(u)
      peak == CHOOSE i \in 1 .. n : \A k \in 1 .. n : ~Below(u[i].value, u[k].value)
  IN CASE n = 0 -> [status |-> "na"]
       [] n > 0 /\ u[peak].value.num = 0 -> [status |-> "na"]
       [] OTHER -> [status |-> "ok", at |-> u[peak].end, peak |-> ~Below(u[n].value, u[peak].value)]
TrendSignals(points, n) ==
  LET W == Window(points, n)
  IN [expansion |-> Expansion(W), cagr |-> Cagr(W), acceleration |-> Acceleration(W),
      streak |-> Streak(points), distance |-> DistanceFromPeak(W)]

Signalled(points, n) == [points |-> points, signals |-> TrendSignals(points, n)]
PointOf(F, index, cal, k, m) ==
  [end |-> k.end, value |-> Metric(Context(F, index, ResolveAnchor(cal, k.year, k.period)), m)]
HistoryOver(F, index, cal, m, frequency) ==
  LET periods == PeriodsOf(cal, frequency)
  IN Signalled([i \in DOMAIN periods |-> PointOf(F, index, cal, periods[i], m)],
               IF frequency = "annual" THEN 5 ELSE 8)
History(F, index, m, frequency) == HistoryOver(F, index, Calendar(index), m, frequency)
MetricHistory(F, m, frequency, basis) == History(F, IndexConcepts(F, basis), m, frequency)

(* A flow is read as what its quarter or year brought, a stock as the      *)
(* level at the end.                                                       *)
SeriesOf(data, periods, frequency) ==
  LET flow     == data.durations # <<>>
      quarters == DiscreteQuarters(data)
      at(e)    == CASE ~flow -> LevelAt(data, e)
                    [] flow /\ frequency = "annual" -> TtmFlow(data, e, TRUE)
                    [] OTHER -> IF e \in DOMAIN quarters THEN quarters[e] ELSE NoValue
  IN [tag |-> data.tag,
      points |-> IF data.tag = <<>> THEN <<>>
                 ELSE [i \in DOMAIN periods |->
                         [year |-> periods[i].year, period |-> periods[i].period,
                          end |-> periods[i].end, value |-> at(periods[i].end)]]]
ConceptSeries(F, c, frequency, basis) ==
  SeriesOf(ConceptData(F, c, basis),
           PeriodsOf(Calendar(IndexConcepts(F, Restated)), frequency), frequency)
=============================================================================

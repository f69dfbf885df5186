------------------------------ MODULE Statements ------------------------------
(***************************************************************************)
(* One company: what it files with the SEC, the facts the store holds of   *)
(* it, and what the read routes of api/routes.py answer from them.         *)
(*                                                                         *)
(* The company publishes a report a quarter, annual ones included; a read  *)
(* that finds nothing stored, or the incremental ingest, stores the whole  *)
(* history published so far; a run of the frames backfill stores a row by  *)
(* its calendar frame alone, with neither fiscal period nor date of filing.*)
(* What a report says is drawn from the company's own accounts, so that an *)
(* answer can be held against them.                                        *)
(***************************************************************************)
EXTENDS MetricViews, BridgeViews

CONSTANTS
  FirstQuarters,   \* the quarters a company may begin to report with
  MaxFilings, MaxOdd, MaxUnseen, FramesUntil,
  Periods,         \* <<year, period>> that readers ask for
  PeriodTypes, Columns, StatementsAsked, SeriesAsked, MetricsAsked, Pages

ASSUME StatementsAssumption ==
  /\ FirstQuarters \subseteq Nat \ 0 .. 8
  /\ {MaxFilings, MaxOdd, MaxUnseen, FramesUntil} \subseteq Nat
  /\ StatementsAsked \subseteq StatementTypes /\ SeriesAsked \subseteq Concepts
  /\ MetricsAsked \subseteq Range(MetricKeys)
  /\ Columns \subseteq Nat \ {0} /\ Pages \subseteq Nat \ {0}

VARIABLES
  filings,    \* what the SEC has published, in the order filed
  ingested,   \* how many of these the store has had the facts of
  framed,     \* rows the frames backfill wrote
  shown       \* the answer a reader is looking at

vars == <<filings, ingested, framed, shown>>

----------------------------------------------------------------------------
(* The company's accounts.                                                 *)

FiscalYear(q)   == (q + 3) \div 4
FiscalPeriod(q) == IF q % 4 = 0 THEN "FY" ELSE <<"Q1", "Q2", "Q3">>[q % 4]
QuarterOf(y, p) == 4 * (y - 1) + IF p = "FY" THEN 4 ELSE QuarterNumber(p)
YearStart(q)    == YearEnd(FiscalYear(q) - 1)

\* What a quarter brings: leaves first, the totals are theirs.
LeafScale ==
  [cost_of_revenue |-> 11, research_and_development |-> 7, sga_expense |-> 5,
   interest_expense |-> 2, income_tax_expense |-> 1, net_income |-> 3,
   cash_from_operations |-> 13, cash_from_investing |-> -4, cash_from_financing |-> -6,
   capital_expenditures |-> 2]
TotalOf ==
  [income_before_tax  |-> {"income_tax_expense", "net_income"},
   operating_income   |-> {"income_tax_expense", "net_income", "interest_expense"},
   operating_expenses |-> {"research_and_development", "sga_expense"},
   gross_profit |-> {"income_tax_expense", "net_income", "interest_expense",
                     "research_and_development", "sga_expense"},
   revenue      |-> {"income_tax_expense", "net_income", "interest_expense",
                     "research_and_development", "sga_expense", "cost_of_revenue"},
   change_in_cash |-> {"cash_from_operations", "cash_from_investing", "cash_from_financing"}]
Scale ==
  LeafScale @@ [c \in DOMAIN TotalOf |-> FoldSet(LAMBDA l, n : n + LeafScale[l], 0, TotalOf[c])]
CashFlows == {"cash_from_operations", "cash_from_investing", "cash_from_financing",
              "capital_expenditures", "change_in_cash"}
IncomeFlows == (DOMAIN Scale \ CashFlows) \cup {"shares_diluted"}

\* Over the quarters from one quarter-end to another; an average for shares.
Flow(c, s, e) ==
  IF c = "shares_diluted" THEN 100 + e
  ELSE FoldSet(LAMBDA q, n : n + Scale[c] * (q + 1), 0, s \div 2 + 1 .. e \div 2)
Level(q) ==
  [total_assets |-> 40 * q + 9, stockholders_equity |-> 15 * q + 4,
   total_liabilities |-> 25 * q + 5, liabilities_and_equity |-> 40 * q + 9,
   total_current_assets |-> 9 * q + 50, total_current_liabilities |-> 4 * q + 9,
   long_term_debt |-> 3 * q + 1, debt_current |-> q + 1,
   accounts_receivable |-> 2 * q + 1, inventory |-> q + 2, accounts_payable |-> q + 3,
   cash_and_restricted_cash |-> Flow("change_in_cash", 0, 2 * q)]
AnnualLevel(q) == [debt_maturity_y1 |-> 50 + q, purchase_obligation |-> 70 + q]
CoverShares(q) == 200 + q

----------------------------------------------------------------------------
(* A report: the quarter it ends and how it departs from the plain one:    *)
(* "restating" gives other figures for the earlier years, "recoded" tags   *)
(* revenue otherwise, "sparse" leaves out some lines, "amended" is a later *)
(* 10-K/A with a corrected income statement and nothing else.              *)

Shapes == {"plain", "restating", "recoded", "sparse", "amended"}
Filed(x) == 2 * x.quarter + IF x.shape = "amended" THEN 2 ELSE 1
Untagged(x) ==
  IF x.shape = "sparse" THEN {"gross_profit", "operating_income", "research_and_development"}
  ELSE {}
TagOf(x, c) ==
  CASE c = "revenue" /\ x.shape = "recoded" -> <<"revenue", 2>>
    [] c = "debt_current" -> <<"debt_current", 2>>
    [] OTHER -> <<c, 1>>

FlowsOf(x) ==
  (IncomeFlows \ Untagged(x)) \cup (IF x.shape = "amended" THEN {} ELSE CashFlows)
(* Income has the quarter and the year to date, cash the latter alone.     *)
OwnSpans(x, c) ==
  {<<YearStart(x.quarter), 2 * x.quarter>>}
  \cup IF x.quarter % 4 # 0 /\ c \in IncomeFlows
       THEN {<<2 * x.quarter - 2, 2 * x.quarter>>} ELSE {}
YearsBack(x) ==
  CASE x.shape = "amended" -> {0}
    [] x.shape # "amended" /\ x.quarter % 4 = 0 -> 0 .. 2
    [] OTHER -> {0, 1}
Revision(x, back) ==
  IF x.shape = "amended" \/ (x.shape = "restating" /\ back # 0) THEN 1 ELSE 0

Fact(x, t, s, e, v) ==
  [tag |-> t, start |-> s, end |-> e, fy |-> FiscalYear(x.quarter),
   fp |-> FiscalPeriod(x.quarter), filed |-> Filed(x), value |-> v, accession |-> Filed(x)]
FlowFacts(x) ==
  UNION {{Fact(x, TagOf(x, c), k[1] - 8 * b, k[2] - 8 * b,
               Flow(c, k[1] - 8 * b, k[2] - 8 * b) + Revision(x, b)) :
            k \in OwnSpans(x, c), b \in YearsBack(x)} : c \in FlowsOf(x)}
(* The balance sheet has the last year-end beside it.                      *)
LevelFacts(x) ==
  {Fact(x, TagOf(x, c), Instant, 2 * q, Level(q)[c]) :
     c \in DOMAIN Level(1), q \in {x.quarter, 4 * (FiscalYear(x.quarter) - 1)}}
  \cup {Fact(x, TagOf(x, c), Instant, 2 * x.quarter, AnnualLevel(x.quarter)[c]) :
          c \in IF x.quarter % 4 = 0 THEN DOMAIN AnnualLevel(1) ELSE {}}
  \cup {Fact(x, <<"shares_outstanding", 2>>, Instant, 2 * x.quarter + 1, CoverShares(x.quarter))}
Reports ==
  [quarter : UNION {q .. q + MaxFilings : q \in FirstQuarters}, shape : Shapes]
FilingFacts ==
  [x \in Reports |-> FlowFacts(x) \cup IF x.shape = "amended" THEN {} ELSE LevelFacts(x)]

----------------------------------------------------------------------------
(* The store.                                                              *)

FactsOf(n) == UNION {FilingFacts[filings[i]] : i \in 1 .. n}
(* A row the ingest brings again is completed, not doubled.                *)
Known(n) ==
  FactsOf(n) \cup {f \in framed : \A i \in 1 .. n : Filed(filings[i]) # f.accession}

Nothing == [ask |-> "none"]
Init ==
  /\ filings = <<>> /\ ingested = 0 /\ framed = {}
  /\ shown = Nothing

OddOnes == {i \in 1 .. Len(filings) : filings[i].shape # "plain"}
NextQuarters ==
  IF filings = <<>> THEN FirstQuarters ELSE {filings[Len(filings)].quarter + 1}
Publish(x) ==
  /\ shown = Nothing
  /\ Len(filings) < MaxFilings /\ Len(filings) - ingested < MaxUnseen
  /\ x.shape # "plain" => Cardinality(OddOnes) < MaxOdd
  /\ IF x.shape = "amended"
     THEN /\ filings # <<>> /\ filings[Len(filings)].shape # "amended"
          /\ x.quarter = filings[Len(filings)].quarter /\ x.quarter % 4 = 0
     ELSE x.quarter \in NextQuarters
  /\ filings' = Append(filings, x)
  /\ UNCHANGED <<ingested, framed, shown>>

(* companyfacts has the whole history, and nothing is ever deleted.        *)
Ingest ==
  /\ shown = Nothing /\ ingested < Len(filings)
  /\ ingested' = Len(filings)
  /\ UNCHANGED <<filings, framed, shown>>

(* A frame holds of each company the fact of the latest report; the row    *)
(* it becomes says neither period nor date.                                *)
FrameRows(c, q) ==
  LET span == IF q % 4 = 0 THEN <<YearStart(q), 2 * q>> ELSE <<2 * q - 2, 2 * q>>
      G    == {f \in FactsOf(Len(filings)) :
                 f.tag \in Range(Candidates[c]) /\ f.start = span[1] /\ f.end = span[2]}
  IN {[f EXCEPT !.fy = NoDate, !.fp = "none", !.filed = 0] :
        f \in {g \in G : \A h \in G : h.filed <= g.filed}}
BackfillFrames(q) ==
  /\ shown = Nothing /\ framed = {} /\ Len(filings) <= FramesUntil
  /\ framed' = FrameRows("revenue", q)
  /\ UNCHANGED <<filings, ingested, shown>>

----------------------------------------------------------------------------
(* The reads.  A full history is fetched if there is no row at all; a      *)
(* period if there is no row of any period.                                *)

Show(answer) == shown' = answer /\ UNCHANGED <<filings, framed>>
Error404 == [status |-> 404]
Ok(v) == [status |-> 200, body |-> v]
AllLoaded    == IF ingested = 0 /\ framed = {} THEN Len(filings) ELSE ingested
PeriodLoaded == IF ingested = 0 THEN Len(filings) ELSE ingested
AllFacts == Known(AllLoaded)
FactsOfPeriod(y, p) == InPeriod(Known(PeriodLoaded), y, p)
FullRead(ask, found, body) ==
  /\ shown = Nothing /\ ingested' = AllLoaded
  /\ Show([ask |-> ask, answer |-> IF found THEN Ok(body) ELSE Error404])
PeriodRead(ask, found, body) ==
  /\ shown = Nothing /\ ingested' = PeriodLoaded
  /\ Show([ask |-> ask, answer |-> IF found THEN Ok(body) ELSE Error404])

StatementOf(s, y, p) == BuildStatement(FactsOfPeriod(y, p), s, y, p)
GetStatement(s, y, p) ==
  LET st == StatementOf(s, y, p) IN PeriodRead(<<"statement", s, y, p>>, ~NotFound(st), st)
GetIncomeViz(y, p) ==
  LET st == StatementOf("income", y, p)
  IN PeriodRead(<<"income viz", y, p>>, ~NotFound(st), IncomeViz(st))
GetBalanceViz(y, p) ==
  LET st == StatementOf("balance", y, p)
  IN PeriodRead(<<"balance viz", y, p>>, ~NotFound(st), BalanceViz(st))
GetNormalizedFacts(y, p) ==
  LET v == BuildNormalizedView(FactsOfPeriod(y, p), y, p)
  IN PeriodRead(<<"normalized", y, p>>, v.rows # {} \/ v.meta.accession # 0, v)

(* The statements of the newest periods of one type, less the empty ones.  *)
Selected(F, s, p, n) ==
  LET keys == FirstN(OfType(F, p), n)
  IN [i \in 1 .. Len(keys) |-> BuildStatement(F, s, keys[i][1], p)]
Found(sts) == SelectSeq(sts, LAMBDA st : ~NotFound(st))
GetCondensedStatement(s, p, n) ==
  LET F == AllFacts
  IN FullRead(<<"condensed", s, p, n>>, F # {}, CondensedStatement(Found(Selected(F, s, p, n))))
GetCapitalStructure(p, n) ==
  LET F == AllFacts
  IN FullRead(<<"structure", p, n>>, F # {},
              CapitalStructureSeries(Found(Selected(F, "balance", p, n))))
GetCashFlowSeries(p, n) ==
  LET F == AllFacts
  IN FullRead(<<"cash series", p, n>>, F # {},
              CashFlowSeries(Found(Selected(F, "cashflow", p, n)), Selected(F, "income", p, n)))

(* The balance the day before the cash flow starts, which for a quarter is *)
(* the last year-end's; without one, the one of the period before of the   *)
(* same type.                                                              *)
PriorPeriodBalance(F, cf, y, p) ==
  LET at(k)  == BuildStatement(F, "balance", k[1], k[2])
      dated  == {k \in Range(AvailablePeriods(F)) \ {<<y, p>>} :
                   cf.meta.start # NoDate /\ at(k).meta.end = cf.meta.start}
      same   == OfType(F, p)
      place  == {i \in 1 .. Len(same) - 1 : same[i] = <<y, p>>}
      built(k) == IF NotFound(at(k)) THEN NoStatement ELSE at(k)
  IN CASE dated # {} -> at(CHOOSE k \in dated : TRUE)
       [] dated = {} /\ place # {} -> built(same[Min(place) + 1])
       [] OTHER -> NoStatement
CashFlowViz(F, y, p) ==
  LET cf == BuildStatement(F, "cashflow", y, p)
  IN BuildCashFlowBridge(cf, BuildStatement(F, "balance", y, p), PriorPeriodBalance(F, cf, y, p))
GetCashFlowViz(y, p) ==
  LET F == AllFacts
  IN FullRead(<<"cash viz", y, p>>, ~NotFound(BuildStatement(F, "cashflow", y, p)),
              CashFlowViz(F, y, p))

(* The cards of one period, of the latest on file if no year (0) is given. *)
LatestYear(F, p) == LET same == OfType(F, p) IN IF same = <<>> THEN NoDate ELSE same[1][1]
CardYear(F, year, p) == IF year = 0 THEN LatestYear(F, p) ELSE year
Cards(F, groups, year, p) ==
  LET y == CardYear(F, year, p)
  IN [year |-> y, cards |-> {BuildConceptGroup(F, groups, g, y, p) : g \in DOMAIN groups}]
GetCards(what, groups, year, p) ==
  LET F == AllFacts
  IN FullRead(<<what, year, p>>, F # {} /\ CardYear(F, year, p) # NoDate,
              Cards(F, groups, year, p))
GetFootnotes(year, p)   == GetCards("footnotes", FootnoteGroups, year, p)
GetCapital(year, p)     == GetCards("capital", CapitalGroups, year, p)
GetObligations(year, p) == GetCards("obligations", ObligationGroups, year, p)

(* The rows as they are, page by page.                                     *)
RawBefore(f, g) ==
  \/ f.end < g.end
  \/ f.end = g.end /\ f.start < g.start
  \/ f.end = g.end /\ f.start = g.start /\ f.filed < g.filed
RawFacts(F, t, y, offset, limit) ==
  LET rows == Sorted({f \in F : f.tag = t /\ f.fy = y}, RawBefore)
  IN [total |-> Len(rows),
      page  |-> SubSeq(rows, offset + 1, Min({offset + limit, Len(rows)}))]
GetRawFacts(t, y, offset, limit) ==
  FullRead(<<"raw", t, y, offset>>, TRUE, RawFacts(AllFacts, t, y, offset, limit))
GetPeriods == FullRead(<<"periods">>, TRUE, AvailablePeriods(AllFacts))

(* The latest count above zero, cover pages included.                      *)
SharesOutstanding(F) ==
  LET G == {f \in F : f.tag \in Range(Candidates["shares_outstanding"]) /\ f.value > 0}
      S == {f \in G : \A g \in G : g.end < f.end \/ (g.end = f.end /\ g.filed <= f.filed)}
  IN IF S = {} THEN <<>> ELSE LET f == CHOOSE f \in S : TRUE IN <<f.value, f.end>>
GetSharesOutstanding == FullRead(<<"shares">>, TRUE, SharesOutstanding(AllFacts))

MetricsOf(F, y, p) == IF p = "FY" THEN FyMetricsWithTrend(F, y) ELSE ComputeMetrics(F, y, p)
GetMetrics(y, p) ==
  LET F == AllFacts
  IN FullRead(<<"metrics", y, p>>,
              PeriodEnd(Calendar(IndexConcepts(F, Restated)), y, p) # NoDate, MetricsOf(F, y, p))
GetMetricPeriods ==
  FullRead(<<"metric periods">>, TRUE, MetricPeriods(Calendar(IndexConcepts(AllFacts, Restated))))
GetMetricHistory(m, frequency, basis) ==
  FullRead(<<"history", m, frequency, basis>>, TRUE,
           MetricHistory(AllFacts, m, frequency, basis))
GetConceptSeries(c, frequency, basis) ==
  FullRead(<<"series", c, frequency, basis>>, TRUE,
           ConceptSeries(AllFacts, c, frequency, basis))
\* What the sector jobs take of a company; they read the store and fetch nothing.
GetComponents(y, p) ==
  /\ shown = Nothing
  /\ LET F == Known(ingested)
     IN Show([ask |-> <<"components", y, p>>,
              answer |-> Ok(Components(F, y, p))])
  /\ UNCHANGED ingested

Close == shown # Nothing /\ shown' = Nothing /\ UNCHANGED <<filings, ingested, framed>>

----------------------------------------------------------------------------
Read ==
  \/ \E k \in Periods :
       \/ \E s \in StatementsAsked : GetStatement(s, k[1], k[2])
       \/ GetIncomeViz(k[1], k[2]) \/ GetBalanceViz(k[1], k[2]) \/ GetCashFlowViz(k[1], k[2])
       \/ GetNormalizedFacts(k[1], k[2]) \/ GetMetrics(k[1], k[2])
       \/ GetComponents(k[1], k[2])
       \/ \E year \in {0, k[1]} :
            GetFootnotes(year, k[2]) \/ GetCapital(year, k[2]) \/ GetObligations(year, k[2])
       \/ \E n \in Pages : GetRawFacts(<<"revenue", 1>>, k[1], n - 1, n)
  \/ \E p \in PeriodTypes, n \in Columns :
       \/ \E s \in StatementsAsked : GetCondensedStatement(s, p, n)
       \/ GetCapitalStructure(p, n) \/ GetCashFlowSeries(p, n)
  \/ GetPeriods \/ GetSharesOutstanding \/ GetMetricPeriods
  \/ \E frequency \in {"annual", "quarterly"}, basis \in {Restated, Original} :
       \/ \E m \in MetricsAsked : GetMetricHistory(m, frequency, basis)
       \/ \E c \in SeriesAsked : GetConceptSeries(c, frequency, basis)
Next ==
  \/ \E x \in Reports : Publish(x)
  \/ Ingest
  \/ \E q \in {filings[i].quarter : i \in 1 .. Len(filings)} : BackfillFrames(q)
  \/ Read
  \/ Close
Spec == Init /\ [][Next]_vars
----------------------------------------------------------------------------
(* What the answers owe the accounts.                                      *)

Ingested == {filings[i] : i \in 1 .. ingested}
Of(y, p) == {x \in Ingested : x.quarter = QuarterOf(y, p)}
Asked(what) == shown # Nothing /\ shown.ask[1] = what
Answered(what) == Asked(what) /\ shown.answer.status = 200

\* What the report on a period says of that period, line by line.
OwnFlow(c, y, p) ==
  LET q == QuarterOf(y, p)
      s == IF p # "FY" /\ c \in IncomeFlows THEN 2 * q - 2 ELSE YearStart(q)
  IN Flow(c, s, 2 * q) + Max({0} \cup {Revision(x, 0) : x \in {z \in Of(y, p) : c \in FlowsOf(z)}})
OwnFlows(y, p) ==
  [c \in UNION {FlowsOf(x) : x \in Of(y, p)} |-> OwnFlow(c, y, p)]
OwnLevels(y, p) ==
  LET q == QuarterOf(y, p)
  IN Level(q) @@ ("shares_outstanding" :> CoverShares(q))
     @@ (IF p = "FY" THEN AnnualLevel(q) ELSE <<>>)
OwnFacts(y, p) == OwnFlows(y, p) @@ OwnLevels(y, p)
OwnLines(s, y, p) ==
  Restrict(OwnFacts(y, p), DOMAIN OwnFacts(y, p) \cap Range(StatementConcepts[s]))
LinesOf(st) == [c \in {l.concept : l \in Range(st.lines)} |-> ValueOf(st, c)]
ColumnOf(table, k) ==
  LET told == {r \in Range(table.rows) : IsNumber(r.values[k])}
  IN [c \in {r.concept : r \in told} |-> (CHOOSE r \in told : r.concept = c).values[k]]

(* An answer about a period shows the lines the report on that very period *)
(* has and no others, with the figures it gives for its own column: not    *)
(* the year to date where the quarter is told, not the earlier years set   *)
(* beside them, not what a cover page dates a few weeks later; and a cash  *)
(* bridge that starts from a level starts from the one its period opened   *)
(* with (build_statement, build_normalized_view, condensed_statement,      *)
(* _prior_period_balance).  There is no answer only if there is no report. *)
OwnPeriod ==
  LET a == shown.ask v == shown.answer
  IN /\ Asked("statement") =>
          IF Of(a[3], a[4]) = {} THEN v.status = 404
          ELSE v.status = 200 /\ LinesOf(v.body) = OwnLines(a[2], a[3], a[4])
     /\ Answered("normalized") =>
          {<<r.concept, r.value>> : r \in v.body.rows}
            = {<<c, OwnFacts(a[2], a[3])[c]>> : c \in DOMAIN OwnFacts(a[2], a[3])}
     /\ Answered("condensed") =>
          \A k \in DOMAIN v.body.columns :
            ColumnOf(v.body, k) = OwnLines(a[2], v.body.columns[k].year, v.body.columns[k].period)
     /\ (Answered("cash viz") /\ v.body.available /\ v.body.absolute) =>
          LET q == QuarterOf(a[2], a[3]) b == v.body
          IN /\ b.beginning = Level(YearStart(q) \div 2).cash_and_restricted_cash
             /\ b.ending = Level(q).cash_and_restricted_cash

(* The walk from revenue to net income closes: it leaves a gap only where  *)
(* the report leaves a line out, and the gap is just what is missing; a    *)
(* total is never counted with its own parts (_walk_components,            *)
(* _build_bridge).                                                         *)
BridgeCloses ==
  (Answered("income viz") /\ shown.answer.body.bridge.available) =>
    LET y == shown.ask[2] p == shown.ask[3]
        gaps    == SelectSeq(shown.answer.body.bridge.steps, LAMBDA s : s.kind = "residual")
        missing == UNION {Untagged(x) : x \in Of(y, p)} \cap DOMAIN LeafScale
    IN \/ \E x \in Of(y, p) : x.shape = "amended"
       \/ /\ missing = {} => gaps = <<>>
          /\ FoldLeft(LAMBDA n, s : n + s.amount, 0, gaps)
               = FoldSet(LAMBDA c, n : n - OwnFlow(c, y, p), 0, missing)

(* What is on file of a quarter: its own report, the one of the year after *)
(* that sets it beside its own, for a year also the one after that.        *)
Covered(q) ==
  \E x \in Ingested : x.quarter - q \in {0, 4} \cup (IF q % 4 = 0 THEN {8} ELSE {})
Tiles(q) == Covered(q) /\ (q % 4 # 1 => Covered(q - 1))
Straight(c) ==
  \A x \in Ingested :
    /\ x.shape \notin {"restating", "amended"}
    /\ c \notin Untagged(x) /\ (c = "revenue" => x.shape # "recoded")

Recoded(c) == c = "revenue" /\ \E x \in Ingested : x.shape = "recoded"
OwnTold(c, q) ==
  \E x \in Ingested : x.quarter = q /\ x.shape # "amended" /\ c \in FlowsOf(x)

(* A point of a series is what its own quarter or year brought, whichever  *)
(* reports it was recovered from, wherever the year to date is on file up  *)
(* to the quarter before (_ConceptData.discrete_quarters, _ttm_flow); and  *)
(* no such point is left out.  As originally reported it is so whatever    *)
(* later reports restate or amend, if the period's own report is on file   *)
(* and none tags the concept otherwise (_ConceptData._wins).               *)
SeriesOfQuarters ==
  LET a == shown.ask v == shown.answer.body
      Point(k) == v.points[k]
      Brought(c, k, years) ==
        LET q == Point(k).end \div 2
        IN CASE years -> Covered(q) => Point(k).value = Flow(c, 2 * q - 8, 2 * q)
             [] OTHER -> Tiles(q) => Point(k).value = Flow(c, 2 * q - 2, 2 * q)
      FirstBrought(c, k, years) ==
        LET q == Point(k).end \div 2
        IN CASE years -> OwnTold(c, q) => Point(k).value = Flow(c, 2 * q - 8, 2 * q)
             [] OTHER -> OwnTold(c, q) /\ (q % 4 # 1 => OwnTold(c, q - 1)) =>
                           Point(k).value = Flow(c, 2 * q - 2, 2 * q)
  IN /\ (Answered("series") /\ a[2] \in DOMAIN Scale /\ Straight(a[2])) =>
          \A k \in DOMAIN v.points : Brought(a[2], k, a[3] = "annual")
     /\ (Answered("series") /\ a[2] \in DOMAIN Scale /\ a[4] = Original /\ framed = {} /\ ~Recoded(a[2])) =>
          \A k \in DOMAIN v.points : FirstBrought(a[2], k, a[3] = "annual")
     /\ (Answered("series") /\ a[2] \in DOMAIN Level(1)) =>
          \A k \in DOMAIN v.points :
            LET q == Point(k).end \div 2
            IN (\E x \in Ingested : x.quarter = q) => Point(k).value = Level(q)[a[2]]
     /\ (Answered("history") /\ a[2] = "fcf" /\ Straight("cash_from_operations")) =>
          \A k \in DOMAIN v.points :
            LET q == Point(k).end \div 2
                span(c) == Flow(c, 2 * q - 8, 2 * q)
            IN (\A i \in q - 3 .. q : Tiles(i)) =>
                 /\ Usable(Point(k).value)
                 /\ Point(k).value.num = span("cash_from_operations") - span("capital_expenditures")

(* What the first report of a period said of it under a tag stays what the *)
(* as-originally-reported basis has under that tag: later filings, which   *)
(* restate it, recode it or amend it, add periods and change none          *)
(* (_ConceptData._wins).  So a concept keeps every period it showed as     *)
(* long as coverage chooses the same tag (_choose_tag).  When a recoding   *)
(* makes it choose another the code shows that tag's history instead, and  *)
(* periods told under the first tag alone are gone from the concept.  Rows *)
(* that no report is known of yet have no date and are left out.           *)
Kept(old, new) ==
  /\ \A k \in DOMAIN old.durations :
       k \in DOMAIN new.durations /\ new.durations[k].value = old.durations[k].value
  /\ \A e \in DOMAIN old.instants :
       e \in DOMAIN new.instants /\ new.instants[e].value = old.instants[e].value
KeptAsReported(F, H, c) ==
  LET old == ConceptData(F, c, Original)
      new == ConceptData(H, c, Original)
  IN /\ \A t \in Range(Candidates[c]) : Kept(TagHistory(F, t, Original), TagHistory(H, t, Original))
     /\ old.tag = new.tag => Kept(old, new)
StaysAsReported(c) == KeptAsReported(Known(ingested), Known(ingested)', c)
ReportedStays ==
  [][(ingested' > ingested /\ framed = {}) => \A c \in SeriesAsked : StaysAsReported(c)]_vars
=============================================================================

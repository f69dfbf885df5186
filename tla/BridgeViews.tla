----------------------------- MODULE BridgeViews -----------------------------
(***************************************************************************)
(* normalize/viz.py: the pictures of statements already built.  A line's   *)
(* amount is signed; a fraction is <<numerator, denominator>>.  Captions   *)
(* and directions are left out: a direction is the sign of the amount.     *)
(***************************************************************************)
EXTENDS StatementViews

ValueOf(st, c) ==
  LET I == {i \in 1 .. Len(st.lines) : st.lines[i].concept = c}
  IN IF I = {} THEN NoValue ELSE st.lines[Min(I)].value
Has(st, c) == IsNumber(ValueOf(st, c))
Present(st, cs) == SelectSeq(cs, LAMBDA c : Has(st, c))
SumOf(st, cs) == FoldLeft(LAMBDA n, c : n + ValueOf(st, c), 0, cs)
Abs(n) == IF n < 0 THEN -n ELSE n
\* Whole numbers: a gap of at least 1.0 is a gap.
Residual(n) == IF n = 0 THEN <<>> ELSE <<[kind |-> "residual", concept |-> "none", amount |-> n]>>
Step(kind, c, n) == [kind |-> kind, concept |-> c, amount |-> n]
Unavailable(why) == [available |-> FALSE, reason |-> why]

----------------------------------------------------------------------------
(* Income: the walk from revenue to net income.                            *)

Anchors == <<"revenue", "gross_profit", "operating_income", "income_before_tax", "net_income">>
SegmentComponents ==
  [gross_profit      |-> <<"cost_of_revenue">>,
   operating_income  |-> <<"research_and_development", "sga_expense", "operating_expenses">>,
   income_before_tax |-> <<"interest_expense", "interest_income", "nonoperating_income_expense">>,
   net_income        |-> <<"income_tax_expense">>]
ContributionSign(c) ==
  IF c \in {"interest_income", "nonoperating_income_expense"} THEN 1 ELSE -1

\* No aggregate dropped.
AllComponents(cs) == cs
(* The total of R&D and SG&A is dropped where one of them is there.        *)
WalkComponents(cs) ==
  IF Range(cs) \cap {"research_and_development", "sga_expense"} # {}
  THEN SelectSeq(cs, LAMBDA c : c # "operating_expenses") ELSE cs

(* One anchor after revenue: the components since the last anchor there    *)
(* was, the gap they leave, the anchor.  One that is absent hands its      *)
(* components to the next.                                                 *)
Segment(st, walk, a) ==
  LET pending == walk.pending \o SegmentComponents[a]
      parts   == WalkComponents(Present(st, pending))
      flows   == [i \in 1 .. Len(parts) |->
                    Step("flow", parts[i], ContributionSign(parts[i]) * ValueOf(st, parts[i]))]
      gap     == ValueOf(st, a) - walk.at - FoldLeft(LAMBDA n, s : n + s.amount, 0, flows)
  IN IF ~Has(st, a) THEN [walk EXCEPT !.pending = pending]
     ELSE [at |-> ValueOf(st, a), pending |-> <<>>,
           steps |-> walk.steps \o flows \o Residual(gap) \o <<Step("anchor", a, ValueOf(st, a))>>]

BuildBridge(st) ==
  LET start == [at |-> ValueOf(st, "revenue"), pending |-> <<>>,
                steps |-> <<Step("anchor", "revenue", ValueOf(st, "revenue"))>>]
  IN IF ~Has(st, "revenue") \/ ~Has(st, "net_income") THEN Unavailable("anchor")
     ELSE [available |-> TRUE, net_income |-> ValueOf(st, "net_income"),
           steps |-> FoldLeft(LAMBDA w, a : Segment(st, w, a), start, Tail(Anchors)).steps]

MonetaryIncomeConcepts ==
  SelectSeq(IncomeConcepts, LAMBDA c :
    c \notin {"current_income_tax_expense", "deferred_income_tax_expense", "effective_tax_rate",
              "eps_basic", "eps_diluted", "dividends_per_share", "shares_basic", "shares_diluted"})
CommonSize(st) ==
  LET base == ValueOf(st, "revenue")
  IN IF ~Has(st, "revenue") \/ base = 0 THEN Unavailable("base")
     ELSE [available |-> TRUE,
           shares |-> [c \in Range(Present(st, MonetaryIncomeConcepts)) |-> <<ValueOf(st, c), base>>]]
IncomeViz(st) == [bridge |-> BuildBridge(st), common_size |-> CommonSize(st)]

----------------------------------------------------------------------------
(* Balance: two columns, two current totals, and the mix over periods.     *)

CurrentAssetConcepts ==
  <<"cash_and_equivalents", "marketable_securities_current", "accounts_receivable", "inventory",
    "prepaid_expenses", "other_assets_current">>
MatrixAssetConcepts ==
  CurrentAssetConcepts \o
  <<"ppe_net", "operating_lease_right_of_use_asset", "goodwill", "intangible_assets",
    "marketable_securities_noncurrent", "other_assets_noncurrent">>
CurrentLiabilityConcepts ==
  <<"accounts_payable", "accrued_liabilities", "accounts_payable_and_accrued_liabilities",
    "debt_current", "deferred_revenue_current", "operating_lease_liabilities_current",
    "other_liabilities_current">>
MatrixLiabilityConcepts ==
  CurrentLiabilityConcepts \o
  <<"long_term_debt", "deferred_revenue", "operating_lease_liabilities_noncurrent",
    "other_liabilities_noncurrent">>

MatrixSide(st, cs, total) ==
  LET parts == Present(st, cs)
  IN [total |-> total,
      segments |-> [i \in 1 .. Len(parts) |-> Step("line", parts[i], ValueOf(st, parts[i]))]
                   \o Residual(total - SumOf(st, parts))]

(* The filer's own total, else liabilities and equity if both are there.   *)
FinancingTotal(st) ==
  CASE Has(st, "liabilities_and_equity") ->
         [value |-> ValueOf(st, "liabilities_and_equity"), derived |-> FALSE]
    [] ~Has(st, "liabilities_and_equity")
       /\ Has(st, "total_liabilities") /\ Has(st, "stockholders_equity") ->
         [value |-> ValueOf(st, "total_liabilities") + ValueOf(st, "stockholders_equity"),
          derived |-> TRUE]
    [] OTHER -> [value |-> NoValue, derived |-> FALSE]

\* Half a percent, or 1.
Within(a, b, of) == LET d == Abs(a - b) IN d <= 1 \/ 200 * d <= Abs(of)
BuildMatrix(st) ==
  LET assets == ValueOf(st, "total_assets")
      fin    == FinancingTotal(st)
  IN CASE ~IsNumber(assets) -> Unavailable("assets")
       [] IsNumber(assets) /\ ~IsNumber(fin.value) -> Unavailable("financing")
       [] OTHER ->
            [available |-> TRUE,
             assets    |-> MatrixSide(st, MatrixAssetConcepts, assets),
             financing |-> MatrixSide(st, Append(MatrixLiabilityConcepts, "stockholders_equity"),
                                      fin.value),
             delta     |-> assets - fin.value,
             balanced  |-> Within(assets, fin.value, assets),
             derived   |-> fin.derived]

WorkingCapitalComponents(st, cs, total) == MatrixSide(st, cs, total).segments
BuildWorkingCapital(st) ==
  LET assets == ValueOf(st, "total_current_assets")
      debts  == ValueOf(st, "total_current_liabilities")
  IN IF ~IsNumber(assets) \/ ~IsNumber(debts) THEN Unavailable("totals")
     ELSE [available |-> TRUE, net |-> assets - debts,
           assets      |-> WorkingCapitalComponents(st, CurrentAssetConcepts, assets),
           liabilities |-> WorkingCapitalComponents(st, CurrentLiabilityConcepts, debts)]
BalanceViz(st) == [matrix |-> BuildMatrix(st), working_capital |-> BuildWorkingCapital(st)]

(* Liabilities as reported, else what the reported total leaves of equity. *)
CapitalStructurePeriod(st) ==
  LET total  == FinancingTotal(st).value
      equity == ValueOf(st, "stockholders_equity")
      debts  == CASE Has(st, "total_liabilities") -> ValueOf(st, "total_liabilities")
                  [] ~Has(st, "total_liabilities")
                     /\ Has(st, "liabilities_and_equity") /\ IsNumber(equity) ->
                       ValueOf(st, "liabilities_and_equity") - equity
                  [] OTHER -> NoValue
      key    == [year |-> st.year, period |-> st.period, end |-> st.meta.end]
  IN IF ~IsNumber(total) \/ total = 0 \/ ~IsNumber(equity) \/ ~IsNumber(debts)
     THEN key @@ Unavailable("gap")
     ELSE key @@ [available |-> TRUE, total |-> total,
                  segments |-> <<Step("liabilities", "total_liabilities", debts),
                                 Step("equity", "stockholders_equity", equity)>>
                               \o Residual(total - (debts + equity))]

(* Columns are drawn from the oldest to the newest.                        *)
OldestFirst(sts) ==
  Sorted(Range(sts), LAMBDA a, b :
    a.meta.end < b.meta.end \/ (a.meta.end = b.meta.end /\ a.year < b.year))
CapitalStructureSeries(sts) ==
  LET ordered == OldestFirst(sts)
  IN [i \in 1 .. Len(ordered) |-> CapitalStructurePeriod(ordered[i])]

----------------------------------------------------------------------------
(* Cash: from the opening to the closing balance.                          *)

CashFlowSections ==
  <<"cash_from_operations", "cash_from_investing", "cash_from_financing",
    "effect_of_exchange_rate_on_cash">>
(* The level the change reconciles to: with restricted cash if the change  *)
(* has it.                                                                 *)
ChangeTagToBasis(t) ==
  IF t = <<"change_in_cash", 1>> THEN "cash_and_restricted_cash" ELSE "cash_and_equivalents"

NoStatement == [statement |-> "none", year |-> 0, period |-> "none", lines |-> <<>>, meta |-> NoMeta]
BuildCashFlowBridge(cf, closing, opening) ==
  LET change   == ValueOf(cf, "change_in_cash")
      line     == CHOOSE l \in Range(cf.lines) : l.concept = "change_in_cash"
      sections == Present(cf, CashFlowSections)
      basis    == ChangeTagToBasis(line.tag)
      end      == ValueOf(closing, basis)
      begin    == ValueOf(opening, basis)
      absolute == IsNumber(begin) /\ IsNumber(end)
      target   == IF absolute THEN begin + change ELSE change
  IN CASE ~IsNumber(change) -> Unavailable("change")
       [] IsNumber(change) /\ sections = <<>> -> Unavailable("sections")
       [] OTHER ->
            [available |-> TRUE, absolute |-> absolute, basis |-> basis,
             beginning |-> begin, ending |-> end, change |-> change,
             steps |-> <<Step("anchor", "none", IF absolute THEN begin ELSE 0)>>
                       \o [i \in 1 .. Len(sections) |->
                             Step("flow", sections[i], ValueOf(cf, sections[i]))]
                       \o Residual(change - SumOf(cf, sections))
                       \o <<Step("anchor", "none", target)>>,
             noted |-> absolute /\ ~Within(end, target, end)]

(* Free cash flow only with both its parts; conversion only of a profit.   *)
CashFlowSeriesPeriod(cf, income) ==
  LET ocf   == ValueOf(cf, "cash_from_operations")
      capex == ValueOf(cf, "capital_expenditures")
      ni    == ValueOf(income, "net_income")
  IN [year |-> cf.year, period |-> cf.period, end |-> cf.meta.end, ocf |-> ocf, capex |-> capex,
      fcf |-> IF IsNumber(ocf) /\ IsNumber(capex) THEN ocf - capex ELSE NoValue,
      net_income |-> ni,
      conversion |-> CASE ~IsNumber(ni) \/ ~IsNumber(ocf) -> <<"na">>
                       [] IsNumber(ni) /\ IsNumber(ocf) /\ ni <= 0 -> <<"nm">>
                       [] OTHER -> <<"ok", ocf, ni>>]
(* Joined on the year and period of the filings.                           *)
CashFlowSeries(cfs, incomes) ==
  LET ordered == OldestFirst(cfs)
      Income(cf) == LET S == {s \in Range(incomes) : s.year = cf.year /\ s.period = cf.period}
                    IN IF S = {} THEN NoStatement ELSE CHOOSE s \in S : TRUE
  IN [i \in 1 .. Len(ordered) |-> CashFlowSeriesPeriod(ordered[i], Income(ordered[i]))]

----------------------------------------------------------------------------
(* Several periods side by side.  Rows in the order of the newest column   *)
(* that has them; a column without the line holds NoValue there.           *)
CondensedStatement(sts) ==
  LET ordered == OldestFirst(sts)
      concepts(st) == [i \in 1 .. Len(st.lines) |-> st.lines[i].concept]
      order == FoldLeft(LAMBDA seq, st : seq \o SelectSeq(concepts(st), LAMBDA c : c \notin Range(seq)),
                        <<>>, Reverse(ordered))
  IN [columns |-> [i \in 1 .. Len(ordered) |->
                     [year |-> ordered[i].year, period |-> ordered[i].period] @@ ordered[i].meta],
      rows    |-> [i \in 1 .. Len(order) |->
                     [concept |-> order[i],
                      values  |-> [k \in 1 .. Len(ordered) |-> ValueOf(ordered[k], order[i])]]]]
=============================================================================

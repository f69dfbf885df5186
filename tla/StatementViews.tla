--------------------------- MODULE StatementViews ---------------------------
(***************************************************************************)
(* What normalize/mapping.py and normalize/statements.py make of the raw   *)
(* facts of one company.  No state: the facts are a set of records         *)
(*                                                                         *)
(*   [tag, start, end, fy, fp, filed, value, accession]                    *)
(*                                                                         *)
(* Dates are half-quarters: quarter q ends on 2q, a cover page is dated    *)
(* 2q + 1.  start is the quarter-end a duration follows, Instant for a     *)
(* level as of end.  fy and fp are those of the FILING, whichever of its   *)
(* columns the fact is in.  A tag is <<concept, i>>, the i-th candidate of *)
(* a concept, named by the first concept that claims it; any other pair is *)
(* a tag the mapping does not know.  Labels, units, taxonomies other than  *)
(* "dei or not" and 52-week calendars are left out.                        *)
(***************************************************************************)
EXTENDS Integers, Sequences, FiniteSets, FiniteSetsExt, SequencesExt, Functions, TLC

NoValue == -1000000
NoDate  == -1000
Instant == NoDate
IsNumber(v) == v # NoValue
\* Python's sorted() of distinct elements.
Sorted(S, Before(_, _)) == SortSeq(FoldSet(LAMBDA x, s : Append(s, x), <<>>, S), Before)

----------------------------------------------------------------------------
(* mapping.py: the concepts and how many tags each can be read from.       *)

Tagged(C, n) == [c \in C |-> [i \in 1 .. n |-> <<c, i>>]]

IncomeTags ==
  Tagged({"gross_profit", "operating_expenses", "research_and_development",
          "operating_income", "income_before_tax", "income_tax_expense",
          "dividends_per_share", "interest_income", "net_income_noncontrolling",
          "current_income_tax_expense", "deferred_income_tax_expense",
          "effective_tax_rate", "amortization_of_intangibles", "goodwill_impairment"}, 1)
  @@ Tagged({"sga_expense", "net_income", "eps_basic", "comprehensive_income",
             "share_based_compensation", "nonoperating_income_expense",
             "other_comprehensive_income", "asset_impairment"}, 2)
  @@ Tagged({"cost_of_revenue", "operating_lease_cost"}, 3)
  @@ Tagged({"revenue", "interest_expense"}, 4)
  @@ ("eps_diluted" :> <<<<"eps_diluted", 1>>, <<"eps_basic", 2>>>>)

AssetTags ==
  Tagged({"total_current_assets", "total_assets", "total_current_liabilities",
          "total_liabilities", "inventory", "ppe_net", "goodwill", "retained_earnings",
          "marketable_securities_current", "marketable_securities_noncurrent",
          "operating_lease_liabilities", "other_assets_current", "assets_noncurrent",
          "other_assets_noncurrent", "operating_lease_right_of_use_asset", "ppe_gross",
          "accumulated_depreciation", "cash_and_restricted_cash",
          "accounts_payable_and_accrued_liabilities", "accrued_liabilities",
          "other_liabilities_current"}, 1)
  @@ Tagged({"accounts_receivable", "long_term_debt", "stockholders_equity",
             "intangible_assets", "accounts_payable", "deferred_revenue_current",
             "prepaid_expenses", "allowance_for_doubtful_accounts"}, 2)
  @@ Tagged({"cash_and_equivalents", "debt_current"}, 3)

EquityTags ==
  Tagged({"other_liabilities_noncurrent", "liabilities_noncurrent",
          "operating_lease_liabilities_current", "operating_lease_liabilities_noncurrent",
          "finance_lease_liabilities", "common_stock_value", "shares_authorized",
          "common_stock_par_value", "preferred_stock_value",
          "preferred_stock_shares_authorized", "preferred_stock_shares_issued",
          "preferred_stock_shares_outstanding", "preferred_stock_par_value",
          "preferred_stock_liquidation_preference", "accumulated_oci",
          "noncontrolling_interest", "liabilities_and_equity", "shares_issued"}, 1)
  @@ Tagged({"deferred_revenue", "additional_paid_in_capital", "shares_outstanding"}, 2)

ShareTags ==
  Tagged({"shares_issued_options_exercised", "shares_issued_new", "options_outstanding",
          "unvested_awards"}, 1)
  @@ Tagged({"shares_repurchased_count", "buyback_authorized", "buyback_remaining",
             "shares_basic"}, 2)
  @@ ("shares_diluted" :> <<<<"shares_diluted", 1>>, <<"shares_basic", 2>>>>)

CashFlowTags ==
  Tagged({"depreciation", "share_repurchases", "acquisitions_net_of_cash",
          "proceeds_from_stock_issuance", "proceeds_from_long_term_debt",
          "change_in_accrued_liabilities", "change_in_payables_and_accrued",
          "change_in_payables"}, 1)
  @@ Tagged({"cash_from_operations", "cash_from_investing", "cash_from_financing",
             "capital_expenditures", "dividends_paid", "income_taxes_paid", "interest_paid",
             "repayments_of_debt", "effect_of_exchange_rate_on_cash", "change_in_cash",
             "change_in_prepaid_expenses", "change_in_deferred_revenue",
             "change_in_receivables", "change_in_inventories"}, 2)
  @@ Tagged({"depreciation_amortization"}, 3)

FootnoteTags ==
  Tagged({"rpo_total", "rpo_pct_next_12m", "etr_statutory_rate", "etr_state_local",
          "etr_foreign_differential", "etr_valuation_allowance_change", "etr_tax_credits",
          "etr_other", "unrecognized_tax_benefits", "valuation_allowance",
          "deferred_revenue_recognized", "allowance_provision", "allowance_writeoffs",
          "debt_maturity_y2", "debt_maturity_y3", "debt_maturity_y4", "debt_maturity_y5",
          "debt_maturity_thereafter"}, 1)
  @@ Tagged({"inventory_work_in_process", "inventory_finished_goods", "debt_maturity_y1"}, 2)
  @@ Tagged({"inventory_raw_materials"}, 4)
  @@ ("etr_effective_rate" :> <<<<"effective_tax_rate", 1>>>>)
  @@ ("deferred_revenue_balance" :> <<<<"deferred_revenue", 1>>,
        <<"deferred_revenue_current", 1>>, <<"deferred_revenue_current", 2>>>>)
  @@ ("allowance_credit_losses" :> [i \in 1 .. 2 |-> <<"allowance_for_doubtful_accounts", i>>])

LeaseTags ==
  Tagged({"lease_imputed_interest", "operating_lease_discount_rate"}, 1)
  @@ Tagged({"lease_maturity_y1", "lease_maturity_y2", "lease_maturity_y3",
             "lease_maturity_y4", "lease_maturity_y5", "lease_maturity_thereafter",
             "lease_maturity_total", "capitalized_software"}, 2)

ObligationTags ==
  Tagged({"restructuring_reserve", "restructuring_paid", "restructuring_positions",
          "severance_costs", "employees"}, 1)
  @@ Tagged({"purchase_obligation_y2", "purchase_obligation_y3", "purchase_obligation_y4",
             "purchase_obligation_y5", "restructuring_charge", "guarantee_obligations",
             "letters_of_credit"}, 2)
  @@ Tagged({"purchase_obligation_thereafter", "environmental_accrual"}, 3)
  @@ Tagged({"purchase_obligation_y1", "loss_contingency_accrual"}, 4)
  @@ Tagged({"purchase_obligation"}, 5)

Candidates ==
  IncomeTags @@ AssetTags @@ EquityTags @@ ShareTags @@ CashFlowTags @@ FootnoteTags
  @@ LeaseTags @@ ObligationTags
Concepts == DOMAIN Candidates
ConceptForTag(t) == IF t[1] \in Concepts THEN t[1] ELSE "none"

(* The only dei tag that is a candidate: the shares counted on a cover     *)
(* page.                                                                   *)
DeiTags == {<<"shares_outstanding", 2>>}
Dei(f) == f.tag \in DeiTags

(* Which concepts a statement shows, in display order.                     *)
IncomeConcepts ==
  <<"revenue", "cost_of_revenue", "gross_profit", "research_and_development", "sga_expense",
    "operating_expenses", "operating_income", "interest_expense", "interest_income",
    "nonoperating_income_expense", "income_before_tax", "income_tax_expense",
    "current_income_tax_expense", "deferred_income_tax_expense", "effective_tax_rate",
    "net_income", "net_income_noncontrolling", "comprehensive_income",
    "other_comprehensive_income", "eps_basic", "eps_diluted", "dividends_per_share",
    "shares_basic", "shares_diluted", "share_based_compensation",
    "amortization_of_intangibles", "goodwill_impairment", "asset_impairment",
    "operating_lease_cost">>
BalanceConcepts ==
  <<"cash_and_equivalents", "cash_and_restricted_cash", "marketable_securities_current",
    "accounts_receivable", "allowance_for_doubtful_accounts", "inventory", "prepaid_expenses",
    "other_assets_current", "total_current_assets", "ppe_gross", "accumulated_depreciation",
    "ppe_net", "operating_lease_right_of_use_asset", "goodwill", "intangible_assets",
    "marketable_securities_noncurrent", "other_assets_noncurrent", "assets_noncurrent",
    "total_assets", "accounts_payable", "accrued_liabilities",
    "accounts_payable_and_accrued_liabilities", "deferred_revenue_current",
    "operating_lease_liabilities_current", "other_liabilities_current",
    "total_current_liabilities", "debt_current", "deferred_revenue",
    "operating_lease_liabilities_noncurrent", "other_liabilities_noncurrent",
    "liabilities_noncurrent", "total_liabilities", "long_term_debt",
    "operating_lease_liabilities", "finance_lease_liabilities", "common_stock_value",
    "common_stock_par_value", "shares_authorized", "preferred_stock_value",
    "preferred_stock_par_value", "preferred_stock_shares_authorized",
    "preferred_stock_shares_issued", "preferred_stock_shares_outstanding",
    "preferred_stock_liquidation_preference", "additional_paid_in_capital",
    "retained_earnings", "accumulated_oci", "noncontrolling_interest",
    "stockholders_equity", "liabilities_and_equity", "shares_outstanding">>
CashFlowConcepts ==
  <<"cash_from_operations", "cash_from_investing", "cash_from_financing",
    "capital_expenditures", "depreciation_amortization", "depreciation",
    "amortization_of_intangibles", "change_in_receivables", "change_in_inventories",
    "change_in_prepaid_expenses", "change_in_payables", "change_in_accrued_liabilities",
    "change_in_payables_and_accrued", "change_in_deferred_revenue",
    "acquisitions_net_of_cash", "dividends_paid", "share_repurchases",
    "proceeds_from_stock_issuance", "proceeds_from_long_term_debt", "repayments_of_debt",
    "effect_of_exchange_rate_on_cash", "change_in_cash", "income_taxes_paid",
    "interest_paid">>
StatementConcepts ==
  [income |-> IncomeConcepts, balance |-> BalanceConcepts, cashflow |-> CashFlowConcepts]
StatementTypes == DOMAIN StatementConcepts

(* The cards: the concepts of a group, in order, and those it is named     *)
(* for.                                                                    *)
Card(concepts, primary) == [concepts |-> concepts, primary |-> primary]
FootnoteGroups ==
  [revenue_obligations |-> Card(<<"rpo_total", "rpo_pct_next_12m">>, {"rpo_total"}),
   inventory |->
     Card(<<"inventory_raw_materials", "inventory_work_in_process",
            "inventory_finished_goods", "inventory">>,
          {"inventory_raw_materials", "inventory_work_in_process", "inventory_finished_goods"}),
   debt_maturities |->
     Card(<<"debt_maturity_y1", "debt_maturity_y2", "debt_maturity_y3", "debt_maturity_y4",
            "debt_maturity_y5", "debt_maturity_thereafter">>,
          {"debt_maturity_y1", "debt_maturity_y2"}),
   tax_reconciliation |->
     Card(<<"etr_statutory_rate", "etr_state_local", "etr_foreign_differential",
            "etr_valuation_allowance_change", "etr_tax_credits", "etr_other",
            "etr_effective_rate", "valuation_allowance", "unrecognized_tax_benefits">>,
          {"etr_statutory_rate", "etr_effective_rate"}),
   deferred_revenue |->
     Card(<<"deferred_revenue_balance", "deferred_revenue_recognized">>,
          {"deferred_revenue_balance"}),
   credit_losses |->
     Card(<<"allowance_credit_losses", "allowance_provision", "allowance_writeoffs">>,
          {"allowance_credit_losses"}),
   leases |->
     Card(<<"operating_lease_liabilities", "operating_lease_right_of_use_asset",
            "operating_lease_discount_rate">>, {"operating_lease_liabilities"}),
   lease_maturities |->
     Card(<<"lease_maturity_y1", "lease_maturity_y2", "lease_maturity_y3", "lease_maturity_y4",
            "lease_maturity_y5", "lease_maturity_thereafter", "lease_maturity_total",
            "lease_imputed_interest">>, {"lease_maturity_y1", "lease_maturity_total"}),
   capitalized_rd |->
     Card(<<"capitalized_software", "research_and_development">>, {"capitalized_software"})]
CapitalGroups ==
  [share_rollforward |->
     Card(<<"shares_issued", "shares_outstanding", "shares_issued_options_exercised",
            "shares_issued_new", "shares_repurchased_count">>,
          {"shares_issued", "shares_outstanding"}),
   dilution |->
     Card(<<"options_outstanding", "unvested_awards", "shares_outstanding">>,
          {"options_outstanding", "unvested_awards"}),
   buyback |->
     Card(<<"buyback_authorized", "buyback_remaining", "share_repurchases",
            "shares_repurchased_count">>,
          {"buyback_authorized", "buyback_remaining", "share_repurchases"})]
ObligationGroups ==
  [purchase_commitments |->
     Card(<<"purchase_obligation", "purchase_obligation_y1", "purchase_obligation_y2",
            "purchase_obligation_y3", "purchase_obligation_y4", "purchase_obligation_y5",
            "purchase_obligation_thereafter">>,
          {"purchase_obligation", "purchase_obligation_y1"}),
   restructuring |->
     Card(<<"restructuring_charge", "restructuring_reserve", "restructuring_paid",
            "restructuring_positions", "severance_costs">>,
          {"restructuring_charge", "restructuring_reserve", "restructuring_paid"}),
   legal_proceedings |-> Card(<<"loss_contingency_accrual">>, {"loss_contingency_accrual"}),
   guarantees |->
     Card(<<"guarantee_obligations", "letters_of_credit", "environmental_accrual">>,
          {"guarantee_obligations", "letters_of_credit", "environmental_accrual"})]
\* Cards whose absence is explained by the market, not by the filer
Noted == {"dilution", "buyback"} \cup DOMAIN ObligationGroups

----------------------------------------------------------------------------
(* statements.py: one period of one company.                               *)

InPeriod(F, y, p) == {f \in F : f.fy = y /\ f.fp = p}
ColumnEnd(f) == f.end
\* 75-105 days for a quarter, 330-400 for a year: no YTD of a quarter matches.
SpanMatches(f, p) ==
  f.start = Instant \/ f.end - f.start = IF p = "FY" THEN 8 ELSE 2

(* Span match first, then the latest filed.                                *)
RankBelow(f, g, p) ==
  \/ ~SpanMatches(f, p) /\ SpanMatches(g, p)
  \/ SpanMatches(f, p) = SpanMatches(g, p) /\ f.filed < g.filed
Best(G, p) == CHOOSE f \in G : \A g \in G : ~RankBelow(f, g, p)

LatestEnd(G) == IF G = {} THEN NoDate ELSE Max({ColumnEnd(f) : f \in G})
(* The filing's own column: the latest date among the facts of these tags, *)
(* never a cover page's; any fact's date if there is none.                 *)
PrimaryEnd(P, tags) ==
  LET anchors == {f \in P : f.tag \in tags /\ ~Dei(f)}
  IN IF anchors # {} THEN LatestEnd(anchors) ELSE LatestEnd(P)
\* A column anchored on every fact, the cover page's too.
InCoverColumn(P, tags) ==
  LET end == LatestEnd(P) IN {f \in P : Dei(f) \/ ColumnEnd(f) = end}
(* The facts of that column; a cover page has no other.                    *)
InColumn(P, tags) ==
  LET end == PrimaryEnd(P, tags) IN {f \in P : Dei(f) \/ ColumnEnd(f) = end}

TagsOf(G) == {f.tag : f \in G}
BestByTag(G, p) == [t \in TagsOf(G) |-> Best({f \in G : f.tag = t}, p)]

TagsOfConcepts(cs) == UNION {Range(Candidates[c]) : c \in Range(cs)}
StatementTags == [s \in StatementTypes |-> TagsOfConcepts(StatementConcepts[s])]

(* The first candidate that has a value.                                   *)
Chosen(c, best) ==
  SelectSeq(Candidates[c], LAMBDA t : t \in DOMAIN best /\ IsNumber(best[t].value))
Resolved(cs, best) == SelectSeq(cs, LAMBDA c : Chosen(c, best) # <<>>)
Line(c, best) ==
  LET f == best[Head(Chosen(c, best))]
  IN [concept |-> c, value |-> f.value, tag |-> f.tag, fact |-> f]
Lines(cs, best) ==
  LET found == Resolved(cs, best) IN [i \in 1 .. Len(found) |-> Line(found[i], best)]
LineFacts(lines) == {i \in 1 .. Len(lines) : ~Dei(lines[i].fact)}

NoMeta == [start |-> NoDate, end |-> NoDate, accession |-> 0, filed |-> 0]
Meta(f) == [start |-> f.start, end |-> f.end, accession |-> f.accession, filed |-> f.filed]
(* Of the first line that is no cover-page fact, else of any fact there is.*)
StatementMeta(lines, best) ==
  CASE LineFacts(lines) # {} -> Meta(lines[Min(LineFacts(lines))].fact)
    [] LineFacts(lines) = {} /\ best # <<>> ->
         LET B == Range(best) IN Meta(CHOOSE f \in B : \A g \in B : g.filed <= f.filed)
    [] OTHER -> NoMeta

BuildStatement(F, s, y, p) ==
  LET best  == BestByTag(InColumn(InPeriod(F, y, p), StatementTags[s]), p)
      lines == Lines(StatementConcepts[s], best)
  IN [statement |-> s, year |-> y, period |-> p, lines |-> lines,
      meta |-> StatementMeta(lines, best)]
NotFound(st) == st.lines = <<>> /\ st.meta.accession = 0

(* One card.  It is anchored on its own tags, and is shown only if one of  *)
(* the concepts it is named for is there.                                  *)
BuildConceptGroup(F, groups, g, y, p) ==
  LET card  == groups[g]
      best  == BestByTag(InColumn(InPeriod(F, y, p), TagsOfConcepts(card.concepts)), p)
      lines == Lines(card.concepts, best)
      ok    == \E i \in 1 .. Len(lines) : lines[i].concept \in card.primary
      own   == LineFacts(lines)
  IN [group  |-> g,
      status |-> IF ok THEN "ok" ELSE "na",
      lines  |-> IF ok THEN lines ELSE <<>>,
      reason |-> CASE ok -> "none" [] ~ok /\ g \in Noted -> "note" [] OTHER -> "filer's choice",
      meta   |-> IF own = {} THEN NoMeta ELSE Meta(lines[Min(own)].fact)]

(* Every tag of the column, mapped or not.  The header prefers a duration  *)
(* of the right span.                                                      *)
MetaBelow(f, g, p) ==
  LET key(h) == <<h.start # Instant, SpanMatches(h, p)>>
  IN \/ ~key(f)[1] /\ key(g)[1]
     \/ key(f)[1] = key(g)[1] /\ RankBelow(f, g, p)
BuildNormalizedView(F, y, p) ==
  LET P    == InPeriod(F, y, p)
      best == BestByTag(InColumn(P, TagsOf(P)), p)
      B    == Range(best)
      own  == {f \in B : ~Dei(f)}
  IN [year |-> y, period |-> p,
      rows |-> {[tag |-> f.tag, value |-> f.value, start |-> f.start, end |-> f.end,
                 concept |-> ConceptForTag(f.tag)] : f \in {g \in B : IsNumber(g.value)}},
      meta |-> CASE own # {} -> Meta(CHOOSE f \in own : \A g \in own : ~MetaBelow(f, g, p))
                 [] own = {} /\ B # {} -> Meta(CHOOSE f \in B : \A g \in B : g.filed <= f.filed)
                 [] OTHER -> NoMeta]

(* Newest first: within a year Q3 before Q2 before Q1 before FY.           *)
PeriodRank == [FY |-> 0, Q1 |-> 1, Q2 |-> 2, Q3 |-> 3, Q4 |-> 4]
AvailablePeriods(F) ==
  Sorted({<<f.fy, f.fp>> : f \in {g \in F : g.fy # NoDate}},
               LAMBDA a, b : a[1] > b[1] \/ (a[1] = b[1] /\ PeriodRank[a[2]] > PeriodRank[b[2]]))
OfType(F, p) == SelectSeq(AvailablePeriods(F), LAMBDA a : a[2] = p)
FirstN(s, n) == SubSeq(s, 1, Min({n, Len(s)}))
=============================================================================

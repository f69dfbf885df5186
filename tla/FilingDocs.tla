----------------------------- MODULE FilingDocs -----------------------------
(***************************************************************************)
(* What is read from a company's filings one at a time: the filing index   *)
(* (built on the first view, or by ingest/filing_index_backfill.py), the   *)
(* cover page of the annual report with its trading arrangements, and the  *)
(* sections that ingest/section_backfill.py fetches, scores and compares   *)
(* with the filing before.  Filings are numbered in the order of their     *)
(* filing dates (and accessions); a section, a metric and a cover page are *)
(* there or not, of one or another schema version.                         *)
(***************************************************************************)
EXTENDS Integers, FiniteSets, FiniteSetsExt, RollingList

CONSTANTS
  Companies,     \* companies
  NDocs,         \* filings there will ever be
  CompanyOf,     \* the company of each filing
  FormOf,        \* its form
  Tagged,        \* annual reports with an extracted XBRL instance
  Arranged,      \* those whose instance discloses trading arrangements
  Prose,         \* filings whose sections can be segmented ("ok")
  Kinds,         \* endpoints asked
  Viewers,       \* requests at once
  RecentSize,    \* filings in EDGAR's rolling list of a company
  EventLimit,    \* rows of one form read at most (1000 and more)
  Lookback,      \* _SUPPLY_LOOKBACK
  Limit,         \* section_backfill --limit
  MaxVersion, MaxDocRuns, MaxDocAsks, MaxDocFaults   \* bounds

Docs == 1..NDocs

Annual == {"10-K", "10-K/A"}

Forms == {FormOf[f] : f \in Docs}

SectionForms == {"10-K", "10-Q"}

NoDoc == 0

(* A filing's own forms come once in find_prior_accession's window of 20,  *)
(* which is wider than the newest --limit filings.                         *)
ASSUME DocsAssumption ==
  /\ Companies \subseteq Nat \ {0} /\ NDocs \in Nat /\ NoDoc \notin Docs
  /\ CompanyOf \in [Docs -> Companies] /\ FormOf \in [Docs -> STRING]
  /\ Tagged \subseteq Docs /\ Arranged \subseteq Tagged
  /\ Prose \subseteq Docs
  /\ {RecentSize, EventLimit, Lookback, Limit} \subseteq Nat \ {0}
  /\ {MaxVersion, MaxDocRuns, MaxDocAsks, MaxDocFaults} \subseteq Nat

VARIABLES
  onEdgar,    \* EDGAR has the filings 1..onEdgar
  tables,     \* the tables of this database
  version,    \* the schema versions of the code that runs
  view,       \* the requests, each with its last answer
  backfill,   \* section_backfill
  walk,       \* filing_index_backfill
  builds,     \* how often a company's index was written to (0, 1, more)
  count       \* runs, requests and faults so far

docsVars == <<onEdgar, tables, version, view, backfill, walk, builds, count>>

----------------------------------------------------------------------------
(* The repositories.                                                       *)

Oldest(S) == Min(S)

\* filings.recent of /submissions/, newest first.
RecentlyFiled(c) == Newest({f \in 1..onEdgar : CompanyOf[f] = c}, RecentSize)

Indexed(c) == {f \in tables.index : CompanyOf[f] = c}

GetFilings(c, forms, k) == Newest({f \in Indexed(c) : FormOf[f] \in forms}, k)

\* Mutant: a row of an older schema is a hit.
GetCoverOfAnyVersion(c) ==
  LET rows == {f \in Docs : CompanyOf[f] = c /\ tables.cover[f] # NoDoc}
  IN IF rows = {} THEN NoDoc ELSE Max(rows)

\* The newest row of the company decides: one of an older schema is a miss.
GetCover(c) ==
  LET rows == {f \in Docs : CompanyOf[f] = c /\ tables.cover[f] # NoDoc}
  IN IF rows = {} \/ tables.cover[Max(rows)] < version.cover
     THEN NoDoc ELSE Max(rows)

Parsed(f) == f # NoDoc /\ tables.sections[f] = version.sections

\* The newest original, or the newest amendment when no original is indexed.
PreferredAnnualReport(c) ==
  LET candidates == GetFilings(c, Annual, 8)
      originals == {f \in candidates : FormOf[f] # "10-K/A"}
  IN IF candidates = {} THEN NoDoc
     ELSE Max(IF originals # {} THEN originals ELSE candidates)

\* The next older filing of the same form.
FindPrior(f) ==
  LET older == {p \in GetFilings(CompanyOf[f], {FormOf[f]}, 20) : p < f}
  IN IF older = {} THEN NoDoc ELSE Max(older)

----------------------------------------------------------------------------
(* What the endpoints answer.  A claim says: of these forms, the company   *)
(* has filed exactly what is shown, within the window that is reported.    *)

NoClaim == [of |-> {}, shows |-> {}, from |-> 0, to |-> 0]

Claim(c, forms, shows) ==
  IF Indexed(c) = {} THEN NoClaim
  ELSE [of |-> forms, shows |-> shows,
        from |-> Min(Indexed(c)), to |-> Max(Indexed(c))]

\* Mutant: the limit counts rows of every form.
AuditEventsOfNewest(c) ==
  Claim(c, {"8-K"}, {f \in Newest(Indexed(c), EventLimit) : FormOf[f] = "8-K"})

AuditEvents(c) == Claim(c, {"8-K"}, GetFilings(c, {"8-K"}, EventLimit))

\* A list cut off by its limit is said to be truncated and claims nothing.
ProposedSaleNotices(c) ==
  LET entries == GetFilings(c, {"144"}, EventLimit)
  IN IF Cardinality(entries) >= EventLimit THEN NoClaim
     ELSE Claim(c, {"144"}, entries)

FilingActivity(c) ==
  Claim(c, Forms, GetFilings(c, Forms, NDocs))

\* Only the newest Lookback rows are grouped, whatever the window.
SupplyEvents(c) ==
  LET entries == Newest(Indexed(c), Lookback)
  IN Claim(c, {"144"}, {f \in entries : FormOf[f] = "144"})

\* The filings since the prior annual report; a list of what happened.
FilingChanges(c) ==
  [NoClaim EXCEPT !.shows = GetFilings(c, {"8-K"}, EventLimit)]

\* One page of the index, newest first.
CompanyFilings(c) == [NoClaim EXCEPT !.shows = Newest(Indexed(c), Limit)]

\* EX-21 of the newest annual report, amendment or not; nothing is stored.
Subsidiaries(c) == [NoClaim EXCEPT !.shows = GetFilings(c, Annual, 1)]

\* The score of the newest filing, if it was parsed and compared.
SectionSimilarity(c) ==
  [NoClaim EXCEPT !.shows =
     {f \in GetFilings(c, SectionForms, 1) : Parsed(f) /\ tables.similar[f] # NoDoc}]

ClaimOf(q) ==
  CASE q.kind = "audit"        -> q.claim
    [] q.kind = "officers"     -> AuditEvents(q.cik)
    [] q.kind = "notices"      -> ProposedSaleNotices(q.cik)
    [] q.kind = "activity"     -> FilingActivity(q.cik)
    [] q.kind = "supply"       -> SupplyEvents(q.cik)
    [] q.kind = "changes"      -> FilingChanges(q.cik)
    [] q.kind = "filings"      -> CompanyFilings(q.cik)
    [] q.kind = "subsidiaries" -> Subsidiaries(q.cik)
    [] q.kind = "similarity"   -> SectionSimilarity(q.cik)
    [] OTHER                   -> NoClaim

\* Endpoints that build the index first, and those that read the cover page.
Ensures == {"officers", "notices", "activity", "changes", "filings"}

Covers == {"audit", "arrangements", "changes"}

----------------------------------------------------------------------------
NoView == [stage |-> "idle", kind |-> "none", cik |-> NoDoc, filing |-> NoDoc,
         cover |-> NoDoc, left |-> {}, claim |-> NoClaim, plans |-> {}]

NoBackfill == [stage |-> "idle", ciks |-> {}, left |-> {}, prior |-> NoDoc,
          refresh |-> FALSE, done |-> {}]

NoWalk == [ciks |-> {}, cik |-> NoDoc, left |-> {}]

DocsInit ==
  /\ onEdgar = 0
  /\ tables = [index |-> {}, cover |-> [f \in Docs |-> NoDoc], plans |-> {},
              sections |-> [f \in Docs |-> NoDoc], metrics |-> {},
              similar |-> [f \in Docs |-> NoDoc]]
  /\ version = [cover |-> 1, sections |-> 1]
  /\ view = [r \in Viewers |-> NoView]
  /\ backfill = NoBackfill
  /\ walk = NoWalk
  /\ builds = [c \in Companies |-> 0]
  /\ count = [runs |-> 0, asks |-> 0, faults |-> 0]

Files ==
  /\ onEdgar < NDocs
  /\ onEdgar' = onEdgar + 1
  /\ UNCHANGED <<tables, version, view, backfill, walk, builds, count>>

----------------------------------------------------------------------------
(* Requests.                                                               *)

\* _cover_for_cik up to its first await, or past it.
CoverLook(q) ==
  LET cached == GetCover(q.cik)
      annual == PreferredAnnualReport(q.cik)
  IN IF q.kind \notin Covers THEN [q EXCEPT !.stage = "reply"]
     ELSE IF cached # NoDoc THEN [q EXCEPT !.stage = "reply", !.cover = cached]
     ELSE IF annual = NoDoc THEN [q EXCEPT !.stage = "reply"]
     ELSE [q EXCEPT !.stage = "instance", !.filing = annual]

View(r, k, c) ==
  /\ view[r].stage = "idle"
  /\ count.asks < MaxDocAsks
  /\ LET q == [NoView EXCEPT !.kind = k, !.cik = c,
                 !.claim = IF k = "audit" THEN AuditEvents(c) ELSE NoClaim]
     IN view' = [view EXCEPT ![r] =
          IF k \in Ensures /\ Indexed(c) = {}
          THEN [q EXCEPT !.stage = "index"] ELSE CoverLook(q)]
  /\ count' = [count EXCEPT !.asks = @ + 1]
  /\ UNCHANGED <<onEdgar, tables, version, backfill, walk, builds>>

Written(c) == builds' = [builds EXCEPT ![c] = IF @ = 2 THEN 2 ELSE @ + 1]

FetchIndex(r) ==
  /\ view[r].stage = "index"
  /\ IF RecentlyFiled(view[r].cik) = {}
     THEN view' = [view EXCEPT ![r] = CoverLook(@)] /\ UNCHANGED builds
     ELSE /\ view' = [view EXCEPT ![r].stage = "rows",
                                  ![r].left = RecentlyFiled(view[r].cik)]
          /\ Written(view[r].cik)
  /\ UNCHANGED <<onEdgar, tables, version, backfill, walk, count>>

\* executemany in autocommit: one commit a row, newest first.
WriteRow(r) ==
  /\ view[r].stage = "rows" /\ view[r].left # {}
  /\ tables' = [tables EXCEPT !.index = @ \cup {Max(view[r].left)}]
  /\ view' = [view EXCEPT ![r].left = @ \ {Max(@)}]
  /\ UNCHANGED <<onEdgar, version, backfill, walk, builds, count>>

RowsWritten(r) ==
  /\ view[r].stage = "rows" /\ view[r].left = {}
  /\ view' = [view EXCEPT ![r] = CoverLook(@)]
  /\ UNCHANGED <<onEdgar, tables, version, backfill, walk, builds, count>>

\* A failed fetch is not fatal: the answer goes on without the index.
IndexFails(r) ==
  /\ view[r].stage = "index"
  /\ count.faults < MaxDocFaults
  /\ view' = [view EXCEPT ![r] = CoverLook(@)]
  /\ count' = [count EXCEPT !.faults = @ + 1]
  /\ UNCHANGED <<onEdgar, tables, version, backfill, walk, builds>>

\* The instance is fetched and parsed, and its cover facts committed.
FetchInstance(r) ==
  LET f == view[r].filing IN
  /\ view[r].stage = "instance"
  /\ IF f \in Tagged
     THEN /\ tables' = [tables EXCEPT !.cover[f] = version.cover]
          /\ view' = [view EXCEPT ![r].stage = "plans", ![r].cover = f]
     ELSE /\ view' = [view EXCEPT ![r].stage = "reply"]
          /\ UNCHANGED tables
  /\ UNCHANGED <<onEdgar, version, backfill, walk, builds, count>>

\* Its trading arrangements, in a transaction of their own.
ReplacePlans(r) ==
  LET f == view[r].filing IN
  /\ view[r].stage = "plans"
  /\ tables' = [tables EXCEPT !.plans = (@ \ {f}) \cup (Arranged \cap {f})]
  /\ view' = [view EXCEPT ![r].stage = "reply"]
  /\ UNCHANGED <<onEdgar, version, backfill, walk, builds, count>>

Reply(r) ==
  /\ view[r].stage = "reply"
  /\ view' = [view EXCEPT ![r].stage = "idle", ![r].claim = ClaimOf(view[r]),
                        ![r].filing = NoDoc,
                        ![r].plans = tables.plans \cap {view[r].cover}]
  /\ UNCHANGED <<onEdgar, tables, version, backfill, walk, builds, count>>

\* A fetch, a parse or a commit raises: 500, and what was stored stays.
ViewFails(r) ==
  /\ view[r].stage \in {"instance", "plans"}
  /\ count.faults < MaxDocFaults
  /\ view' = [view EXCEPT ![r] = NoView]
  /\ count' = [count EXCEPT !.faults = @ + 1]
  /\ UNCHANGED <<onEdgar, tables, version, backfill, walk, builds>>

ApiKilled ==
  /\ \E r \in Viewers : view[r].stage # "idle"
  /\ count.faults < MaxDocFaults
  /\ view' = [r \in Viewers |-> NoView]
  /\ count' = [count EXCEPT !.faults = @ + 1]
  /\ UNCHANGED <<onEdgar, tables, version, backfill, walk, builds>>

\* A release that reads more from a cover page or from a document.
Deploy ==
  /\ backfill.stage = "idle"
  /\ \E field \in {"cover", "sections"} :
       /\ version[field] < MaxVersion
       /\ version' = [version EXCEPT ![field] = @ + 1]
  /\ view' = [r \in Viewers |-> NoView]
  /\ backfill' = NoBackfill
  /\ UNCHANGED <<onEdgar, tables, walk, builds, count>>

----------------------------------------------------------------------------
(* ingest/section_backfill.py                                              *)

BackfillStart ==
  /\ backfill.stage = "idle"
  /\ count.runs < MaxDocRuns
  /\ \E refresh \in BOOLEAN :
       backfill' = [NoBackfill EXCEPT !.stage = "company", !.ciks = Companies,
                                      !.refresh = refresh]
  /\ count' = [count EXCEPT !.runs = @ + 1]
  /\ UNCHANGED <<onEdgar, tables, version, view, walk, builds>>

BackfillCompany ==
  /\ backfill.stage = "company" /\ backfill.ciks # {}
  /\ LET c == Min(backfill.ciks)
     IN backfill' = [backfill EXCEPT !.stage = "filing", !.ciks = @ \ {c},
                           !.left = GetFilings(c, SectionForms, Limit)]
  /\ UNCHANGED <<onEdgar, tables, version, view, walk, builds, count>>

\* Mutant: in the order of the query, newest first.
NextFilingOfQuery == Max(backfill.left)

\* reversed(get_filings(...)): a filing comes after the one before it.
NextFiling == Oldest(backfill.left)

Tallied(j) == [j EXCEPT !.stage = "filing", !.left = @ \ {NextFiling}, !.prior = NoDoc]

BackfillSkip ==
  /\ backfill.stage = "filing" /\ backfill.left # {}
  /\ ~backfill.refresh /\ Parsed(NextFiling)
  /\ backfill' = Tallied(backfill)
  /\ UNCHANGED <<onEdgar, tables, version, view, walk, builds, count>>

\* Fetched, segmented, and the sections committed.
BackfillSections ==
  /\ backfill.stage = "filing" /\ backfill.left # {}
  /\ backfill.refresh \/ ~Parsed(NextFiling)
  /\ tables' = [tables EXCEPT !.sections[NextFiling] = version.sections]
  /\ backfill' = [backfill EXCEPT !.stage = "score"]
  /\ UNCHANGED <<onEdgar, version, view, walk, builds, count>>

\* The filing before is looked up, and the metrics are committed.
BackfillScore ==
  /\ backfill.stage = "score"
  /\ LET p == FindPrior(NextFiling)
     IN backfill' = [backfill EXCEPT !.stage = "compare",
                           !.prior = IF Parsed(p) THEN p ELSE NoDoc]
  /\ tables' = [tables EXCEPT !.metrics = @ \cup (Prose \cap {NextFiling})]
  /\ UNCHANGED <<onEdgar, version, view, walk, builds, count>>

BackfillCompare ==
  /\ backfill.stage = "compare"
  /\ tables' = IF {NextFiling, backfill.prior} \subseteq Prose
              THEN [tables EXCEPT !.similar[NextFiling] = backfill.prior] ELSE tables
  /\ backfill' = [Tallied(backfill) EXCEPT !.done = @ \cup {NextFiling}]
  /\ UNCHANGED <<onEdgar, version, view, walk, builds, count>>

BackfillFails ==
  /\ backfill.stage = "filing" /\ backfill.left # {}
  /\ backfill.refresh \/ ~Parsed(NextFiling)
  /\ count.faults < MaxDocFaults
  /\ backfill' = Tallied(backfill)
  /\ count' = [count EXCEPT !.faults = @ + 1]
  /\ UNCHANGED <<onEdgar, tables, version, view, walk, builds>>

BackfillFilingsDone ==
  /\ backfill.stage = "filing" /\ backfill.left = {}
  /\ backfill' = [backfill EXCEPT
                    !.stage = IF backfill.ciks = {} THEN "idle" ELSE "company"]
  /\ UNCHANGED <<onEdgar, tables, version, view, walk, builds, count>>

\* Killed, or a commit raises: the run ends there.
BackfillBreaks ==
  /\ backfill.stage # "idle"
  /\ count.faults < MaxDocFaults
  /\ backfill' = NoBackfill
  /\ count' = [count EXCEPT !.faults = @ + 1]
  /\ UNCHANGED <<onEdgar, tables, version, view, walk, builds>>

Sections ==
  \/ BackfillStart \/ BackfillCompany \/ BackfillSkip \/ BackfillSections
  \/ BackfillScore \/ BackfillCompare \/ BackfillFails \/ BackfillFilingsDone
  \/ BackfillBreaks

----------------------------------------------------------------------------
(* ingest/filing_index_backfill.py                                         *)

WalkStart ==
  /\ walk = NoWalk
  /\ count.runs < MaxDocRuns
  /\ walk' = [NoWalk EXCEPT !.ciks = Companies]
  /\ count' = [count EXCEPT !.runs = @ + 1]
  /\ UNCHANGED <<onEdgar, tables, version, view, backfill, builds>>

WalkFetch ==
  /\ walk.ciks # {} /\ walk.left = {}
  /\ LET c == Min(walk.ciks)
     IN /\ walk' = [ciks |-> walk.ciks \ {c}, cik |-> c, left |-> RecentlyFiled(c)]
        /\ Written(c)
  /\ UNCHANGED <<onEdgar, tables, version, view, backfill, count>>

WalkRow ==
  /\ walk.left # {}
  /\ tables' = [tables EXCEPT !.index = @ \cup {Max(walk.left)}]
  /\ walk' = [walk EXCEPT !.left = @ \ {Max(@)}]
  /\ UNCHANGED <<onEdgar, version, view, backfill, builds, count>>

\* One company that cannot be fetched does not end the run.
WalkFails ==
  /\ walk.ciks # {} /\ walk.left = {}
  /\ count.faults < MaxDocFaults
  /\ walk' = [walk EXCEPT !.ciks = @ \ {Min(@)}]
  /\ count' = [count EXCEPT !.faults = @ + 1]
  /\ UNCHANGED <<onEdgar, tables, version, view, backfill, builds>>

WalkEnds ==
  /\ walk # NoWalk
  /\ \/ walk.ciks = {} /\ walk.left = {} /\ UNCHANGED count
     \/ count.faults < MaxDocFaults /\ count' = [count EXCEPT !.faults = @ + 1]
  /\ walk' = NoWalk
  /\ UNCHANGED <<onEdgar, tables, version, view, backfill, builds>>

Walk == WalkStart \/ WalkFetch \/ WalkRow \/ WalkFails \/ WalkEnds

Request ==
  \E r \in Viewers :
    \/ \E k \in Kinds, c \in Companies : View(r, k, c)
    \/ FetchIndex(r) \/ WriteRow(r) \/ RowsWritten(r) \/ IndexFails(r)
    \/ FetchInstance(r) \/ ReplacePlans(r) \/ Reply(r) \/ ViewFails(r)

DocsNext == Files \/ Request \/ ApiKilled \/ Deploy \/ Sections \/ Walk

DocsSpec == DocsInit /\ [][DocsNext]_docsVars

----------------------------------------------------------------------------
Claims == [of : SUBSET (Forms \cup {"8-K", "144"}), shows : SUBSET Docs,
           from : 0..NDocs, to : 0..NDocs]

TableRecords == [index : SUBSET Docs, cover : [Docs -> Nat], plans : SUBSET Docs,
                 sections : [Docs -> Nat], metrics : SUBSET Docs,
                 similar : [Docs -> {NoDoc} \cup Docs]]

ViewRecords ==
  [stage : {"idle", "index", "rows", "instance", "plans", "reply"},
   kind : {"none"} \cup Kinds, cik : {NoDoc} \cup Companies,
   filing : {NoDoc} \cup Docs, cover : {NoDoc} \cup Docs, left : SUBSET Docs,
   claim : Claims, plans : SUBSET Docs]

BackfillRecords ==
  [stage : {"idle", "company", "filing", "score", "compare"}, ciks : SUBSET Companies,
   left : SUBSET Docs, prior : {NoDoc} \cup Docs, refresh : BOOLEAN, done : SUBSET Docs]

(* The tables refer to filings, and rows name versions of their schema;    *)
(* requests and runs keep their shapes.                                    *)
DocsTypeOK ==
  /\ onEdgar \in 0..NDocs
  /\ tables \in TableRecords
  /\ version \in [cover : Nat \ {0}, sections : Nat \ {0}]
  /\ view \in [Viewers -> ViewRecords]
  /\ backfill \in BackfillRecords
  /\ walk \in [ciks : SUBSET Companies, cik : {NoDoc} \cup Companies, left : SUBSET Docs]
  /\ builds \in [Companies -> 0..2]
  /\ count \in [runs : Nat, asks : Nat, faults : Nat]

Answers == {q \in {view[r] : r \in Viewers} : q.stage = "idle" /\ q.kind # "none"}

Missing(q) ==
  {f \in 1..onEdgar : /\ CompanyOf[f] = q.cik /\ FormOf[f] \in q.claim.of
                    /\ q.claim.from <= f /\ f <= q.claim.to
                    /\ f \notin q.claim.shows}

(* "No event on file" over a reported window means that EDGAR has none in  *)
(* it, for a company whose index was written once: by the first view or    *)
(* by the backfill, even if it was killed on the way (filing_index.py:     *)
(* 15-18).  The supply summary, which reads fewer rows, is left out.       *)
AbsenceIsHonest ==
  \A q \in Answers :
    q.kind # "supply" /\ builds[q.cik] < 2 => Missing(q) = {}

(* An answer about a cover page is of the fields that the running code     *)
(* reads: a row stored by an older release is read again, whatever other   *)
(* rows the company has (sqlite_filing_cover_repository.py:200-202).       *)
CoverIsCurrent ==
  \A q \in Answers : q.cover # NoDoc => tables.cover[q.cover] = version.cover

(* A run that came to its end has compared each filing it parsed with the  *)
(* filing of that form before it, if that one is parsed: "Stage 4 needs a  *)
(* filing's prior already ingested" (section_backfill.py:151-155).         *)
ComparedWhenBothParsed ==
  \A f \in backfill.done :
    LET p == FindPrior(f)
    IN backfill.stage = "idle" /\ Parsed(p) /\ {f, p} \subseteq Prose
         => tables.similar[f] = p
=============================================================================

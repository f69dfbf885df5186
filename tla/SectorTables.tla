---------------------------- MODULE SectorTables ----------------------------
(***************************************************************************)
(* The precomputed tables of sectors and peers, and the endpoints that     *)
(* read them.  The jobs of analytical/ are processes beside the API that   *)
(* read the companies' SIC codes and materialized values, and then replace *)
(* a table wholesale (clear, then insert), upsert its rows by company, or  *)
(* add a dated snapshot and prune the oldest.  Each query and each write   *)
(* is a step; a row of a group is the set of companies it was computed     *)
(* from, with the run that wrote it.                                       *)
(***************************************************************************)
EXTENDS Naturals, FiniteSets, FiniteSetsExt

CONSTANTS
  Ciks, Groups,  \* companies; SIC groups (the first digits of a code)
  NoGroup,       \* no usable SIC code
  MinSize,       \* secfin_peer_min_size
  Keep,          \* --keep-snapshots
  Asked,         \* endpoints asked
  Jobs,          \* jobs run
  LastDay, MaxMoves, MaxRuns, MaxAsks, MaxFaults  \* bounds

ASSUME SectorAssumption ==
  /\ Ciks \subseteq Nat /\ IsFiniteSet(Ciks) /\ NoGroup \notin Groups
  /\ {MinSize, Keep} \subseteq Nat \ {0}
  /\ {LastDay, MaxMoves, MaxRuns, MaxAsks, MaxFaults} \subseteq Nat

VARIABLES
  sic,    \* EDGAR's SIC group of each company
  db,     \* the tables
  job,    \* the job that runs, of all jobs one at a time
  req,    \* a request and its answer
  day,    \* the date
  count   \* moves, runs, requests and faults so far

vars == <<sic, db, job, req, day, count>>

----------------------------------------------------------------------------
(* Rows.                                                                   *)

Members(picked, g) == {p.cik : p \in {q \in picked : q.group = g}}

\* Tables that a job replaces wholesale; "peers" stands for the ranks and
\* distributions, whose chain is PeerAnalytics.
Replaced == {"dupont", "lifecycle", "flow", "mix", "peers", "scores"}

\* Tables with a row for each company, which are only upserted.
ByCompany == {"stats", "governance", "tone"}

\* GROUP BY peer_group HAVING count(*) >= min_size; the flow has no minimum.
Rows(k, picked) ==
  LET least == IF k = "flow" THEN 1 ELSE MinSize
  IN {[group |-> g, of |-> Members(picked, g), run |-> count.runs] :
        g \in {h \in Groups : Cardinality(Members(picked, h)) >= least}}

\* JOIN company_profiles ... WHERE length(sic) >= ?
Classified(S) ==
  {[cik |-> c, group |-> db.profile[c]] : c \in {d \in S : db.profile[d] # NoGroup}}

LatestAsOf == Max({0} \cup {r.day : r \in db.ratios})

\* Mutant: the list is ascending.
PrunedAscending(rows) ==
  LET days == {r.day : r \in rows}
  IN {r \in rows : Cardinality({d \in days : d < r.day}) < Keep}

Pruned(rows) ==
  LET days == {r.day : r \in rows}
  IN {r \in rows : Cardinality({d \in days : d > r.day}) < Keep}

----------------------------------------------------------------------------
(* What one query of an endpoint shows.                                    *)

\* /sectors, /sectors/{g}
Sectors == db.dupont
SectorSeries(g) == {r \in db.dupont : r.group = g}

\* /sectors/spreads, /sectors/{g}/spreads
SectorSpreads == db.peers
SpreadProfile(g) == {r \in db.peers : r.group = g}

\* /sectors/{g}/lifecycle, /sectors/{g}/geographic-mix, /sectors/{g}/insider-flow
SectorLifecycle(g) == {r \in db.lifecycle : r.group = g}
GeographicMix(g) == {r \in db.mix : r.group = g}
InsiderFlow(g) == {r \in db.flow : r.group = g}

\* /sectors/{g}/companies/{metric}: a join at the moment of the request.
CompanyValues(g) == {r \in Rows("companies", Classified(db.legs)) : r.group = g}

\* /sectors/{g}/disclosure-mix, /sectors/{g}/tone-shift: rows by company.
DisclosureMix(g) == {r \in db.governance : r.group = g}
ToneShift(g) == {r \in db.tone : r.group = g}

\* /companies/{c}/disclosure-stats, /companies/{c}/peers/insider-net-ratio
DisclosureStats(g) == {r \in db.stats : r.group = g}
InsiderPeerRatio(g, d) == {r \in db.ratios : r.group = g /\ r.day = d}

\* /companies/{c}/peers, /companies/{c}/theme-percentiles: the ranks of c.
PeerRanks(c) == {r \in db.peers : c \in r.of}

\* /companies/{c}/peers/{metric}/distribution: the row of the profile's group.
PeerDistribution(c) == {r \in db.peers : r.group = db.profile[c]}

\* Mutant: the group as the profile has it now.
GroupOfProfile(q) ==
  IF q.kind = "percentiles" THEN db.profile[q.cik] ELSE q.group

\* The group an answer names.
GroupOf(q) ==
  LET named == {r.group : r \in PeerRanks(q.cik)}
  IN CASE q.kind = "percentiles" /\ named = {} -> NoGroup
       [] q.kind = "percentiles" /\ named # {} -> CHOOSE g \in named : TRUE
       [] OTHER -> q.group

Shown(q) ==
  CASE q.kind = "sectors"      -> Sectors
    [] q.kind = "spreads"      -> SectorSpreads
    [] q.kind = "themes"       -> db.scores
    [] q.kind = "series"       -> SectorSeries(q.group)
    [] q.kind = "lifecycle"    -> SectorLifecycle(q.group)
    [] q.kind = "profile"      -> SpreadProfile(q.group)
    [] q.kind = "mix"          -> GeographicMix(q.group)
    [] q.kind = "flow"         -> InsiderFlow(q.group)
    [] q.kind = "companies"    -> CompanyValues(q.group)
    [] q.kind = "disclosure"   -> DisclosureMix(q.group)
    [] q.kind = "tone"         -> ToneShift(q.group)
    [] q.kind = "percentiles"  -> PeerRanks(q.cik)
    [] q.kind = "distribution" -> PeerDistribution(q.cik)
    [] q.kind = "stats"        -> DisclosureStats(q.group)
    [] q.kind = "ratio"        -> InsiderPeerRatio(q.group, q.asOf)
    [] OTHER                   -> {}

----------------------------------------------------------------------------
NoJob == [kind |-> "none", stage |-> "idle", left |-> {}, picked |-> {}, asOf |-> 0]

Idle == [kind |-> "none", stage |-> "idle", cik |-> 0, group |-> NoGroup,
         asOf |-> 0, rows |-> {}, parts |-> {}]

(* After a first backfill of some companies, before any aggregate.         *)
Init ==
  /\ sic \in [Ciks -> Groups]
  /\ \E known \in (SUBSET Ciks) \ {{}} :
       db = [profile |-> [c \in Ciks |-> IF c \in known THEN sic[c] ELSE NoGroup],
             facts |-> known, legs |-> known, dupont |-> {}, lifecycle |-> {},
             flow |-> {}, mix |-> {}, peers |-> {}, scores |-> {}, parts |-> {},
             stats |-> {}, governance |-> {}, tone |-> {}, ratios |-> {}]
  /\ job = NoJob
  /\ req = Idle
  /\ day = 1
  /\ count = [moves |-> 0, runs |-> 0, asks |-> 0, faults |-> 0]

\* The SEC gives a company another code.
Reclassify ==
  /\ count.moves < MaxMoves
  /\ \E c \in Ciks, g \in Groups : sic[c] # g /\ sic' = [sic EXCEPT ![c] = g]
  /\ count' = [count EXCEPT !.moves = @ + 1]
  /\ UNCHANGED <<db, job, req, day>>

\* A company's facts, transactions and filings are ingested.
Ingest ==
  /\ \E c \in Ciks \ db.facts : db' = [db EXCEPT !.facts = @ \cup {c}]
  /\ UNCHANGED <<sic, job, req, day, count>>

NextDay ==
  /\ day < LastDay
  /\ day' = day + 1
  /\ UNCHANGED <<sic, db, job, req, count>>

----------------------------------------------------------------------------
(* Jobs.                                                                   *)

FirstStage(k) ==
  CASE k = "profiles"   -> "fetch"
    [] k = "components" -> "clear"
    [] OTHER            -> "read"

\* A run of the ratios is for today, or back-dated by --as-of.
JobStart(k) ==
  /\ job = NoJob
  /\ count.runs < MaxRuns
  /\ \E d \in IF k = "ratios" THEN 1..day ELSE {0} :
       job' = [NoJob EXCEPT !.kind = k, !.stage = FirstStage(k), !.asOf = d,
                            !.left = IF k = "profiles" THEN Ciks ELSE {}]
  /\ count' = [count EXCEPT !.runs = @ + 1]
  /\ UNCHANGED <<sic, db, req, day>>

\* sic_backfill: one company after the other, a failure costs that one.
FetchProfile ==
  /\ job.stage = "fetch" /\ job.left # {}
  /\ \/ db' = [db EXCEPT !.profile[Min(job.left)] = sic[Min(job.left)]]
        /\ UNCHANGED count
     \/ count.faults < MaxFaults /\ count' = [count EXCEPT !.faults = @ + 1]
        /\ UNCHANGED db
  /\ job' = [job EXCEPT !.left = @ \ {Min(@)}]
  /\ UNCHANGED <<sic, req, day>>

\* dupont_backfill, lifecycle_backfill: cleared first, then company by company.
ClearComponents ==
  /\ job.kind = "components" /\ job.stage = "clear"
  /\ db' = [db EXCEPT !.legs = {}]
  /\ job' = [job EXCEPT !.stage = "insert", !.left = db.facts]
  /\ UNCHANGED <<sic, req, day, count>>

InsertComponents ==
  /\ job.stage = "insert" /\ job.left # {}
  /\ db' = [db EXCEPT !.legs = @ \cup {Min(job.left)}]
  /\ job' = [job EXCEPT !.left = @ \ {Min(@)}]
  /\ UNCHANGED <<sic, req, day, count>>

WalkEnds ==
  /\ job.stage \in {"fetch", "insert"} /\ job.left = {}
  /\ job' = NoJob
  /\ UNCHANGED <<sic, db, req, day, count>>

(* What a job counts: companies with all the legs of a ratio, with filings *)
(* and transactions, or, for the scores, the medians of the groups.        *)
SectorDupont == Classified(db.legs)

SectorLifecycleLegs == Classified(db.legs)

PeerMetrics == Classified(db.legs)

InsiderTrades == Classified(db.facts)

InsiderRatios == Classified(db.facts)

FilingBehaviour == Classified(db.facts)

Governance == Classified(db.facts)

ToneShiftAlerts == Classified(db.facts)

SectorMedians == UNION {{[cik |-> c, group |-> r.group] : c \in r.of} : r \in db.peers}

Picked(k) ==
  CASE k = "dupont"     -> SectorDupont
    [] k = "lifecycle"  -> SectorLifecycleLegs
    [] k = "peers"      -> PeerMetrics
    [] k = "flow"       -> InsiderTrades
    [] k = "ratios"     -> InsiderRatios
    [] k = "stats"      -> FilingBehaviour
    [] k = "governance" -> Governance
    [] k = "tone"       -> ToneShiftAlerts
    [] k = "scores"     -> SectorMedians

\* One query over the attached database.
Aggregate ==
  /\ job.stage = "read" /\ job.kind # "mix"
  /\ job' = [job EXCEPT !.picked = Picked(job.kind),
                        !.stage = IF job.kind \in Replaced THEN "clear" ELSE "write"]
  /\ UNCHANGED <<sic, db, req, day, count>>

\* sector_geographic_mix: the rows in one query, then profile after profile.
ReadMix ==
  /\ job.kind = "mix" /\ job.stage = "read"
  /\ job' = [job EXCEPT !.stage = "profiles", !.left = db.facts]
  /\ UNCHANGED <<sic, db, req, day, count>>

LookUpProfile ==
  /\ job.stage = "profiles"
  /\ job' = IF job.left = {} THEN [job EXCEPT !.stage = "clear"]
            ELSE [job EXCEPT !.left = @ \ {Min(@)},
                             !.picked = @ \cup Classified({Min(job.left)})]
  /\ UNCHANGED <<sic, db, req, day, count>>

\* Mutant: what the run computes is laid over what is there.
KeepTable(k) == db' = db

ClearTable(k) == db' = [db EXCEPT ![k] = {}]

Clear ==
  /\ job.kind \in Replaced /\ job.stage = "clear"
  /\ ClearTable(job.kind)
  /\ job' = [job EXCEPT !.stage = IF job.kind = "scores" THEN "parts" ELSE "write"]
  /\ UNCHANGED <<sic, req, day, count>>

\* sector_theme_components, the second DELETE of the scores' clear().
ClearParts ==
  /\ job.stage = "parts"
  /\ db' = [db EXCEPT !.parts = {}]
  /\ job' = [job EXCEPT !.stage = "write"]
  /\ UNCHANGED <<sic, req, day, count>>

\* INSERT ... ON CONFLICT DO UPDATE, by the key of each table.
Upserted(old, new) ==
  new \cup {r \in old : r.group \notin {s.group : s \in new}}

CompaniesUpserted(old) ==
  LET new == {[cik |-> p.cik, group |-> p.group, run |-> count.runs] : p \in job.picked}
  IN new \cup {r \in old : r.cik \notin {s.cik : s \in new}}

RatiosUpserted ==
  LET new == {[cik |-> p.cik, group |-> p.group, day |-> job.asOf] : p \in job.picked}
  IN new \cup {r \in db.ratios : r.day # job.asOf \/ r.cik \notin {s.cik : s \in new}}

WriteTable ==
  /\ job.kind \in Replaced /\ job.stage = "write"
  /\ LET new == Rows(job.kind, job.picked) IN
       db' = IF job.kind = "scores"
             THEN [db EXCEPT !.scores = Upserted(@, new), !.parts = Upserted(@, new)]
             ELSE [db EXCEPT ![job.kind] = Upserted(@, new)]
  /\ job' = NoJob
  /\ UNCHANGED <<sic, req, day, count>>

WriteCompanies ==
  /\ job.kind \in ByCompany /\ job.stage = "write"
  /\ db' = [db EXCEPT ![job.kind] = CompaniesUpserted(@)]
  /\ job' = NoJob
  /\ UNCHANGED <<sic, req, day, count>>

WriteRatios ==
  /\ job.kind = "ratios" /\ job.stage = "write"
  /\ db' = [db EXCEPT !.ratios = RatiosUpserted]
  /\ job' = [job EXCEPT !.stage = "prune"]
  /\ UNCHANGED <<sic, req, day, count>>

Prune ==
  /\ job.stage = "prune"
  /\ db' = [db EXCEPT !.ratios = Pruned(@)]
  /\ job' = NoJob
  /\ UNCHANGED <<sic, req, day, count>>

JobBreaks ==
  /\ job # NoJob
  /\ count.faults < MaxFaults
  /\ job' = NoJob
  /\ count' = [count EXCEPT !.faults = @ + 1]
  /\ UNCHANGED <<sic, db, req, day>>

Job ==
  \/ \E k \in Jobs : JobStart(k)
  \/ FetchProfile \/ ClearComponents \/ InsertComponents \/ WalkEnds
  \/ Aggregate \/ ReadMix \/ LookUpProfile \/ Clear \/ ClearParts
  \/ WriteTable \/ WriteCompanies \/ WriteRatios \/ Prune \/ JobBreaks

----------------------------------------------------------------------------
(* Requests, a query at a time.                                            *)

OfCompany == {"percentiles", "distribution", "stats", "ratio"}

OfGroup == {"series", "lifecycle", "profile", "mix", "flow", "companies",
            "disclosure", "tone"}

\* Queries that come before the rows are read.
FirstQuery(k) ==
  CASE k \in {"sectors", "spreads", "themes"} -> "year"
    [] k \in {"stats", "ratio"}               -> "profile"
    [] OTHER                                  -> "rows"

Ask(k) ==
  /\ req.stage = "idle"
  /\ count.asks < MaxAsks
  /\ \E c \in IF k \in OfCompany THEN Ciks ELSE {0},
        g \in IF k \in OfGroup THEN Groups ELSE {NoGroup} :
       req' = [Idle EXCEPT !.kind = k, !.cik = c, !.group = g, !.stage = FirstQuery(k)]
  /\ count' = [count EXCEPT !.asks = @ + 1]
  /\ UNCHANGED <<sic, db, job, day>>

\* latest_fy_year: None while the table is empty.
SeeYear ==
  /\ req.stage = "year"
  /\ req' = [req EXCEPT !.stage = IF Shown(req) = {} THEN "idle" ELSE "rows"]
  /\ UNCHANGED <<sic, db, job, day, count>>

\* The company's profile, and its own row or the date of the snapshot.
SeeProfile ==
  LET group == db.profile[req.cik] IN
  /\ req.stage = "profile"
  /\ req' = IF group = NoGroup THEN [req EXCEPT !.stage = "idle", !.group = NoGroup]
            ELSE [req EXCEPT !.stage = "latest", !.group = group]
  /\ UNCHANGED <<sic, db, job, day, count>>

SeeLatest ==
  LET none == IF req.kind = "stats" THEN req.cik \notin {r.cik : r \in db.stats}
              ELSE LatestAsOf = 0
  IN
  /\ req.stage = "latest"
  /\ req' = [req EXCEPT !.stage = IF none THEN "idle" ELSE "rows",
                        !.asOf = IF req.kind = "ratio" THEN LatestAsOf ELSE 0]
  /\ UNCHANGED <<sic, db, job, day, count>>

SeeRows ==
  /\ req.stage = "rows"
  /\ req' = [req EXCEPT !.rows = Shown(req), !.group = GroupOf(req),
                        !.stage = IF req.kind = "themes" THEN "parts" ELSE "idle"]
  /\ UNCHANGED <<sic, db, job, day, count>>

\* components_for_period, after the scores.
SeeParts ==
  /\ req.stage = "parts"
  /\ req' = [req EXCEPT !.parts = db.parts, !.stage = "idle"]
  /\ UNCHANGED <<sic, db, job, day, count>>

Request == (\E k \in Asked : Ask(k)) \/ SeeYear \/ SeeProfile \/ SeeLatest \/ SeeRows \/ SeeParts

Next == Reclassify \/ Ingest \/ NextDay \/ Job \/ Request

Spec == Init /\ [][Next]_vars

----------------------------------------------------------------------------
\* Endpoints whose rows are compared with each other.
SideBySide == {"sectors", "spreads", "themes", "percentiles"}

(* The sectors that are shown side by side come from one run, which counts *)
(* a company in one sector at most: nothing of an earlier run lingers, not *)
(* even after a job broke between its commits and another one followed     *)
(* ("drop stale aggregates first", sector_dupont.py:134).                  *)
OneRunShown ==
  req.kind \in SideBySide =>
    \A r, s \in req.rows : r.run = s.run /\ (r # s => r.of \cap s.of = {})

(* A company's percentiles are reported with the group they were ranked in *)
(* although the company has been given another code since: "so the group   *)
(* reported IS the one ranked against" (routes.py:3584-3585).              *)
GroupIsRankedGroup ==
  req.kind = "percentiles" /\ req.stage = "idle" =>
    \A r \in req.rows : req.cik \in r.of /\ req.group = r.group

(* The snapshot that is served never gives way to an older one, whatever   *)
(* is back-dated, run twice or pruned, and there is always one once there  *)
(* was one (sqlite_insider_peer_ratio_repository.py: prune_snapshots).     *)
SnapshotsGoForward == [][LatestAsOf' >= LatestAsOf]_vars
=============================================================================

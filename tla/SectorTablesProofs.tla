------------------------- MODULE SectorTablesProofs -------------------------
(***************************************************************************)
(* Proofs about the sector tables, for any companies, groups, jobs and     *)
(* requests: what is compared side by side comes from one run, percentiles *)
(* name the group they were ranked in, and the snapshots go forward.       *)
(***************************************************************************)
EXTENDS SectorTables, FiniteSetTheorems, WellFoundedInduction, TLAPS

USE SectorAssumption

Tables == {"profile", "facts", "legs", "dupont", "lifecycle", "flow", "mix", "peers",
           "scores", "parts", "stats", "governance", "tone", "ratios"}

\* Tables whose rows are shown side by side.
Compared == {"dupont", "peers", "scores"}

OneRun(S) == \A r, s \in S : r.run = s.run /\ (r # s => r.of \cap s.of = {})

OneGroup(P) == \A p, q \in P : p.cik = q.cik => p.group = q.group

Shapes ==
  /\ db = [k \in Tables |-> db[k]]
  /\ job = [kind |-> job.kind, stage |-> job.stage, left |-> job.left,
            picked |-> job.picked, asOf |-> job.asOf]
  /\ req = [kind |-> req.kind, stage |-> req.stage, cik |-> req.cik, group |-> req.group,
            asOf |-> req.asOf, rows |-> req.rows, parts |-> req.parts]

TablesOfOneRun == \A k \in Compared : OneRun(db[k])

\* Of the job: what it counted, and what it has cleared before it writes.
PickedOnce == job.kind \in Compared => OneGroup(job.picked)
ClearedFirst ==
  /\ job.kind \in Compared /\ job.stage = "write" => db[job.kind] = {}
  /\ job.stage = "parts" => job.kind = "scores" /\ db.scores = {}
  /\ job.stage = "profiles" => job.kind = "mix"

\* Of the request: which queries come before its rows.
Asking ==
  /\ req.stage = "year" => req.kind \in {"sectors", "spreads", "themes"}
  /\ req.stage \in {"profile", "latest"} => req.kind \in {"stats", "ratio"}
  /\ req.stage = "parts" => req.kind = "themes"

Dated ==
  /\ day \in Nat /\ job.asOf \in 0..day
  /\ \A r \in db.ratios : r.day \in 0..day

IInv ==
  /\ Shapes /\ TablesOfOneRun /\ PickedOnce /\ ClearedFirst /\ Asking /\ Dated
  /\ OneRunShown /\ GroupIsRankedGroup

----------------------------------------------------------------------------
(* Lemmas                                                                  *)

(* A bounded set of numbers has a greatest one.                            *)
LEMMA MaxOfBounded ==
  ASSUME NEW n \in Nat, NEW S, S \subseteq 0..n, S # {}
  PROVE  Max(S) \in S /\ \A x \in S : Max(S) >= x
<1> DEFINE T == {n - x : x \in S}
<1>1. T \subseteq Nat /\ T # {}
  <2>1. PICK x \in S : TRUE
    OBVIOUS
  <2>2. \A y \in S : y \in Int /\ n - y \in Nat
    OBVIOUS
  <2> QED BY <2>1, <2>2
<1>2. PICK t \in T : \A u \in T : ~(<<u, t>> \in OpToRel(<, Nat))
  BY <1>1, WFMin, NatLessThanWellFounded
<1>3. \A u \in T : ~(u < t)
  BY <1>1, <1>2 DEF OpToRel
<1>4. PICK x \in S : t = n - x
  OBVIOUS
<1>5. \A y \in S : n - y \in T
  OBVIOUS
<1> HIDE DEF T
<1>6. \A y \in S : ~(n - y < n - x)
  BY <1>3, <1>4, <1>5
<1>7. x \in Int /\ \A y \in S : y \in Int
  OBVIOUS
<1>8. \A y \in S : x >= y
  BY <1>6, <1>7
<1> QED BY <1>8 DEF Max

(* A query that groups companies by one group each yields disjoint rows.   *)
LEMMA RowsOfOneRun ==
  ASSUME NEW k, NEW P, OneGroup(P)
  PROVE  OneRun(Rows(k, P))
<1>1. SUFFICES ASSUME NEW r \in Rows(k, P), NEW s \in Rows(k, P)
               PROVE  r.run = s.run /\ (r # s => r.of \cap s.of = {})
  BY DEF OneRun
<1>2. PICK g \in Groups : r = [group |-> g, of |-> Members(P, g), run |-> count.runs]
  BY <1>1 DEF Rows
<1>3. PICK h \in Groups : s = [group |-> h, of |-> Members(P, h), run |-> count.runs]
  BY <1>1 DEF Rows
<1>4. ASSUME g # h PROVE Members(P, g) \cap Members(P, h) = {}
  BY <1>4 DEF Members, OneGroup
<1> QED BY <1>2, <1>3, <1>4

(* Companies join their profile's group, and rows that are disjoint give   *)
(* each company one group.                                                 *)
LEMMA PickedOneGroup ==
  ASSUME TablesOfOneRun, NEW k \in Compared
  PROVE  OneGroup(Picked(k))
<1>1. ASSUME NEW S PROVE OneGroup(Classified(S))
  BY DEF OneGroup, Classified
<1>2. OneGroup(SectorMedians)
  <2>1. SUFFICES ASSUME NEW p \in SectorMedians, NEW q \in SectorMedians, p.cik = q.cik
                 PROVE  p.group = q.group
    BY DEF OneGroup
  <2>2. PICK r \in db.peers : p \in {[cik |-> c, group |-> r.group] : c \in r.of}
    BY <2>1 DEF SectorMedians
  <2>3. PICK s \in db.peers : q \in {[cik |-> c, group |-> s.group] : c \in s.of}
    BY <2>1 DEF SectorMedians
  <2>4. p.cik \in r.of /\ p.group = r.group /\ q.cik \in s.of /\ q.group = s.group
    BY <2>2, <2>3
  <2>5. r = s
    BY <2>1, <2>4 DEF TablesOfOneRun, Compared, OneRun
  <2> QED BY <2>4, <2>5
<1>3. CASE k = "dupont"
  BY <1>1, <1>3 DEF Picked, SectorDupont
<1>4. CASE k = "peers"
  BY <1>1, <1>4 DEF Picked, PeerMetrics
<1>5. CASE k = "scores"
  BY <1>2, <1>5 DEF Picked
<1> QED BY <1>3, <1>4, <1>5 DEF Compared

(* What is shown side by side is one table, or a part of one.              *)
LEMMA ShownOfOneRun ==
  ASSUME TablesOfOneRun, NEW q, q.kind \in SideBySide
  PROVE  OneRun(Shown(q))
<1>1. CASE q.kind = "sectors"
  BY <1>1 DEF Shown, Sectors, TablesOfOneRun, Compared
<1>2. CASE q.kind = "spreads"
  BY <1>2 DEF Shown, SectorSpreads, TablesOfOneRun, Compared
<1>3. CASE q.kind = "themes"
  BY <1>3 DEF Shown, TablesOfOneRun, Compared
<1>4. CASE q.kind = "percentiles"
  <2>1. Shown(q) = PeerRanks(q.cik)
    BY <1>4 DEF Shown
  <2> QED BY <2>1 DEF PeerRanks, TablesOfOneRun, Compared, OneRun
<1> QED BY <1>1, <1>2, <1>3, <1>4 DEF SideBySide

(* The rows a company is ranked in are one row, which names its group.     *)
LEMMA RankedGroup ==
  ASSUME TablesOfOneRun, NEW q, q.kind = "percentiles"
  PROVE  \A r \in Shown(q) : q.cik \in r.of /\ GroupOf(q) = r.group
<1>1. SUFFICES ASSUME NEW r \in PeerRanks(q.cik)
               PROVE  q.cik \in r.of /\ GroupOf(q) = r.group
  BY DEF Shown
<1>2. q.cik \in r.of /\ r \in db.peers
  BY <1>1 DEF PeerRanks
<1>3. \A s \in PeerRanks(q.cik) : s = r
  BY <1>2 DEF PeerRanks, TablesOfOneRun, Compared, OneRun
<1>4. {s.group : s \in PeerRanks(q.cik)} = {r.group}
  BY <1>1, <1>3
<1> QED BY <1>2, <1>4 DEF GroupOf

(* What was the latest snapshot still bounds it, if its day is kept.       *)
LEMMA LatestBounds ==
  ASSUME Dated, NEW n \in Nat, \A r \in db'.ratios : r.day \in 0..n,
         LatestAsOf \in {0} \cup {r.day : r \in db'.ratios}
  PROVE  LatestAsOf' >= LatestAsOf
<1> DEFINE S == {0} \cup {r.day : r \in db'.ratios}
<1>1. S \subseteq 0..n /\ S # {}
  OBVIOUS
<1>2. \A x \in S : Max(S) >= x
  BY <1>1, MaxOfBounded
<1>3. LatestAsOf' = Max(S)
  BY DEF LatestAsOf
<1> QED BY <1>2, <1>3

----------------------------------------------------------------------------
(* The invariant.                                                          *)

JobPart == TablesOfOneRun /\ PickedOnce /\ ClearedFirst

LEMMA InitIInv == Init => IInv
<1> SUFFICES ASSUME Init PROVE IInv
  OBVIOUS
<1>1. Shapes /\ \A k \in Compared : db[k] = {}
  <2>1. PICK known \in (SUBSET Ciks) \ {{}} :
          db = [profile |-> [c \in Ciks |-> IF c \in known THEN sic[c] ELSE NoGroup],
                facts |-> known, legs |-> known, dupont |-> {}, lifecycle |-> {},
                flow |-> {}, mix |-> {}, peers |-> {}, scores |-> {}, parts |-> {},
                stats |-> {}, governance |-> {}, tone |-> {}, ratios |-> {}]
    BY DEF Init
  <2>2. db = [k \in Tables |-> db[k]]
    BY <2>1 DEF Tables
  <2>3. \A k \in Compared : db[k] = {}
    BY <2>1 DEF Compared
  <2>4. job = [kind |-> job.kind, stage |-> job.stage, left |-> job.left,
               picked |-> job.picked, asOf |-> job.asOf]
    BY DEF Init, NoJob
  <2>5. req = [kind |-> req.kind, stage |-> req.stage, cik |-> req.cik,
               group |-> req.group, asOf |-> req.asOf, rows |-> req.rows,
               parts |-> req.parts]
    BY DEF Init, Idle
  <2> QED BY <2>2, <2>3, <2>4, <2>5 DEF Shapes
<1>3. JobPart
  BY <1>1 DEF Init, NoJob, JobPart, TablesOfOneRun, Compared, OneRun, PickedOnce, ClearedFirst
<1>2. Asking /\ Dated /\ OneRunShown /\ GroupIsRankedGroup
  BY DEF Init, NoJob, Idle, Asking, Dated, OneRunShown, GroupIsRankedGroup
<1> QED BY <1>1, <1>2, <1>3 DEF IInv, JobPart

LEMMA NextShapes == IInv /\ [Next]_vars => Shapes'
<1> SUFFICES ASSUME Shapes, [Next]_vars PROVE Shapes'
  BY DEF IInv
<1> USE DEF Shapes, Tables
<1>1. CASE Reclassify \/ Ingest \/ NextDay
  BY <1>1 DEF Reclassify, Ingest, NextDay
<1>2. ASSUME NEW k, JobStart(k) PROVE Shapes'
  BY <1>2 DEF JobStart, NoJob
<1>3. CASE FetchProfile
  BY <1>3 DEF FetchProfile
<1>4. CASE ClearComponents \/ InsertComponents
  BY <1>4 DEF ClearComponents, InsertComponents
<1>5. CASE WalkEnds \/ JobBreaks
  BY <1>5 DEF WalkEnds, JobBreaks, NoJob
<1>6. CASE Aggregate \/ ReadMix \/ LookUpProfile
  BY <1>6 DEF Aggregate, ReadMix, LookUpProfile
<1>7. CASE Clear \/ ClearParts
  BY <1>7 DEF Clear, ClearParts, ClearTable, Replaced
<1>8. CASE WriteTable
  BY <1>8 DEF WriteTable, Replaced, NoJob
<1>9. CASE WriteCompanies
  BY <1>9 DEF WriteCompanies, ByCompany, NoJob
<1>10. CASE WriteRatios \/ Prune
  BY <1>10 DEF WriteRatios, Prune, NoJob
<1>11. ASSUME NEW k, Ask(k) PROVE Shapes'
  BY <1>11 DEF Ask, Idle
<1>12. CASE SeeYear \/ SeeProfile \/ SeeLatest
  BY <1>12 DEF SeeYear, SeeProfile, SeeLatest
<1>13. CASE SeeRows \/ SeeParts
  BY <1>13 DEF SeeRows, SeeParts
<1>14. CASE UNCHANGED vars
  BY <1>14 DEF vars
<1> QED BY <1>1, <1>2, <1>3, <1>4, <1>5, <1>6, <1>7, <1>8, <1>9, <1>10, <1>11, <1>12,
           <1>13, <1>14 DEF Next, Job, Request

(* Rows are written where there are none, by a query that gives a company  *)
(* one group.                                                              *)
LEMMA WriteTableOfOneRun ==
  ASSUME Shapes, JobPart, WriteTable
  PROVE  TablesOfOneRun'
<1>1. CASE job.kind \notin Compared
  <2>1. \A k \in Compared : db'[k] = db[k]
    BY <1>1 DEF WriteTable, Compared, Shapes, Tables
  <2> QED BY <2>1 DEF JobPart, TablesOfOneRun
<1>2. CASE job.kind \in Compared
  <2> DEFINE new == Rows(job.kind, job.picked)
  <2>1. OneRun(new)
    BY <1>2, RowsOfOneRun DEF JobPart, PickedOnce
  <2>2. db[job.kind] = {}
    BY <1>2 DEF JobPart, ClearedFirst, WriteTable
  <2>3. Upserted(db[job.kind], new) = new
    BY <2>2 DEF Upserted
  <2>4. /\ db'[job.kind] = new
        /\ \A k \in Compared \ {job.kind} : db'[k] = db[k]
    BY <1>2, <2>3 DEF WriteTable, Compared, Shapes, Tables
  <2> QED BY <2>1, <2>4 DEF JobPart, TablesOfOneRun
<1> QED BY <1>1, <1>2

LEMMA NextJobPart == IInv /\ [Next]_vars => JobPart'
<1> SUFFICES ASSUME IInv, [Next]_vars PROVE JobPart'
  OBVIOUS
<1>0. Shapes /\ JobPart
  BY DEF IInv, JobPart
<1> USE DEF JobPart, PickedOnce, ClearedFirst, OneGroup
<1>1. ASSUME \A k \in Compared : db'[k] = db[k], job' = job PROVE JobPart'
  BY <1>0, <1>1 DEF TablesOfOneRun, Compared
<1>2. ASSUME \A k \in Compared : db'[k] = db[k], job' = NoJob PROVE JobPart'
  BY <1>0, <1>2 DEF TablesOfOneRun, NoJob, Compared
<1>3. CASE Reclassify \/ Ingest \/ NextDay
  BY <1>0, <1>1, <1>3 DEF Reclassify, Ingest, NextDay, Shapes, Tables, Compared
<1>4. ASSUME NEW k, JobStart(k) PROVE JobPart'
  <2>1. db' = db /\ job'.kind = k /\ job'.picked = {} /\ job'.stage = FirstStage(k)
    BY <1>4 DEF JobStart, NoJob
  <2>2. job'.stage \in {"fetch", "clear", "read"}
    BY <2>1 DEF FirstStage
  <2> QED BY <1>0, <2>1, <2>2 DEF TablesOfOneRun, Compared
<1>5. CASE FetchProfile \/ ClearComponents \/ InsertComponents
  <2>1. /\ \A k \in Compared : db'[k] = db[k]
        /\ job'.kind = job.kind /\ job'.picked = job.picked
        /\ job'.stage \in {"fetch", "insert"}
    BY <1>0, <1>5 DEF FetchProfile, ClearComponents, InsertComponents, Shapes, Tables, Compared
  <2> QED BY <1>0, <2>1 DEF TablesOfOneRun, Compared
<1>6. CASE WalkEnds \/ JobBreaks
  BY <1>2, <1>6 DEF WalkEnds, JobBreaks
<1>7. CASE Aggregate
  <2>1. /\ db' = db /\ job'.kind = job.kind /\ job'.picked = Picked(job.kind)
        /\ job'.stage = IF job.kind \in Replaced THEN "clear" ELSE "write"
    BY <1>0, <1>7 DEF Aggregate, Shapes
  <2>2. job.kind \in Compared => job.kind \in Replaced /\ OneGroup(Picked(job.kind))
    BY <1>0, PickedOneGroup DEF Compared, Replaced
  <2> QED BY <1>0, <2>1, <2>2 DEF TablesOfOneRun
<1>8. CASE ReadMix \/ LookUpProfile
  <2>1. /\ db' = db /\ job'.kind = "mix" /\ job'.stage \in {"profiles", "clear"}
    BY <1>0, <1>8 DEF ReadMix, LookUpProfile, Shapes
  <2> QED BY <1>0, <2>1 DEF TablesOfOneRun, Compared
<1>9. CASE Clear
  <2>1. /\ db'[job.kind] = {} /\ \A k \in Tables \ {job.kind} : db'[k] = db[k]
        /\ job'.kind = job.kind /\ job'.picked = job.picked
        /\ job'.stage = IF job.kind = "scores" THEN "parts" ELSE "write"
        /\ job.kind \in Tables
    BY <1>0, <1>9 DEF Clear, ClearTable, Shapes, Tables, Replaced
  <2>2. \A k \in Compared : k \in Tables /\ (db'[k] = db[k] \/ db'[k] = {})
    BY <2>1 DEF Compared, Tables
  <2>3. TablesOfOneRun'
    BY <1>0, <2>2 DEF TablesOfOneRun, OneRun
  <2> QED BY <1>0, <2>1, <2>3 DEF Compared, Tables
<1>10. CASE ClearParts
  <2>1. /\ \A k \in Compared : db'[k] = db[k]
        /\ job'.kind = job.kind /\ job'.picked = job.picked /\ job'.stage = "write"
    BY <1>0, <1>10 DEF ClearParts, Shapes, Tables, Compared
  <2>2. db.scores = {} /\ job.kind = "scores"
    BY <1>0, <1>10 DEF ClearParts
  <2> QED BY <1>0, <2>1, <2>2 DEF TablesOfOneRun, Compared
<1>11. CASE WriteTable
  <2>1. job' = NoJob
    BY <1>11 DEF WriteTable
  <2> QED BY <1>0, <1>11, <2>1, WriteTableOfOneRun DEF NoJob, Compared
<1>12. CASE WriteCompanies \/ Prune
  BY <1>0, <1>2, <1>12
  DEF WriteCompanies, Prune, ByCompany, Shapes, Tables, Compared
<1>13. CASE WriteRatios
  <2>1. /\ \A k \in Compared : db'[k] = db[k]
        /\ job'.kind = "ratios" /\ job'.stage = "prune"
    BY <1>0, <1>13 DEF WriteRatios, Shapes, Tables, Compared
  <2> QED BY <1>0, <2>1 DEF TablesOfOneRun, Compared
<1>14. CASE Request
  BY <1>0, <1>1, <1>14 DEF Request, Ask, SeeYear, SeeProfile, SeeLatest, SeeRows, SeeParts
<1>15. CASE UNCHANGED vars
  BY <1>0, <1>1, <1>15 DEF vars
<1> QED BY <1>3, <1>4, <1>5, <1>6, <1>7, <1>8, <1>9, <1>10, <1>11, <1>12, <1>13, <1>14,
           <1>15 DEF Next, Job

(* An answer is taken from the tables in one step and stays as it is.      *)
LEMMA NextAnswer ==
  IInv /\ [Next]_vars => Asking' /\ OneRunShown' /\ GroupIsRankedGroup'
<1> SUFFICES ASSUME IInv, [Next]_vars
             PROVE  Asking' /\ OneRunShown' /\ GroupIsRankedGroup'
  OBVIOUS
<1>0. Shapes /\ TablesOfOneRun /\ Asking /\ OneRunShown /\ GroupIsRankedGroup
  BY DEF IInv
<1>1. CASE req' = req
  BY <1>0, <1>1 DEF Asking, OneRunShown, GroupIsRankedGroup
<1>2. ASSUME NEW k, Ask(k)
      PROVE  Asking' /\ OneRunShown' /\ GroupIsRankedGroup'
  <2>1. req'.kind = k /\ req'.stage = FirstQuery(k) /\ req'.rows = {}
    BY <1>2 DEF Ask, Idle
  <2> QED BY <2>1 DEF FirstQuery, Asking, OneRunShown, GroupIsRankedGroup
<1>3. CASE SeeYear \/ SeeProfile \/ SeeLatest
  <2>1. /\ req'.kind = req.kind /\ req'.rows = req.rows
        /\ req.kind # "percentiles"
        /\ req'.stage \in {"idle", "rows", "latest"}
        /\ req'.stage = "latest" => req.kind \in {"stats", "ratio"}
    BY <1>0, <1>3 DEF SeeYear, SeeProfile, SeeLatest, Shapes, Asking
  <2> QED BY <1>0, <2>1 DEF Asking, OneRunShown, GroupIsRankedGroup
<1>4. CASE SeeRows
  <2>1. /\ req'.kind = req.kind /\ req'.cik = req.cik
        /\ req'.rows = Shown(req) /\ req'.group = GroupOf(req)
        /\ req'.stage = IF req.kind = "themes" THEN "parts" ELSE "idle"
    BY <1>0, <1>4 DEF SeeRows, Shapes
  <2>2. Asking'
    BY <2>1 DEF Asking
  <2>3. OneRunShown'
    BY <1>0, <2>1, ShownOfOneRun DEF OneRunShown, OneRun
  <2>4. GroupIsRankedGroup'
    BY <1>0, <2>1, RankedGroup DEF GroupIsRankedGroup
  <2> QED BY <2>2, <2>3, <2>4
<1>5. CASE SeeParts
  <2>1. req'.kind = "themes" /\ req'.rows = req.rows /\ req'.stage = "idle" /\ req.kind = "themes"
    BY <1>0, <1>5 DEF SeeParts, Shapes, Asking
  <2> QED BY <1>0, <2>1 DEF Asking, OneRunShown, GroupIsRankedGroup
<1>6. CASE ~Request
  <2>1. req' = req
    BY <1>6
    DEF Next, Job, vars, Reclassify, Ingest, NextDay, JobStart, FetchProfile,
        ClearComponents, InsertComponents, WalkEnds, Aggregate, ReadMix, LookUpProfile,
        Clear, ClearParts, WriteTable, WriteCompanies, WriteRatios, Prune, JobBreaks
  <2> QED BY <1>1, <2>1
<1> QED BY <1>2, <1>3, <1>4, <1>5, <1>6 DEF Request

----------------------------------------------------------------------------
(* The dated snapshots.                                                    *)

\* The days there are snapshots of, before and after.
Days == {0} \cup {r.day : r \in db.ratios}

LEMMA LatestIsADay ==
  ASSUME Dated
  PROVE  LatestAsOf \in Days /\ \A d \in Days : d \in 0..day /\ LatestAsOf >= d
<1>1. Days \subseteq 0..day /\ Days # {} /\ day \in Nat
  BY DEF Dated, Days
<1> QED BY <1>1, MaxOfBounded DEF LatestAsOf, Days

(* The upsert replaces rows only by rows of the same day.                  *)
LEMMA UpsertKeepsDays ==
  ASSUME Shapes, Dated, WriteRatios
  PROVE  /\ Days \subseteq Days'
         /\ \A r \in db'.ratios : r.day \in 0..day
<1> DEFINE new == {[cik |-> p.cik, group |-> p.group, day |-> job.asOf] : p \in job.picked}
<1>1. db'.ratios = new \cup {r \in db.ratios : r.day # job.asOf \/ r.cik \notin {s.cik : s \in new}}
  BY DEF WriteRatios, RatiosUpserted, Shapes, Tables
<1>2. \A s \in new : s.day = job.asOf
  OBVIOUS
<1> HIDE DEF new
<1>3. \A r \in db'.ratios : r.day \in 0..day
  BY <1>1, <1>2 DEF Dated
<1>4. ASSUME NEW r \in db.ratios PROVE \E s \in db'.ratios : s.day = r.day
  <2>1. CASE r.day # job.asOf \/ r.cik \notin {s.cik : s \in new}
    BY <1>1, <2>1
  <2>2. CASE r.day = job.asOf /\ r.cik \in {s.cik : s \in new}
    BY <1>1, <1>2, <2>2
  <2> QED BY <2>1, <2>2
<1> QED BY <1>3, <1>4 DEF Days

(* Keep is positive, so the newest day is among those kept.                *)
LEMMA PruneKeepsLatest ==
  ASSUME Shapes, Dated, Prune
  PROVE  /\ LatestAsOf \in Days'
         /\ \A r \in db'.ratios : r.day \in 0..day
<1> DEFINE days == {r.day : r \in db.ratios}
<1>1. db'.ratios = {r \in db.ratios : Cardinality({d \in days : d > r.day}) < Keep}
  BY DEF Prune, Pruned, Shapes, Tables
<1>2. \A r \in db'.ratios : r.day \in 0..day
  BY <1>1 DEF Dated
<1>3. ASSUME NEW r \in db.ratios, r.day = LatestAsOf PROVE r \in db'.ratios
  <2>0. days \subseteq Days /\ day \in Nat
    BY DEF Days, Dated
  <2>1. \A d \in days : d \in Nat /\ LatestAsOf >= d
    BY <2>0, LatestIsADay
  <2>2. LatestAsOf \in Nat
    BY LatestIsADay DEF Dated
  <2>3. {d \in days : d > r.day} = {}
    BY <1>3, <2>1, <2>2
  <2>4. Cardinality({}) < Keep
    BY FS_EmptySet
  <2> QED BY <1>1, <2>3, <2>4
<1>4. LatestAsOf \in Days
  BY LatestIsADay
<1> QED BY <1>2, <1>3, <1>4 DEF Days

LEMMA NextDated == IInv /\ [Next]_vars => Dated' /\ LatestAsOf' >= LatestAsOf
<1> SUFFICES ASSUME IInv, [Next]_vars PROVE Dated' /\ LatestAsOf' >= LatestAsOf
  OBVIOUS
<1>0. Shapes /\ Dated /\ LatestAsOf \in Days /\ LatestAsOf \in Nat /\ day \in Nat
  BY LatestIsADay DEF IInv, Dated
<1>1. ASSUME db'.ratios = db.ratios, day' \in {day, day + 1}, job'.asOf \in 0..day
      PROVE  Dated' /\ LatestAsOf' >= LatestAsOf
  <2>1. Dated'
    BY <1>0, <1>1 DEF Dated
  <2>2. LatestAsOf' = LatestAsOf
    BY <1>1 DEF LatestAsOf
  <2> QED BY <1>0, <2>1, <2>2
<1>2. CASE WriteRatios
  <2>1. /\ Days \subseteq Days' /\ \A r \in db'.ratios : r.day \in 0..day
        /\ day' = day /\ job'.asOf = job.asOf
    BY <1>0, <1>2, UpsertKeepsDays DEF WriteRatios, Shapes
  <2>2. Dated'
    BY <1>0, <2>1 DEF Dated
  <2> QED BY <1>0, <2>1, <2>2, LatestBounds DEF Days
<1>3. CASE Prune
  <2>1. /\ LatestAsOf \in Days' /\ \A r \in db'.ratios : r.day \in 0..day
        /\ day' = day /\ job'.asOf = 0
    BY <1>0, <1>3, PruneKeepsLatest DEF Prune, NoJob
  <2>2. Dated'
    BY <1>0, <2>1 DEF Dated
  <2> QED BY <1>0, <2>1, <2>2, LatestBounds DEF Days
<1>4. ASSUME db' = db, day' \in {day, day + 1}, job' = job
      PROVE  Dated' /\ LatestAsOf' >= LatestAsOf
  BY <1>0, <1>1, <1>4 DEF Dated
<1>5. CASE Reclassify \/ NextDay \/ Request \/ UNCHANGED vars
  BY <1>4, <1>5
  DEF Reclassify, NextDay, Request, Ask, SeeYear, SeeProfile, SeeLatest, SeeRows, SeeParts, vars
<1>6. CASE Ingest
  BY <1>0, <1>1, <1>6 DEF Ingest, Shapes, Tables, Dated
<1>7. ASSUME NEW k, JobStart(k) PROVE Dated' /\ LatestAsOf' >= LatestAsOf
  <2>1. job'.asOf \in 0..day
    BY <1>0, <1>7 DEF JobStart, NoJob
  <2> QED BY <1>1, <1>7, <2>1 DEF JobStart
<1>8. CASE FetchProfile \/ ClearComponents \/ InsertComponents
  <2>1. db'.ratios = db.ratios /\ job'.asOf = job.asOf /\ day' = day
    BY <1>0, <1>8 DEF FetchProfile, ClearComponents, InsertComponents, Shapes, Tables
  <2> QED BY <1>0, <1>1, <2>1 DEF Dated
<1>9. CASE WalkEnds \/ JobBreaks
  BY <1>0, <1>1, <1>9 DEF WalkEnds, JobBreaks, NoJob
<1>10. CASE Aggregate \/ ReadMix \/ LookUpProfile
  <2>1. db' = db /\ job'.asOf = job.asOf /\ day' = day
    BY <1>0, <1>10 DEF Aggregate, ReadMix, LookUpProfile, Shapes
  <2> QED BY <1>0, <1>1, <2>1 DEF Dated
<1>11. CASE Clear \/ ClearParts
  <2>1. db'.ratios = db.ratios /\ job'.asOf = job.asOf /\ day' = day
    BY <1>0, <1>11 DEF Clear, ClearTable, ClearParts, Replaced, Shapes, Tables
  <2> QED BY <1>0, <1>1, <2>1 DEF Dated
<1>12. CASE WriteTable
  <2>1. db'.ratios = db.ratios
    BY <1>0, <1>12 DEF WriteTable, Replaced, Shapes, Tables
  <2>2. job'.asOf = 0 /\ day' = day
    BY <1>12 DEF WriteTable, NoJob
  <2> QED BY <1>0, <1>1, <2>1, <2>2
<1>13. CASE WriteCompanies
  <2>1. db'.ratios = db.ratios /\ job'.asOf = 0 /\ day' = day
    BY <1>0, <1>13 DEF WriteCompanies, ByCompany, Shapes, Tables, NoJob
  <2> QED BY <1>0, <1>1, <2>1
<1> QED BY <1>2, <1>3, <1>5, <1>6, <1>7, <1>8, <1>9, <1>10, <1>11, <1>12, <1>13
    DEF Next, Job

----------------------------------------------------------------------------
(* The theorems.                                                           *)

LEMMA Invariance == Spec => []IInv
<1>1. IInv /\ [Next]_vars => IInv'
  BY NextShapes, NextJobPart, NextAnswer, NextDated DEF IInv, JobPart
<1> QED BY <1>1, InitIInv, PTL DEF Spec

(* Whatever broke between its commits and whatever ran after it, what is   *)
(* shown side by side comes from one run.                                  *)
THEOREM SideBySideOfOneRun == Spec => []OneRunShown
<1>1. IInv => OneRunShown
  BY DEF IInv
<1> QED BY <1>1, Invariance, PTL

(* Percentiles are reported with the group they were ranked in, however    *)
(* often the SEC has given the company another code since.                 *)
THEOREM PercentilesNameTheirGroup == Spec => []GroupIsRankedGroup
<1>1. IInv => GroupIsRankedGroup
  BY DEF IInv
<1> QED BY <1>1, Invariance, PTL

(* No upsert, back-dated or not, and no pruning takes the latest snapshot  *)
(* back to an older one.                                                   *)
THEOREM SnapshotsForward == Spec => SnapshotsGoForward
<1>1. IInv /\ [Next]_vars => [LatestAsOf' >= LatestAsOf]_vars
  BY NextDated
<1> QED BY <1>1, Invariance, PTL DEF Spec, SnapshotsGoForward
=============================================================================

--------------------------- MODULE HoldingsCache ---------------------------
(***************************************************************************)
(* The 13F snapshots of one quarter and the CUSIP map.  The API reads a    *)
(* manager's snapshot and fetches it on a miss (routes.py,                 *)
(* _manager_snapshot); the institutional backfill replaces those whose     *)
(* accession differs from the one its submissions.zip names                *)
(* (ingest/institutional_backfill.py); the location backfill fills in a    *)
(* column the older rows lack (ingest/location_backfill.py).  Each is a    *)
(* process; they share storage/sqlite_holdings_repository.py's tables and, *)
(* the first two, storage/sqlite_cusip_repository.py's.  A name ends in    *)
(* 13F where FilingCache, the cache of the other filings on ownership, has *)
(* one like it.                                                            *)
(*                                                                         *)
(* Unlike forms 3/4/5, a 13F can be superseded: a manager's filings of the *)
(* quarter are numbered in the order they were filed, and the last counts. *)
(* A filing stands for its contents; it reports one CUSIP.  upsert_snapshot*)
(* is one transaction; get_snapshot is three statements in autocommit.     *)
(***************************************************************************)
EXTENDS Integers, FiniteSets

CONSTANTS Managers,    \* 13F filers; their order is that of the zip's entries
          N13F,        \* how many filings there will be
          Of,          \* the manager of each filing
          Cusip,       \* the CUSIP each filing reports
          Bad,         \* filings whose documents or cover page always raise
          Located,     \* filings whose cover page names a stateOrCountry
          MaxFaults13F, MaxRuns13F, MaxAsks13F, MaxLists \* bounds

Filings13F == 1 .. N13F

ASSUME HoldingsAssumption ==
  /\ Managers \subseteq Nat \ {0} /\ IsFiniteSet(Managers) /\ N13F \in Nat
  /\ Of \in [Filings13F -> Managers]
  /\ Bad \subseteq Filings13F /\ Located \subseteq Filings13F
  /\ {MaxFaults13F, MaxRuns13F, MaxAsks13F, MaxLists} \subseteq Nat

VARIABLES
  filed13F,     \* SEC: the filings 1 .. filed13F exist
  names,        \* SEC: the CUSIPs whose issuer's name company_tickers.json has
  snapshots,    \* holdings_snapshots and its child tables, per manager
  resolved,     \* cusip_map: the CUSIPs with a cik
  index,        \* the name index each process has loaded (CusipResolver)
  req13F,       \* the API's request
  job13F,       \* the institutional backfill
  loc,          \* the location backfill
  overwritten,  \* history: managers a request stored since the run began
  faults13F, runs13F, asks13F, lists

sec   == <<filed13F, names>>
store == <<snapshots, resolved>>
counts == <<faults13F, runs13F, asks13F, lists>>
vars13F  == <<sec, store, index, req13F, job13F, loc, overwritten, counts>>

\* A filing, 0 for none: what the parts of a snapshot were read from.
None == [accession |-> 0, holdings |-> 0, location |-> 0]
NewestOf(m, upto) ==
  LET S == {f \in 1 .. upto : Of[f] = m}
  IN IF S = {} THEN 0 ELSE CHOOSE f \in S : \A g \in S : g <= f

----------------------------------------------------------------------------
(* fetch_13f_snapshot_for_filing and upsert_snapshot.                      *)
Snapshot(f) == [accession |-> f, holdings |-> f,
                location |-> IF f \in Located THEN f ELSE 0]

Upsert(m, f) == snapshots' = [snapshots EXCEPT ![m] = Snapshot(f)]

(* CusipResolver.resolve: a CUSIP with a cik is left alone; else the index *)
(* is consulted, loaded anew if too old, and the outcome recorded.         *)
RecordUnresolvedClears(c) == resolved \ {c}
RecordUnresolved(c) == resolved

Known(c) == c \in resolved
Record(p, c) ==
  \E fresh \in BOOLEAN :
    LET idx == IF fresh /\ index[p].loaded THEN index[p].names ELSE names
    IN /\ index' = [index EXCEPT ![p] = [loaded |-> TRUE, names |-> idx]]
       /\ resolved' = IF c \in idx THEN resolved \cup {c} ELSE RecordUnresolved(c)

----------------------------------------------------------------------------
NoReq == [pc |-> "idle", manager |-> 0, got |-> None]
NoJob13F == [pc |-> "off", todo |-> {}, zip |-> 0, failed |-> {}]
NoLoc == [pc |-> "off", todo |-> {}, failed |-> {}]

(* Some snapshots were stored before there was a location column.          *)
Init13F ==
  /\ filed13F \in {0} \cup Filings13F /\ names = {}
  /\ \E old \in SUBSET Managers :
       snapshots = [m \in Managers |->
         IF m \in old /\ NewestOf(m, filed13F) # 0 /\ NewestOf(m, filed13F) \notin Bad
         THEN [Snapshot(NewestOf(m, filed13F)) EXCEPT !.location = 0] ELSE None]
  /\ resolved = {}
  /\ index = [p \in {"api", "job"} |-> [loaded |-> FALSE, names |-> {}]]
  /\ req13F = NoReq /\ job13F = NoJob13F /\ loc = NoLoc /\ overwritten = {}
  /\ faults13F = 0 /\ runs13F = 0 /\ asks13F = 0 /\ lists = 0

File13F ==
  /\ filed13F < N13F /\ filed13F' = filed13F + 1
  /\ UNCHANGED <<names, store, index, req13F, job13F, loc, overwritten, counts>>

(* Companies enter and leave SEC's list of names.                          *)
Relist(c) ==
  /\ lists < MaxLists /\ lists' = lists + 1
  /\ names' = IF c \in names THEN names \ {c} ELSE names \cup {c}
  /\ UNCHANGED <<filed13F, store, index, req13F, job13F, loc, overwritten,
                 faults13F, runs13F, asks13F>>

----------------------------------------------------------------------------
(* GET /managers/{cik}/holdings.                                           *)

Ask13F(m) ==
  /\ req13F.pc \in {"idle", "answered"}
  /\ asks13F < MaxAsks13F /\ asks13F' = asks13F + 1
  /\ req13F' = [NoReq EXCEPT !.manager = m,
               !.pc = IF snapshots[m].accession = 0 THEN "missing" ELSE "holdings",
               !.got.accession = snapshots[m].accession,
               !.got.location = snapshots[m].location]
  /\ UNCHANGED <<sec, store, index, job13F, loc, overwritten, faults13F, runs13F, lists>>

ReadHoldings ==
  /\ req13F.pc = "holdings"
  /\ req13F' = [req13F EXCEPT !.pc = "look",
                  !.got.holdings = snapshots[req13F.manager].holdings]
  /\ UNCHANGED <<sec, store, index, job13F, loc, overwritten, counts>>

(* submissions.json, then the documents of its newest filing; 404 if none. *)
Fetch13F ==
  /\ req13F.pc = "missing"
  /\ LET f == NewestOf(req13F.manager, filed13F)
     IN req13F' = IF f = 0 \/ f \in Bad THEN NoReq
                  ELSE [req13F EXCEPT !.pc = "storing", !.got = Snapshot(f)]
  /\ UNCHANGED <<sec, store, index, job13F, loc, overwritten, counts>>

Store ==
  /\ req13F.pc = "storing"
  /\ Upsert(req13F.manager, req13F.got.accession)
  /\ req13F' = [req13F EXCEPT !.pc = "look"]
  /\ overwritten' = overwritten \cup {req13F.manager}
  /\ UNCHANGED <<sec, resolved, index, job13F, loc, counts>>

Look ==
  /\ req13F.pc = "look"
  /\ LET f == req13F.got.holdings
     IN req13F' = [req13F EXCEPT
                     !.pc = IF f # 0 /\ ~Known(Cusip[f]) THEN "resolving" ELSE "answered"]
  /\ UNCHANGED <<sec, store, index, job13F, loc, overwritten, counts>>

Resolve ==
  /\ req13F.pc = "resolving"
  /\ Record("api", Cusip[req13F.got.holdings])
  /\ req13F' = [req13F EXCEPT !.pc = "answered"]
  /\ UNCHANGED <<sec, snapshots, job13F, loc, overwritten, counts>>

RequestFails13F ==
  /\ req13F.pc \in {"missing", "storing", "resolving"} /\ faults13F < MaxFaults13F
  /\ faults13F' = faults13F + 1 /\ req13F' = NoReq
  /\ UNCHANGED <<sec, store, index, job13F, loc, overwritten, runs13F, asks13F, lists>>

----------------------------------------------------------------------------
(* run_institutional_backfill.  The zip was built, and downloaded, some    *)
(* time ago.                                                               *)

First(S) == CHOOSE m \in S : \A k \in S : m <= k
Candidate13F(m) == NewestOf(m, job13F.zip)

JobStart13F(z) ==
  /\ job13F.pc = "off" /\ runs13F < MaxRuns13F /\ runs13F' = runs13F + 1
  /\ job13F' = [NoJob13F EXCEPT !.pc = "next", !.zip = z,
                          !.todo = {m \in Managers : NewestOf(m, z) # 0}]
  /\ overwritten' = {}
  /\ UNCHANGED <<sec, store, index, req13F, loc, faults13F, asks13F, lists>>

Current(m) == snapshots[m].accession = Candidate13F(m)

Done(m) == [job13F EXCEPT !.pc = "next", !.todo = @ \ {m}]
\* One manager's failure is tallied, and the run goes on.
FailedStopsTheRun(m) == [Done(m) EXCEPT !.todo = {}, !.failed = @ \cup {m}]
Failed(m) == [Done(m) EXCEPT !.failed = @ \cup {m}]

JobSkip13F ==
  /\ job13F.pc = "next" /\ job13F.todo # {} /\ Current(First(job13F.todo))
  /\ job13F' = Done(First(job13F.todo))
  /\ UNCHANGED <<sec, store, index, req13F, loc, overwritten, counts>>

JobFetch13F ==
  /\ job13F.pc = "next" /\ job13F.todo # {} /\ ~Current(First(job13F.todo))
  /\ LET m == First(job13F.todo)
     IN job13F' = IF Candidate13F(m) \in Bad THEN Failed(m)
                  ELSE [job13F EXCEPT !.pc = IF Known(Cusip[Candidate13F(m)])
                                       THEN "storing" ELSE "resolving"]
  /\ UNCHANGED <<sec, store, index, req13F, loc, overwritten, counts>>

JobResolve13F ==
  /\ job13F.pc = "resolving"
  /\ Record("job", Cusip[Candidate13F(First(job13F.todo))])
  /\ job13F' = [job13F EXCEPT !.pc = "storing"]
  /\ UNCHANGED <<sec, snapshots, req13F, loc, overwritten, counts>>

JobStore13F ==
  /\ job13F.pc = "storing"
  /\ Upsert(First(job13F.todo), Candidate13F(First(job13F.todo)))
  /\ job13F' = Done(First(job13F.todo))
  /\ UNCHANGED <<sec, resolved, index, req13F, loc, overwritten, counts>>

(* Fetching, resolving or storing raises.                                  *)
JobFails13F ==
  /\ job13F.pc \in {"next", "resolving", "storing"} /\ job13F.todo # {}
  /\ faults13F < MaxFaults13F
  /\ job13F.pc = "next" => ~Current(First(job13F.todo))
  /\ faults13F' = faults13F + 1 /\ job13F' = Failed(First(job13F.todo))
  /\ UNCHANGED <<sec, store, index, req13F, loc, overwritten, runs13F, asks13F, lists>>

JobEnds13F ==
  /\ job13F.pc # "off" /\ (job13F.todo = {} \/ faults13F < MaxFaults13F)
  /\ faults13F' = IF job13F.todo = {} THEN faults13F ELSE faults13F + 1 \* killed
  /\ job13F' = NoJob13F
  /\ index' = [index EXCEPT !["job"] = [loaded |-> FALSE, names |-> {}]]
  /\ UNCHANGED <<sec, store, req13F, loc, overwritten, runs13F, asks13F, lists>>

----------------------------------------------------------------------------
(* run_location_backfill.                                                  *)

LocStart ==
  /\ loc.pc = "off" /\ runs13F < MaxRuns13F /\ runs13F' = runs13F + 1
  /\ LET missing == {f \in Filings13F : /\ snapshots[Of[f]].accession = f
                                     /\ snapshots[Of[f]].location = 0}
     IN loc' = [NoLoc EXCEPT !.pc = "next", !.todo = missing]
  /\ UNCHANGED <<sec, store, index, req13F, job13F, overwritten, faults13F, asks13F, lists>>

LocDone(f) == [loc EXCEPT !.pc = "next", !.todo = @ \ {f}]
LocFailed(f) == [LocDone(f) EXCEPT !.failed = @ \cup {f}]

LocFetch ==
  /\ loc.pc = "next" /\ loc.todo # {}
  /\ LET f == First(loc.todo)
     IN loc' = IF f \in Bad THEN LocFailed(f)
               ELSE IF f \in Located THEN [loc EXCEPT !.pc = "storing"]
               ELSE LocDone(f)
  /\ UNCHANGED <<sec, store, index, req13F, job13F, overwritten, counts>>

(* The UPDATE names the manager and the quarter, not the accession.        *)
LocStore ==
  /\ loc.pc = "storing"
  /\ LET f == First(loc.todo)
     IN /\ snapshots' = [snapshots EXCEPT ![Of[f]].location = f]
        /\ loc' = LocDone(f)
  /\ UNCHANGED <<sec, resolved, index, req13F, job13F, overwritten, counts>>

LocFails ==
  /\ loc.pc = "next" /\ loc.todo # {} /\ faults13F < MaxFaults13F
  /\ faults13F' = faults13F + 1 /\ loc' = LocFailed(First(loc.todo))
  /\ UNCHANGED <<sec, store, index, req13F, job13F, overwritten, runs13F, asks13F, lists>>

LocEnds ==
  /\ loc.pc # "off" /\ (loc.todo = {} \/ faults13F < MaxFaults13F)
  /\ faults13F' = IF loc.todo = {} THEN faults13F
                  ELSE faults13F + 1 \* killed, or a write raised
  /\ loc' = NoLoc
  /\ UNCHANGED <<sec, store, index, req13F, job13F, overwritten, runs13F, asks13F, lists>>

Next13F ==
  \/ File13F \/ \E f \in Filings13F : Relist(Cusip[f])
  \/ \E m \in Managers : Ask13F(m)
  \/ ReadHoldings \/ Fetch13F \/ Store \/ Look \/ Resolve \/ RequestFails13F
  \/ \E z \in 0 .. filed13F : JobStart13F(z)
  \/ JobSkip13F \/ JobFetch13F \/ JobResolve13F \/ JobStore13F
  \/ JobFails13F \/ JobEnds13F
  \/ LocStart \/ LocFetch \/ LocStore \/ LocFails \/ LocEnds

Spec13F == Init13F /\ [][Next13F]_vars13F

----------------------------------------------------------------------------
Numbers == {0} \cup Filings13F
Snapshots == [accession : Numbers, holdings : Numbers, location : Numbers]
Cusips == {Cusip[f] : f \in Filings13F}

(* Rows, requests and runs keep their shapes, and every part of a snapshot *)
(* comes from a filing of its manager.                                     *)
TypeOK13F ==
  /\ filed13F \in Numbers /\ names \subseteq Cusips /\ resolved \subseteq Cusips
  /\ snapshots \in [Managers -> Snapshots]
  /\ index \in [{"api", "job"} -> [loaded : BOOLEAN, names : SUBSET Cusips]]
  /\ req13F \in [pc : {"idle", "missing", "holdings", "storing", "look", "resolving",
                        "answered"},
                 manager : {0} \cup Managers, got : Snapshots]
  /\ job13F \in [pc : {"off", "next", "resolving", "storing"}, todo : SUBSET Managers,
                 zip : Numbers, failed : SUBSET Managers]
  /\ loc \in [pc : {"off", "next", "storing"}, todo : SUBSET Filings13F,
              failed : SUBSET Filings13F]
  /\ overwritten \subseteq Managers
  /\ \A m \in Managers : \A f \in Filings13F :
       f \in {snapshots[m].accession, snapshots[m].holdings, snapshots[m].location}
         => Of[f] = m

(* At the end of a backfill every candidate but those that failed is at    *)
(* the filing its zip names, whatever was stored before - an original that *)
(* was stored over its amendment heals here - unless a request has stored  *)
(* a fresher or an older fetch meanwhile: one bad manager "must fail just  *)
(* THIS candidate, not the whole bulk job"                                 *)
(* (institutional_backfill.py:151).                                        *)
RunCovers ==
  job13F.pc = "next" =>
    \A m \in Managers :
      NewestOf(m, job13F.zip) # 0 /\ m \notin job13F.todo \cup job13F.failed =>
        snapshots[m].accession = NewestOf(m, job13F.zip) \/ m \in overwritten

(* "Must never clear an existing resolved cik" (cusip_repository.py): once *)
(* resolved a CUSIP stays resolved, although a process that looked before  *)
(* and whose name index lacks the company records its failure afterwards.  *)
ResolutionKept == [][resolved \subseteq resolved']_vars13F
=============================================================================

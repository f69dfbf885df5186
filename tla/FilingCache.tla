---------------------------- MODULE FilingCache ----------------------------
(***************************************************************************)
(* The caches of immutable filings: insider forms 3/4/5 and schedules      *)
(* 13D/13G.  The API fills them on a miss (src/src/secfin/api/routes.py,   *)
(* _insider_transactions_for_cik and _beneficial_ownership_for_cik); the   *)
(* insider backfill (ingest/insider_backfill.py) warms, refreshes or       *)
(* repairs the first from a process of its own.  Both repositories keep a  *)
(* row per filing of a company's feed and, in a table without a unique     *)
(* key, the rows parsed from it.                                           *)
(*                                                                         *)
(* Filings are numbered in the order they were filed, which is the order   *)
(* of (filed, accession).  What a filing parses to is one row here; `rows` *)
(* counts its copies.  The repositories write in one transaction but read  *)
(* which filings they have before it begins, in autocommit: planning and   *)
(* committing a write are two steps, between which the other process may   *)
(* commit.  EDGAR's feed of a company is a rolling list.                   *)
(***************************************************************************)
EXTENDS Integers, FiniteSets, FiniteSetsExt, RollingList

CONSTANTS Ciks,     \* issuers known to raw_facts; their order is the walk's
          N,        \* how many filings there will be
          Form,     \* "345" or "13DG" of each filing
          Feeds,    \* the companies whose submissions list it
          Subject,  \* the issuer it is about
          Window,   \* how many filings a company's recent list holds
          Limits,   \* the `limit` of requests
          RunLimit, \* --limit of the backfill
          Requests,
          MaxFaults, MaxRuns, MaxAsks \* bounds

Filings == 1 .. N

ASSUME FilingCacheAssumption ==
  /\ Ciks \subseteq Nat \ {0} /\ Ciks # {} /\ IsFiniteSet(Ciks)
  /\ N \in Nat /\ Form \in [Filings -> {"345", "13DG"}]
  /\ Feeds \in [Filings -> SUBSET Ciks] /\ Subject \in [Filings -> Ciks]
  /\ Window \in Nat \ {0} /\ RunLimit \in Nat \ {0} /\ Limits \subseteq Nat \ {0}
  /\ MaxFaults \in Nat /\ MaxRuns \in Nat /\ MaxAsks \in Nat

VARIABLES
  filed,  \* SEC: the filings 1 .. filed exist
  cached, \* insider_filings, beneficial_ownership_filings: <<company, filing>>
  rows,   \* insider_transactions, beneficial_ownership: copies of each
  stale,  \* the rows an older parser wrote (is_derivative IS NULL)
  req,    \* the API's requests
  job,    \* the insider backfill
  seen,   \* history: the newest insider filing answered of each company
  faults, runs, asks

table == <<cached, rows, stale>>
vars  == <<filed, table, req, job, seen, faults, runs, asks>>

Pairs == Ciks \X Filings
Latest(S) == Max(S \cup {0})

(* _recent_filings, _recent_13dg_filings: a company's recent list, by form. *)
Recent(c) == Newest({f \in Filings : c \in Feeds[f] /\ f <= filed}, Window)
Listed(t, c) == {f \in Recent(c) : Form[f] = t}

----------------------------------------------------------------------------
(* The repositories.                                                       *)

CachedOf(t, c) == {f \in Filings : Form[f] = t /\ <<c, f>> \in cached}

\* cached_filing_count(cik) >= limit
Hit(t, c, l) == Cardinality(CachedOf(t, c)) >= l

\* get_insider_transactions keeps the walked company; a 13D/13G is about
\* its subject, in whichever feed it was found (_owner_to_row).
RowOf(c, f) == IF Form[f] = "345" THEN <<c, f>> ELSE <<Subject[f], f>>

ReadOldest(t, c, l) ==
  {f \in CachedOf(t, c) : Cardinality({g \in CachedOf(t, c) : g < f}) < l}
Read(t, c, l) ==
  {f \in Newest(CachedOf(t, c), l) : t = "13DG" => Subject[f] = c}

\* The filings an upsert will write: not those it already has.
ToWrite(c, S) == {f \in S : <<c, f>> \notin cached}

Insert(c, S) ==
  /\ cached' = cached \cup ({c} \X S)
  /\ rows' = [p \in Pairs |-> IF \E f \in S : RowOf(c, f) = p THEN rows[p] + 1
                                                             ELSE rows[p]]
  /\ UNCHANGED stale

\* refresh=True: delete what is cached for these accessions, then insert.
ReplaceWholeIssuer(c, S) ==
  /\ cached' = {p \in cached : p[1] # c \/ Form[p[2]] # "345"} \cup ({c} \X S)
  /\ rows' = [p \in Pairs |-> IF p \in {c} \X S THEN 1
                              ELSE IF p[1] = c /\ Form[p[2]] = "345" THEN 0
                              ELSE rows[p]]
  /\ stale' = {p \in stale : p[1] # c}
Replace(c, S) ==
  /\ cached' = cached \cup ({c} \X S)
  /\ rows' = [p \in Pairs |-> IF p \in {c} \X S THEN 1 ELSE rows[p]]
  /\ stale' = stale \ ({c} \X S)

----------------------------------------------------------------------------
Idle == [pc |-> "idle", kind |-> "345", cik |-> 0, limit |-> 0, floor |-> 0,
         fetched |-> {}, new |-> {}, answer |-> {}]
NoJob == [pc |-> "off", mode |-> "warm", todo |-> {},
          fetched |-> {}, new |-> {}, missed |-> {}, resume |-> 0, base |-> 0]

(* The table starts with what a run of the older parser cached.            *)
Init ==
  /\ filed \in {0} \cup Filings
  /\ \E l \in {0} \cup Limits :
       cached = {p \in Pairs : p[2] \in Newest(Listed("345", p[1]), l)}
  /\ stale = cached
  /\ rows = [p \in Pairs |-> IF p \in cached THEN 1 ELSE 0]
  /\ req = [r \in Requests |-> Idle] /\ job = NoJob
  /\ seen = [c \in Ciks |-> 0] /\ faults = 0 /\ runs = 0 /\ asks = 0

File ==
  /\ filed + 1 \in Filings /\ filed' = filed + 1
  /\ UNCHANGED <<table, req, job, seen, faults, runs, asks>>

----------------------------------------------------------------------------
(* The API: one event loop, so only awaits let another request in.         *)

EventLoopFree(r) == \A q \in Requests \ {r} : req[q].pc # "writing"

Answered(q, S) == [Idle EXCEPT !.pc = "answered", !.kind = q.kind,
                               !.cik = q.cik, !.floor = q.floor, !.answer = S]
Shown(q, S) ==
  IF q.kind = "345"
  THEN [seen EXCEPT ![q.cik] = Max({@, Latest(S)})]
  ELSE seen

\* What the helpers return of a miss: the fetch, or what was stored of it.
MissAnswer(q) ==
  IF q.kind = "345" \/ q.fetched = {} THEN q.fetched
  ELSE Newest({f \in Filings : /\ Form[f] = "13DG"
                               /\ <<q.cik, f>> \in cached \cup ({q.cik} \X q.new)},
              q.limit) \cap {f \in Filings : Subject[f] = q.cik}

Ask(r, t, c, l) ==
  /\ req[r].pc \in {"idle", "answered"} /\ EventLoopFree(r) /\ asks < MaxAsks
  /\ asks' = asks + 1
  /\ LET q == [Idle EXCEPT !.pc = "fetching", !.kind = t, !.cik = c, !.limit = l,
                           !.floor = IF t = "345" THEN seen[c] ELSE 0]
     IN IF Hit(t, c, l)
        THEN /\ req' = [req EXCEPT ![r] = Answered(q, Read(t, c, l))]
             /\ seen' = Shown(q, Read(t, c, l))
        ELSE req' = [req EXCEPT ![r] = q] /\ UNCHANGED seen
  /\ UNCHANGED <<filed, table, job, faults, runs>>

(* The feed is read once, then its newest `limit` documents; they never    *)
(* change, so the answer is that of the feed's moment.                     *)
Fetch(r) ==
  /\ req[r].pc = "fetching"
  /\ req' = [req EXCEPT ![r].pc = "fetched",
               ![r].fetched = Newest(Listed(req[r].kind, req[r].cik), req[r].limit)]
  /\ UNCHANGED <<filed, table, job, seen, faults, runs, asks>>

Plan(r) ==
  /\ req[r].pc = "fetched" /\ EventLoopFree(r)
  /\ LET q == [req[r] EXCEPT !.pc = "writing",
                              !.new = ToWrite(req[r].cik, req[r].fetched)]
     IN IF q.new = {}
        THEN /\ req' = [req EXCEPT ![r] = Answered(q, MissAnswer(q))]
             /\ seen' = Shown(q, MissAnswer(q))
        ELSE req' = [req EXCEPT ![r] = q] /\ UNCHANGED seen
  /\ UNCHANGED <<filed, table, job, faults, runs, asks>>

Commit(r) ==
  /\ req[r].pc = "writing"
  /\ Insert(req[r].cik, req[r].new)
  /\ req' = [req EXCEPT ![r] = Answered(@, MissAnswer(@))]
  /\ seen' = Shown(req[r], MissAnswer(req[r]))
  /\ UNCHANGED <<filed, job, faults, runs, asks>>

(* A document cannot be fetched, or the write is rolled back.              *)
RequestFails(r) ==
  /\ req[r].pc \in {"fetching", "writing"} /\ faults < MaxFaults
  /\ req' = [req EXCEPT ![r] = Idle] /\ faults' = faults + 1
  /\ UNCHANGED <<filed, table, job, seen, runs, asks>>

----------------------------------------------------------------------------
(* The insider backfill: run_insider_backfill without --refresh ("warm")   *)
(* and with it ("refresh"), and run_stale_repair ("repair").  No parser    *)
(* the API or this job runs writes stale rows, so the list a repair reads  *)
(* when it starts is, for the issuers it has not reached, what is stale.   *)

\* --start-after: "read the resume point off the data", not off the rows
\* with the newest fields.  job.resume is the end of the dense prefix.
ResumeAtNewestRow == 0 .. Max({0} \cup {p[1] : p \in cached \ stale})
ResumePoints == 0 .. job.resume

Todo(m, s) ==
  {c \in Ciks : c > s /\ (m = "repair" => \E f \in Filings : <<c, f>> \in stale)}

JobStart(m, s) ==
  /\ job.pc = "off" /\ runs < MaxRuns
  /\ s = 0 \/ (s \in ResumePoints /\ job.mode = m)
  /\ job' = [NoJob EXCEPT !.pc = "next", !.mode = m, !.todo = Todo(m, s),
                          !.missed = {c \in job.missed : c <= s},
                          !.base = IF s = 0 THEN filed ELSE job.base]
  /\ runs' = runs + 1
  /\ UNCHANGED <<filed, table, req, seen, faults, asks>>

Candidate == Min(job.todo)
Moved(missed) ==
  [job EXCEPT !.pc = "next", !.todo = @ \ {Candidate}, !.missed = @ \cup missed,
              !.fetched = {}, !.new = {}]

WarmEnough(c) == job.mode = "warm" /\ Hit("345", c, RunLimit)

JobSkip ==
  /\ job.pc = "next" /\ job.todo # {} /\ WarmEnough(Candidate)
  /\ job' = Moved({})
  /\ UNCHANGED <<filed, table, req, seen, faults, runs, asks>>

(* A repair asks for the stale accessions; those that have aged out of the *)
(* list do not come back.                                                  *)
JobFetch ==
  /\ job.pc = "next" /\ job.todo # {} /\ ~WarmEnough(Candidate)
  /\ job' = [job EXCEPT !.pc = "fetched", !.fetched =
       IF job.mode = "repair"
       THEN {f \in Listed("345", Candidate) : <<Candidate, f>> \in stale}
       ELSE Newest(Listed("345", Candidate), RunLimit)]
  /\ UNCHANGED <<filed, table, req, seen, faults, runs, asks>>

(* Logged, counted, and on with the next issuer.                           *)
JobFetchFails ==
  /\ job.pc = "next" /\ job.todo # {} /\ ~WarmEnough(Candidate)
  /\ faults < MaxFaults /\ faults' = faults + 1
  /\ job' = Moved({Candidate})
  /\ UNCHANGED <<filed, table, req, seen, runs, asks>>

\* upsert_insider_transactions(..., refresh): repair implies replacement.
Replaces == job.mode # "warm"

JobPlan ==
  /\ job.pc = "fetched"
  /\ LET new == IF Replaces THEN job.fetched ELSE ToWrite(Candidate, job.fetched)
     IN job' = IF new = {} THEN Moved({})
               ELSE [job EXCEPT !.pc = "writing", !.new = new]
  /\ UNCHANGED <<filed, table, req, seen, faults, runs, asks>>

JobCommit ==
  /\ job.pc = "writing"
  /\ IF Replaces THEN Replace(Candidate, job.new) ELSE Insert(Candidate, job.new)
  /\ job' = Moved({})
  /\ UNCHANGED <<filed, req, seen, faults, runs, asks>>

(* Killed, or the write raised: upserts are outside the try.               *)
JobBreaks ==
  /\ job.pc # "off" /\ job.todo # {} /\ faults < MaxFaults
  /\ faults' = faults + 1
  /\ job' = [NoJob EXCEPT !.mode = job.mode,
                          !.missed = job.missed, !.resume = Candidate - 1,
                          !.base = job.base]
  /\ UNCHANGED <<filed, table, req, seen, runs, asks>>

JobEnds ==
  /\ job.pc = "next" /\ job.todo = {}
  /\ job' = NoJob
  /\ UNCHANGED <<filed, table, req, seen, faults, runs, asks>>

Next ==
  \/ File
  \/ \E r \in Requests : \/ Fetch(r) \/ Plan(r) \/ Commit(r) \/ RequestFails(r)
                         \/ \E t \in {"345", "13DG"}, c \in Ciks, l \in Limits :
                              Ask(r, t, c, l)
  \/ \E m \in {"warm", "refresh", "repair"}, s \in {0} \cup Ciks :
       JobStart(m, s)
  \/ JobSkip \/ JobFetch \/ JobFetchFails \/ JobPlan \/ JobCommit
  \/ JobBreaks \/ JobEnds

Spec == Init /\ [][Next]_vars

----------------------------------------------------------------------------
ReqRecords ==
  [pc : {"idle", "fetching", "fetched", "writing", "answered"},
   kind : {"345", "13DG"}, cik : {0} \cup Ciks, limit : {0} \cup Limits,
   floor : {0} \cup Filings, fetched : SUBSET Filings, new : SUBSET Filings,
   answer : SUBSET Filings]
JobRecords ==
  [pc : {"off", "next", "fetched", "writing"}, mode : {"warm", "refresh", "repair"},
   todo : SUBSET Ciks, fetched : SUBSET Filings,
   new : SUBSET Filings, missed : SUBSET Ciks, resume : Nat,
   base : {0} \cup Filings]

(* Tables, requests and the job keep their shapes, and nothing is written  *)
(* that was not fetched.                                                   *)
TypeOK ==
  /\ filed \in {0} \cup Filings
  /\ cached \subseteq Pairs /\ stale \subseteq Pairs /\ rows \in [Pairs -> Nat]
  /\ req \in [Requests -> ReqRecords] /\ job \in JobRecords
  /\ seen \in [Ciks -> {0} \cup Filings]
  /\ faults \in Nat /\ runs \in Nat /\ asks \in Nat
  /\ \A r \in Requests : req[r].new \subseteq req[r].fetched
  /\ job.new \subseteq job.fetched

(* "Never a blanket wipe of the issuer, so a partial re-fetch cannot       *)
(* silently drop filings it did not ask for"                               *)
(* (sqlite_insider_repository.py:141-142): no step of any process makes a  *)
(* cached filing disappear or lose its rows.                               *)
NothingDropped ==
  [][/\ cached \subseteq cached'
     /\ \A p \in Pairs : rows[p] >= 1 => rows'[p] >= 1]_vars

(* A request that starts after another was answered shows filings at least *)
(* as new: from the table or from SEC, after failed writes, and whatever   *)
(* the backfill replaces meanwhile.  It shows none at all instead when it  *)
(* asks for more filings than are cached ("re-fetches the full requested   *)
(* `limit` from SEC", routes.py:543) and the one that was shown has aged   *)
(* out of EDGAR's list; it never shows an older one.                       *)
NeverOlder ==
  \A r \in Requests :
    req[r].pc = "answered" /\ req[r].kind = "345"
      => \/ Latest(req[r].answer) >= req[r].floor
         \/ req[r].answer = {} /\ req[r].floor \notin Recent(req[r].cik)

AtTheEnd(m) == job.pc = "next" /\ job.todo = {} /\ job.mode = m

(* When a repair or a refresh, resumed or not, has come to its end, the    *)
(* rows still stale are those it must report: of issuers whose fetch       *)
(* failed, of filings that aged out of the list, or (refresh) of filings   *)
(* below the newest `limit`.                                               *)
ReparseCovers ==
  /\ AtTheEnd("repair") =>
       \A c \in Ciks \ job.missed : \A f \in Listed("345", c) : <<c, f>> \notin stale
  /\ AtTheEnd("refresh") =>
       \A c \in Ciks \ job.missed :
         \A f \in Newest(Listed("345", c), RunLimit) : <<c, f>> \notin stale
=============================================================================

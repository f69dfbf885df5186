------------------------------ MODULE FactCache ------------------------------
(***************************************************************************)
(* The store of SEC facts as a cache: raw_facts and its merging upsert     *)
(* (storage/sqlite_repository.py), the API's cache-aside reads             *)
(* (api/routes.py), the daily incremental (ingest/incremental.py) and the  *)
(* frames backfill behind cross-company screening (ingest/                 *)
(* frames_backfill.py).  Three processes meet in one table; the API's      *)
(* requests also interleave with one another while they await the SEC.     *)
(*                                                                         *)
(* A company's filings are numbered as the SEC receives them; each reports *)
(* one fact, of one fiscal period.  A later filing of the same period      *)
(* restates it.  A row of raw_facts is the fact of one filing: `fiscal`    *)
(* holds the rows with fiscal_year and fiscal_period, `framed` those with  *)
(* the frame.  The facts are those of a duration: companyfacts gives an    *)
(* instant fact a period_end that frames do not, so its two halves stay    *)
(* two rows, to be read apart, and neither changes the other.              *)
(***************************************************************************)
EXTENDS Naturals, Sequences, FiniteSets

CONSTANTS Company, Period, Request,
          History,         \* what /periods asks for: every period
          FactsCarryFrame, \* whether companyfacts may name a fact's frame
          Asked,           \* bound: what clients ask about each company
          Reported,        \* bound: the periods each company files of
          MaxFilings       \* bound: filings per behaviour

ASSUME FactAssumption ==
  /\ History \notin Period /\ FactsCarryFrame \subseteq BOOLEAN
  /\ Asked \in [Company -> SUBSET (Period \cup {History})]
  /\ Reported \in [Company -> SUBSET Period] /\ MaxFilings \in Nat

VARIABLES
  sec,      \* the periods of each company's filings, in the order filed
  index,    \* the day's index: how many filings a company has then, 0 if it
            \* has not filed that day
  rowids,   \* the rows of raw_facts of each company, in rowid order
  fiscal, framed,
  request,  \* the API's requests, by client
  incr,     \* the daily incremental
  frames    \* the frames backfill

store == <<rowids, fiscal, framed>>
edgar == <<sec, index>>
vars  == <<edgar, store, request, incr, frames>>

Ask == Period \cup {History}
Filings(c) == 1..Len(sec[c])
Of(c, p) == {i \in Filings(c) : p \in {sec[c][i], History}}

\* The filings whose facts the SEC's frames name: the last of their period
Current(c) == {i \in Filings(c) :
                 \A j \in Filings(c) : sec[c][j] = sec[c][i] => j <= i}

\* What companyfacts returns for c now: a whole history
FetchFacts(c, carries) ==
  [cik |-> c, rows |-> Filings(c),
   framed |-> IF carries THEN Current(c) ELSE {}]

NoFetch == [cik |-> "none", rows |-> {}, framed |-> {}]

\* ON CONFLICT DO UPDATE: rows are never deleted, and COALESCE keeps what
\* only the other source knows
MergedNoCoalesce(old, written, known) == (old \ written) \cup known
Merged(old, written, known) == old \cup known

\* New rows get the next rowids, in the order of the payload
Inserted(c, rows) ==
  rowids[c] \o SelectSeq([i \in Filings(c) |-> i],
                         LAMBDA i : i \in rows \ (fiscal[c] \cup framed[c]))

UpsertReplacing(got) ==
  /\ rowids' = [rowids EXCEPT ![got.cik] = Inserted(got.cik, got.rows)]
  /\ fiscal' = [fiscal EXCEPT ![got.cik] = got.rows]
  /\ framed' = [framed EXCEPT ![got.cik] = Merged(@, got.rows, got.framed)]
Upsert(got) ==
  /\ rowids' = [rowids EXCEPT ![got.cik] = Inserted(got.cik, got.rows)]
  /\ fiscal' = [fiscal EXCEPT ![got.cik] = Merged(@, got.rows, got.rows)]
  /\ framed' = [framed EXCEPT ![got.cik] = Merged(@, got.rows, got.framed)]

\* A client at rest remembers the last answer it had, unless it was empty
NoAnswer == [at |-> "idle", cik |-> "none", ask |-> History, answer |-> {}]
Idle(c, q, rows) ==
  IF rows = {} THEN NoAnswer
  ELSE [at |-> "idle", cik |-> c, ask |-> q, answer |-> rows]

\* No incremental, as after one that has done nothing
NoRun == [at |-> "next", todo |-> {}, got |-> NoFetch,
          due |-> [c \in Company |-> 0]]

Init ==
  /\ sec = [c \in Company |-> <<>>] /\ index = [c \in Company |-> 0]
  /\ rowids = [c \in Company |-> <<>>]
  /\ fiscal = [c \in Company |-> {}] /\ framed = [c \in Company |-> {}]
  /\ request = [r \in Request |-> NoAnswer]
  /\ incr = NoRun
  /\ frames = [at |-> "off", named |-> [c \in Company |-> {}]]

----------------------------------------------------------------------------
(* The SEC: a company files a 10-K, a 10-Q or an amendment of one, and is  *)
(* in the index of the day.                                                *)

File(c, p) ==
  /\ Cardinality(UNION {{d} \X Filings(d) : d \in Company}) < MaxFilings
  /\ sec' = [sec EXCEPT ![c] = Append(@, p)]
  /\ index' = [index EXCEPT ![c] = Len(sec'[c])]
  /\ UNCHANGED <<store, request, incr, frames>>

(* The incremental asks for yesterday's index, and never for an older one: *)
(* a day without a run is not made up for.                                 *)
DayMissed ==
  /\ index' = [c \in Company |-> 0]
  /\ UNCHANGED <<sec, store, request, incr, frames>>

----------------------------------------------------------------------------
(* _facts_for_cik and _statement_facts_for_cik.  Between two awaits a      *)
(* handler has the API's event loop, but not the database, to itself.      *)

EventLoopFree == \A r \in Request : request[r].at # "known"

Cached(c, q) == IF q = History THEN fiscal[c] \cup framed[c]
                               ELSE fiscal[c] \cap Of(c, q)
HasAnyRow(c) == fiscal[c] \cup framed[c] # {}
HasAnyFacts(c) == fiscal[c] # {}

Answered(x, rows) ==
  [x EXCEPT !.at = "answered", !.answer = rows, !.got = NoFetch]

\* The filings the answer must cover: those ingested, or else all there are
Least(c) == IF HasAnyFacts(c) THEN Cardinality(fiscal[c]) ELSE Len(sec[c])

\* least, exempt and owed are history, for the properties
Asking(r, c, q, at, rows) ==
  [at |-> at, cik |-> c, ask |-> q, got |-> NoFetch, answer |-> rows,
   least |-> Least(c),
   exempt |-> ~HasAnyFacts(c) /\ (q = History => HasAnyRow(c)),
   owed |-> IF <<request[r].cik, request[r].ask>> = <<c, q>>
              THEN request[r].answer ELSE {}]

Look(r, c, q) ==
  /\ request[r].at = "idle" /\ EventLoopFree
  /\ request' = [request EXCEPT ![r] =
       IF Cached(c, q) # {} THEN Asking(r, c, q, "answered", Cached(c, q))
       ELSE IF q = History THEN Asking(r, c, q, "fetch", {})
                           ELSE Asking(r, c, q, "known", {})]
  /\ UNCHANGED <<edgar, store, incr, frames>>

(* A second query: another process may have committed since the first.     *)
CheckKnown(r) ==
  /\ request[r].at = "known"
  /\ request' = [request EXCEPT ![r] =
       IF HasAnyFacts(@.cik) THEN Answered(@, {}) ELSE [@ EXCEPT !.at = "fetch"]]
  /\ UNCHANGED <<edgar, store, incr, frames>>

Fetch(r, carries) ==
  /\ request[r].at = "fetch"
  /\ request' = [request EXCEPT ![r] =
       [@ EXCEPT !.at = "store", !.got = FetchFacts(request[r].cik, carries)]]
  /\ UNCHANGED <<edgar, store, incr, frames>>

StoreAndAnswer(r) ==
  /\ request[r].at = "store" /\ EventLoopFree
  /\ Upsert(request[r].got)
  /\ request' = [request EXCEPT ![r] =
       Answered(@, @.got.rows \cap Of(@.cik, @.ask))]
  /\ UNCHANGED <<edgar, incr, frames>>

Reply(r) ==
  /\ request[r].at = "answered"
  /\ request' = [request EXCEPT ![r] = Idle(@.cik, @.ask, @.answer)]
  /\ UNCHANGED <<edgar, store, incr, frames>>

(* The fetch raises, or the write does: no answer but an error.            *)
RequestFails(r) ==
  /\ request[r].at \in {"fetch", "store"}
  /\ request' = [request EXCEPT ![r] = NoAnswer]
  /\ UNCHANGED <<edgar, store, incr, frames>>

ApiRestarts ==
  /\ \E r \in Request : request[r].at # "idle"
  /\ request' = [r \in Request |-> NoAnswer]
  /\ UNCHANGED <<edgar, store, incr, frames>>

----------------------------------------------------------------------------
(* run_incremental                                                         *)

IncrStart ==
  /\ incr = NoRun
  /\ \E c \in Company : index[c] > 0
  /\ incr' = [at |-> "next", todo |-> {c \in Company : index[c] > 0},
              got |-> NoFetch, due |-> index]
  /\ index' = [c \in Company |-> 0]
  /\ UNCHANGED <<sec, store, request, frames>>

IncrFetch(c, carries) ==
  /\ incr.at = "next" /\ c \in incr.todo
  /\ incr' = [incr EXCEPT !.at = "store", !.got = FetchFacts(c, carries)]
  /\ UNCHANGED <<edgar, store, request, frames>>

\* `continue`, after the exception of one company's fetch
AfterFailureBreak(todo, c) == {}
AfterFailure(todo, c) == todo \ {c}

IncrFetchFails(c) ==
  /\ incr.at = "next" /\ c \in incr.todo
  /\ incr' = [incr EXCEPT !.todo = AfterFailure(@, c), !.due[c] = 0]
  /\ UNCHANGED <<edgar, store, request, frames>>

IncrStore ==
  /\ incr.at = "store"
  /\ Upsert(incr.got)
  /\ incr' = [incr EXCEPT !.at = "next", !.todo = @ \ {incr.got.cik},
                          !.got = NoFetch]
  /\ UNCHANGED <<edgar, request, frames>>

(* The process ends, and with it what it knows.                            *)
IncrEnd ==
  /\ incr.todo = {} /\ incr # NoRun
  /\ incr' = NoRun
  /\ UNCHANGED <<edgar, store, request, frames>>

(* A failed write raises through the loop, TimeoutStartSec kills the run.  *)
IncrBreaks ==
  /\ incr.todo # {}
  /\ incr' = NoRun
  /\ UNCHANGED <<edgar, store, request, frames>>

----------------------------------------------------------------------------
(* run_frames_backfill, for one period                                     *)

FramesFetch(p) ==
  /\ frames.at = "off"
  /\ \E c \in Company : Current(c) \cap Of(c, p) # {}
  /\ frames' = [at |-> "store",
                named |-> [c \in Company |-> Current(c) \cap Of(c, p)]]
  /\ UNCHANGED <<edgar, store, request, incr>>

FramesStore ==
  /\ frames.at = "store"
  /\ rowids' = [c \in Company |-> Inserted(c, frames.named[c])]
  /\ fiscal' = [c \in Company |-> Merged(fiscal[c], frames.named[c], {})]
  /\ framed' = [c \in Company |->
                  Merged(framed[c], frames.named[c], frames.named[c])]
  /\ frames' = [at |-> "off", named |-> [c \in Company |-> {}]]
  /\ UNCHANGED <<edgar, request, incr>>

FramesBreaks ==
  /\ frames.at = "store"
  /\ frames' = [at |-> "off", named |-> [c \in Company |-> {}]]
  /\ UNCHANGED <<edgar, store, request, incr>>

----------------------------------------------------------------------------

Requests ==
  \/ \E r \in Request :
       \/ \E c \in Company : \E q \in Asked[c] : Look(r, c, q)
       \/ \E carries \in FactsCarryFrame : Fetch(r, carries)
       \/ CheckKnown(r) \/ StoreAndAnswer(r) \/ Reply(r) \/ RequestFails(r)
  \/ ApiRestarts

Incremental ==
  \/ IncrStart \/ IncrStore \/ IncrEnd \/ IncrBreaks
  \/ \E c \in Company : \/ IncrFetchFails(c)
                        \/ \E carries \in FactsCarryFrame : IncrFetch(c, carries)

Next ==
  \/ \E c \in Company : \E p \in Reported[c] : File(c, p)
  \/ DayMissed
  \/ Requests
  \/ Incremental
  \/ (\E p \in Period : FramesFetch(p)) \/ FramesStore \/ FramesBreaks

Spec == Init /\ [][Next]_vars

----------------------------------------------------------------------------
(* Properties                                                              *)

\* The periods in whose screening a company is found at all
InScreening(c) == {sec[c][i] : i \in framed[c]}

(* The type of every variable; the rows of raw_facts are those some source *)
(* has written, each once.                                                 *)
TypeOK ==
  /\ sec \in [Company -> Seq(Period)]
  /\ index \in [Company -> Nat]
  /\ \A c \in Company :
       /\ fiscal[c] \cup framed[c] \subseteq Filings(c)
       /\ {rowids[c][k] : k \in DOMAIN rowids[c]} = fiscal[c] \cup framed[c]
       /\ Len(rowids[c]) = Cardinality(fiscal[c] \cup framed[c])
  /\ \A r \in Request :
       request[r].at \in {"idle", "known", "fetch", "store", "answered"}
  /\ incr.at \in {"next", "store"}
  /\ incr.todo \subseteq Company
  /\ frames.at \in {"off", "store"}

Done == {r \in Request : request[r].at = "answered"}

\* The rows answer the question as of a moment of the request; a company in
\* the cache may be answered as of its last ingestion, which is intended
Faithful(x) == \E n \in x.least..Len(sec[x.cik]) :
  /\ Of(x.cik, x.ask) \cap (1..n) \subseteq x.answer
  /\ x.ask # History => x.answer \subseteq 1..n

\* The two known exceptions: a history of a company of which the store has
\* frames alone, and an ingestion between the two queries of a statement
SeededByFrames(x) == x.ask = History /\ x.exempt
IngestedMeanwhile(x) ==
  /\ x.ask # History /\ x.exempt /\ x.answer = {} /\ fiscal[x.cik] # {}

(* An answer of the API is complete as of some moment of the request, or   *)
(* as of the company's last ingestion, whatever the other requests, the    *)
(* incremental and the frames backfill commit meanwhile.                   *)
AnswersFaithful ==
  \A r \in Done : \/ Faithful(request[r])
                 \/ SeededByFrames(request[r]) \/ IngestedMeanwhile(request[r])

(* What one answer has shown of a company, no later answer to the same     *)
(* question lacks: a slow request cannot write an older history over a     *)
(* newer one, and no source erases the identity columns of the other.      *)
NeverGoesBack == \A r \in Done : request[r].owed \subseteq request[r].answer

(* A company is ingested whole: its fiscal rows are all of its filings up  *)
(* to some filing, in whatever order writers commit.                       *)
WholeHistories ==
  \A c \in Company : \E n \in 0..Len(sec[c]) : fiscal[c] = 1..n

(* An incremental that ran to its end has stored what its day's index      *)
(* named, except the companies whose own fetch failed.                     *)
IndexIngested ==
  incr.todo = {} =>
    \A c \in Company : 1..incr.due[c] \subseteq fiscal[c]

(* A company once found by the screening of a period stays there: a        *)
(* companyfacts write does not erase the frame.                            *)
ScreeningKeeps ==
  [][\A c \in Company : InScreening(c) \subseteq InScreening(c)']_vars
=============================================================================

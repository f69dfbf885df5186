---------------------------- MODULE PeerAnalytics ----------------------------
(***************************************************************************)
(* The weekly chain of src/deploy/scripts/run-peer-analytics.sh, which     *)
(* derives the peer tables the API serves:                                 *)
(*                                                                         *)
(*    metrics_backfill   raw_facts      -> metric_values                   *)
(*    peer_distribution  metric_values  -> metric_distributions            *)
(*    peer_ranks         metric_values  -> metric_ranks                    *)
(*                                                                         *)
(* The chain is not one transaction: each company's values, each DELETE    *)
(* and each bulk insert commits by itself, while the daily incremental     *)
(* goes on writing raw_facts.  A step may fail, the machine may stop, and  *)
(* systemd kills the run at TimeoutStartSec; the operator may then resume  *)
(* by hand with --start-after.                                             *)
(*                                                                         *)
(* One period and one metric stand for all.  A company's facts, and the    *)
(* value computed from them, are the number of filings they reflect.       *)
(***************************************************************************)
EXTENDS Integers, FiniteSets

CONSTANTS Companies,    \* CIKs
          Groups,       \* SIC prefixes
          Sic,          \* a company's group; NoGroup when its profile has no SIC
          NoGroup,
          NA,           \* <<company, filings>> whose metric comes out N/A
          MinSize,      \* secfin_peer_min_size
          Timeout,      \* TimeoutStartSec, in companies materialized
          MaxFilings,   \* bound: filings per behaviour
          MaxFaults     \* bound: failures and stops per behaviour

ASSUME PeerAssumption ==
  /\ Companies \subseteq Nat \ {0} /\ IsFiniteSet(Companies)
  /\ NoGroup \notin Groups
  /\ Sic \in [Companies -> Groups \cup {NoGroup}]
  /\ MinSize \in Nat \ {0}
  /\ Timeout \in Nat /\ MaxFilings \in Nat /\ MaxFaults \in Nat

VARIABLES
  facts,     \* raw_facts
  value,     \* metric_values
  table,     \* metric_distributions by group, metric_ranks by company
  step,      \* the step of the script that runs
  at,        \* how far the running step is
  todo,      \* the CIKs its walk has still to visit
  hand,      \* the company whose rows are computed and not yet written
  held,      \* the filings those rows reflect
  rows,      \* the aggregate computed and not yet written
  elapsed,   \* companies materialized since systemd started the unit
  byHand,    \* the operator resumed this run: no TimeoutStartSec
  status,    \* the last line of STATUS_FILE
  frontier,  \* the highest CIK an unfinished walk has written, 0 when there is none
  base,      \* history: raw_facts when that walk first began
  wholes,    \* history: metric_values at the end of each completed walk
  filings, faults

job    == <<step, at, todo, hand, held, rows, elapsed, byHand, status>>
walk   == <<frontier, base, wholes>>
vars   == <<facts, value, table, job, walk, filings, faults>>

Aggregates == {"peer_distribution", "peer_ranks"}
Steps == {"idle", "build", "metrics_backfill"} \cup Aggregates

None == 0
Empty == [k \in {} |-> None]     \* a table without rows

----------------------------------------------------------------------------
(* What the steps compute.                                                 *)

\* all_ciks; "has rows" would not tell a CIK this run finished from an older one
AllCiksWithoutRows == {c \in Companies : facts[c] > 0 /\ value[c] = 0}
AllCiks == {c \in Companies : facts[c] > 0}

\* The walk is sorted and ascending.
NextCikUnsorted(S) == S
NextCik(S) == {c \in S : \A d \in S : c <= d}

Rankable(v, c) == v[c] > 0 /\ <<c, v[c]>> \notin NA

\* base: the companies of a group whose value may enter it
Peers(v, g) == {c \in Companies : Sic[c] = g /\ Rankable(v, c)}

\* What a row of either table says is a function of its group's values.
Values(v, g) == [c \in Peers(v, g) |-> v[c]]

Distributions(v) ==
  [g \in {h \in Groups : Cardinality(Peers(v, h)) >= MinSize} |-> Values(v, g)]

RankedAbove(v) ==
  {c \in Companies : Sic[c] \in Groups /\ c \in Peers(v, Sic[c])
                     /\ Cardinality(Peers(v, Sic[c])) > MinSize}
Ranked(v) ==
  {c \in Companies : Sic[c] \in Groups /\ c \in Peers(v, Sic[c])
                     /\ Cardinality(Peers(v, Sic[c])) >= MinSize}

Ranks(v) == [c \in Ranked(v) |-> Values(v, Sic[c])]

Aggregate(s, v) == IF s = "peer_distribution" THEN Distributions(v) ELSE Ranks(v)

\* bulk_upsert: the new rows replace those with their keys
Upserted(t, new) ==
  [k \in DOMAIN t \cup DOMAIN new |-> IF k \in DOMAIN new THEN new[k] ELSE t[k]]

\* run_step ... || exit $?: where the script is after a step that failed
AfterFailureNext(s) ==
  CASE s = "metrics_backfill" -> "peer_distribution"
    [] s = "peer_distribution" -> "peer_ranks"
    [] OTHER -> "idle"
AfterFailure(s) == "idle"

----------------------------------------------------------------------------
Init ==
  /\ facts = [c \in Companies |-> 0] /\ value = [c \in Companies |-> 0]
  /\ table = [s \in Aggregates |-> Empty]
  /\ step = "idle" /\ at = "start" /\ todo = {} /\ hand = None /\ held = 0 /\ rows = Empty
  /\ elapsed = 0 /\ byHand = FALSE /\ status = "none"
  /\ frontier = 0 /\ base = facts /\ wholes = {}
  /\ filings = 0 /\ faults = 0

(* Another writer commits a company's new facts: the daily incremental. *)
Filing ==
  /\ filings < MaxFilings /\ filings' = filings + 1
  /\ \E c \in Companies : facts' = [facts EXCEPT ![c] = @ + 1]
  /\ UNCHANGED <<value, table, job, walk, faults>>

InTime == byHand \/ elapsed < Timeout

Goto(s) == step' = s /\ at' = "start" /\ hand' = None /\ held' = 0 /\ rows' = Empty

(* Sunday: the script starts, and builds its image. *)
TimerFires ==
  /\ step = "idle"
  /\ Goto("build") /\ elapsed' = 0 /\ byHand' = FALSE
  /\ UNCHANGED <<facts, value, table, todo, status, walk, filings, faults>>

Build ==
  /\ step = "build" /\ InTime
  /\ Goto("metrics_backfill")
  /\ todo' = AllCiks /\ base' = facts /\ frontier' = 0
  /\ UNCHANGED <<facts, value, table, elapsed, byHand, status, wholes, filings, faults>>

(* The operator resumes an unfinished walk, with a CIK taken from the data *)
(* or any lower one, and goes on with the steps that follow.               *)
ResumeByHand ==
  /\ step = "idle" /\ frontier > 0
  /\ \E startAfter \in 1..frontier : todo' = {c \in AllCiks : c > startAfter}
  /\ Goto("metrics_backfill") /\ byHand' = TRUE
  /\ UNCHANGED <<facts, value, table, elapsed, status, walk, filings, faults>>

----------------------------------------------------------------------------
(* run_metrics_backfill: for each CIK, _rows_for_cik and bulk_upsert.      *)

RowsForCik ==
  /\ step = "metrics_backfill" /\ at = "start" /\ InTime
  /\ \E c \in NextCik(todo) :
       hand' = c /\ held' = facts[c] /\ todo' = todo \ {c}
  /\ at' = "computed" /\ elapsed' = IF byHand THEN elapsed ELSE elapsed + 1
  /\ UNCHANGED <<facts, value, table, step, rows, byHand, status, walk, filings, faults>>

WriteRows ==
  /\ step = "metrics_backfill" /\ at = "computed"
  /\ value' = [value EXCEPT ![hand] = held]
  /\ frontier' = IF hand > frontier THEN hand ELSE frontier
  /\ Goto("metrics_backfill")
  /\ UNCHANGED <<facts, table, todo, elapsed, byHand, status, base, wholes, filings, faults>>

WalkEnds ==
  /\ step = "metrics_backfill" /\ at = "start" /\ todo = {}
  /\ wholes' = wholes \cup {value} /\ frontier' = 0
  /\ status' = "ok"
  /\ Goto("peer_distribution")
  /\ UNCHANGED <<facts, value, table, todo, elapsed, byHand, base, filings, faults>>

----------------------------------------------------------------------------
(* run_peer_distribution and run_peer_ranks: compute, clear, bulk_upsert.  *)

Compute ==
  /\ step \in Aggregates /\ at = "start" /\ InTime
  /\ rows' = Aggregate(step, value) /\ at' = "computed"
  /\ UNCHANGED <<facts, value, table, step, todo, hand, held, elapsed, byHand, status,
                 walk, filings, faults>>

Clear ==
  /\ step \in Aggregates /\ at = "computed"
  /\ table' = [table EXCEPT ![step] = Empty] /\ at' = "cleared"
  /\ UNCHANGED <<facts, value, step, todo, hand, held, rows, elapsed, byHand, status,
                 walk, filings, faults>>

\* After the last step, "peer analytics chain complete".
BulkUpsert ==
  /\ step \in Aggregates /\ at = "cleared"
  /\ table' = [table EXCEPT ![step] = Upserted(@, rows)]
  /\ IF step = "peer_ranks"
     THEN Goto("idle") /\ status' = "complete"
     ELSE Goto("peer_ranks") /\ status' = "ok"
  /\ UNCHANGED <<facts, value, todo, elapsed, byHand, walk, filings, faults>>

----------------------------------------------------------------------------
Fault == faults < MaxFaults /\ faults' = faults + 1

(* The running step exits with an error, its open transaction rolled back. *)
StepFails ==
  /\ step # "idle" /\ Fault
  /\ status' = "fail"
  /\ Goto(AfterFailure(step)) /\ todo' = {}
  /\ UNCHANGED <<facts, value, table, elapsed, byHand, walk, filings>>

(* The machine stops: nothing writes a status line. *)
Stopped ==
  /\ step # "idle" /\ Fault
  /\ Goto("idle") /\ todo' = {}
  /\ UNCHANGED <<facts, value, table, elapsed, byHand, status, walk, filings>>

(* The run is wedged: it makes no progress until systemd's patience ends. *)
Wedged ==
  /\ step # "idle" /\ at = "start" /\ InTime /\ ~byHand /\ Fault
  /\ elapsed' = Timeout
  /\ UNCHANGED <<facts, value, table, step, at, todo, hand, held, rows, byHand, status,
                 walk, filings>>

(* TimeoutStartSec has passed: systemd kills the script, and no status     *)
(* line says so.                                                           *)
TimedOut ==
  /\ step # "idle" /\ ~InTime
  /\ Goto("idle") /\ todo' = {}
  /\ UNCHANGED <<facts, value, table, elapsed, byHand, status, walk, filings, faults>>

----------------------------------------------------------------------------
ChainStep ==
  \/ Build \/ RowsForCik \/ WriteRows \/ WalkEnds \/ Compute \/ Clear \/ BulkUpsert

Next ==
  \/ Filing \/ TimerFires \/ ResumeByHand \/ ChainStep
  \/ StepFails \/ Stopped \/ Wedged \/ TimedOut

(* The timer is persistent, so a Sunday always comes, and the script runs  *)
(* on unless it is wedged; systemd kills it in time.                       *)
Fairness == WF_vars(TimerFires) /\ WF_vars(ChainStep) /\ WF_vars(TimedOut)

Spec == Init /\ [][Next]_vars /\ Fairness

----------------------------------------------------------------------------
TypeOK ==
  /\ facts \in [Companies -> Nat] /\ value \in [Companies -> Nat]
  /\ DOMAIN table = Aggregates
  /\ DOMAIN table["peer_distribution"] \subseteq Groups
  /\ DOMAIN table["peer_ranks"] \subseteq Companies
  /\ step \in Steps /\ at \in {"start", "computed", "cleared"}
  /\ todo \subseteq Companies /\ hand \in Companies \cup {None} /\ held \in Nat
  /\ elapsed \in 0..Timeout /\ byHand \in BOOLEAN
  /\ status \in {"none", "ok", "complete", "fail"}
  /\ frontier \in Companies \cup {0} /\ base \in [Companies -> Nat]
  /\ wholes \subseteq [Companies -> Nat]
  /\ filings \in 0..MaxFilings /\ faults \in 0..MaxFaults

(* Whatever the API is served, at any moment and after any failure, is     *)
(* empty or the aggregate of one completed walk: never of "a half-written  *)
(* metric_values" (run-peer-analytics.sh:11-13), never a mix of two.       *)
PublishedFromWholeWalk ==
  \A s \in Aggregates :
    table[s] = Empty \/ \E v \in wholes : table[s] = Aggregate(s, v)

(* When the status file ends with "chain complete", a metric that is       *)
(* rankable is distribution-plottable and vice versa                       *)
(* (peer_distribution.py:16-17), both from the same values.                *)
CompleteMeansConsistent ==
  LET dist  == table["peer_distribution"]
      ranks == table["peer_ranks"]
  IN  status = "complete" =>
        /\ \A c \in DOMAIN ranks :
             Sic[c] \in DOMAIN dist /\ ranks[c] = dist[Sic[c]]
        /\ \A g \in DOMAIN dist : DOMAIN dist[g] \subseteq DOMAIN ranks

(* "One CIK stands in for everything below here is done": a walk that      *)
(* ended, resumed by hand or not, has brought every company's value to the *)
(* facts there were when the walk first began, or newer.                   *)
WalkCoversAll ==
  step \in Aggregates => \A c \in Companies : value[c] >= base[c]

(* "The daily incremental keeps raw_facts current; this makes the derived  *)
(* tables catch up" (secfin-peer-analytics.timer:11-12) holds only while a *)
(* walk over all companies that file fits in TimeoutStartSec: then,        *)
(* whenever filings cease, over failures, stops and wedged runs, the       *)
(* tables come to be the aggregates of the facts as they then are.  With   *)
(* the deployed numbers, a kill after 8 hours of a walk of 16              *)
(* (secfin-peer-analytics.service:11-15), it does not fit: the next Sunday *)
(* starts from the first company again, and the tables stay as they are    *)
(* until the operator resumes the walk by hand.                            *)
WalkFits == Cardinality({c \in Companies : facts[c] > 0}) < Timeout
CatchUpWithinTimeout ==
  []WalkFits => []<>(\A s \in Aggregates : table[s] = Aggregate(s, facts))
=============================================================================

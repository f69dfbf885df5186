------------------------- MODULE ScheduledJobsProofs -------------------------
(***************************************************************************)
(* Proofs about the two jobs the timers start: the weekly peer-analytics   *)
(* chain, for any companies, groups, sizes, timeout and number of failures *)
(* (the shapes of its state, and the three safety properties of what it    *)
(* publishes); and the backups, for any retention, sizes and number of     *)
(* faults (the last good restore point is never lost, and no restored      *)
(* database meets a foreign -wal).                                         *)
(***************************************************************************)
EXTENDS PeerAnalytics, Backup, SequenceTheorems, TLAPS

----------------------------------------------------------------------------
(* The aggregates.                                                         *)

(* An aggregate's rows are of known groups, or of known companies. *)
LEMMA AggregateKeys ==
  ASSUME NEW v
  PROVE  /\ DOMAIN Aggregate("peer_distribution", v) \subseteq Groups
         /\ DOMAIN Aggregate("peer_ranks", v) \subseteq Companies
BY DEF Aggregate, Distributions, Ranks, Ranked

(* Inserting an aggregate into a cleared table leaves that aggregate. *)
LEMMA UpsertIntoEmpty ==
  ASSUME NEW s \in Aggregates, NEW v
  PROVE  Upserted(Empty, Aggregate(s, v)) = Aggregate(s, v)
<1>1. DOMAIN Empty = {}
  BY DEF Empty
<1>2. CASE s = "peer_distribution"
  BY <1>1, <1>2 DEF Upserted, Aggregate, Distributions
<1>3. CASE s # "peer_distribution"
  BY <1>1, <1>3 DEF Upserted, Aggregate, Ranks
<1> QED BY <1>2, <1>3

(* Two aggregates of the same values agree: the rule that a metric is      *)
(* rankable exactly when its group has a distribution.                     *)
LEMMA AggregatesAgree ==
  ASSUME NEW v
  PROVE  /\ \A c \in DOMAIN Ranks(v) :
              /\ Sic[c] \in DOMAIN Distributions(v)
              /\ Ranks(v)[c] = Distributions(v)[Sic[c]]
         /\ \A g \in DOMAIN Distributions(v) :
              DOMAIN Distributions(v)[g] \subseteq DOMAIN Ranks(v)
<1>1. ASSUME NEW c \in Ranked(v)
      PROVE  Sic[c] \in DOMAIN Distributions(v) /\ Ranks(v)[c] = Distributions(v)[Sic[c]]
  BY DEF Ranks, Ranked, Distributions
<1>2. ASSUME NEW g \in DOMAIN Distributions(v)
      PROVE  DOMAIN Distributions(v)[g] \subseteq Ranked(v)
  <2>1. g \in Groups /\ Cardinality(Peers(v, g)) >= MinSize
    BY DEF Distributions
  <2>2. DOMAIN Distributions(v)[g] = Peers(v, g)
    BY DEF Distributions, Values
  <2>3. \A c \in Peers(v, g) : c \in Companies /\ Sic[c] = g
    BY DEF Peers
  <2> QED BY <2>1, <2>2, <2>3 DEF Ranked
<1> QED BY <1>1, <1>2 DEF Ranks

----------------------------------------------------------------------------
(* The inductive invariant.                                                *)

\* How far a step may be; a company in hand is one of the walk's.
Places ==
  /\ at = "cleared" => step \in Aggregates
  /\ at = "computed" => step \in Aggregates \cup {"metrics_backfill"}
  /\ step = "metrics_backfill" /\ at = "computed" => hand \in Companies

\* An aggregate step works on the values of a completed walk.
Working ==
  step \in Aggregates =>
    /\ value \in wholes
    /\ status # "complete"
    /\ at # "start" => rows = Aggregate(step, value)
    /\ at = "cleared" => table[step] = Empty
    /\ step = "peer_ranks" =>
         table["peer_distribution"] = Aggregate("peer_distribution", value)

\* "chain complete": both tables come from one walk.
OneWalk ==
  status = "complete" => \E v \in wholes : \A s \in Aggregates : table[s] = Aggregate(s, v)

\* A company's value is as new as its facts were when the walk first began.
Fresh(c) == value[c] >= base[c]

\* The walk has passed what is neither to do nor in hand, and what is at or
\* below the frontier.
Walking ==
  /\ \A c \in Companies : facts[c] >= base[c]
  /\ \A c \in Companies : c <= frontier => Fresh(c)
  /\ step = "metrics_backfill" =>
       \A c \in Companies : c \in todo \/ (at = "computed" /\ c = hand) \/ Fresh(c)
  /\ step = "metrics_backfill" /\ at = "computed" =>
       held >= base[hand] /\ \A c \in todo : hand < c

IInv ==
  TypeOK /\ Places /\ PublishedFromWholeWalk /\ Working /\ OneWalk /\ Walking /\ WalkCoversAll

----------------------------------------------------------------------------
LEMMA InitIInv == Init => IInv
<1> SUFFICES ASSUME Init PROVE IInv
  OBVIOUS
<1> USE PeerAssumption DEF Init
<1>1. TypeOK
  <2>1. DOMAIN Empty = {} /\ "peer_ranks" \in Aggregates /\ "peer_distribution" \in Aggregates
    BY DEF Empty, Aggregates
  <2>2. DOMAIN table = Aggregates /\ \A s \in Aggregates : DOMAIN table[s] = {}
    BY <2>1
  <2>3. elapsed \in 0..Timeout /\ filings \in 0..MaxFilings /\ faults \in 0..MaxFaults
    OBVIOUS
  <2>4. facts \in [Companies -> Nat] /\ value \in [Companies -> Nat] /\ base \in [Companies -> Nat]
    OBVIOUS
  <2> QED BY <2>1, <2>2, <2>3, <2>4 DEF TypeOK, Steps, None
<1>2. Places /\ PublishedFromWholeWalk /\ Working /\ OneWalk /\ WalkCoversAll
  BY DEF Places, PublishedFromWholeWalk, Working, OneWalk, WalkCoversAll, Aggregates
<1>3. Walking
  BY DEF Walking, Fresh
<1> QED BY <1>1, <1>2, <1>3 DEF IInv

(* The shapes of the state survive every step. *)
LEMMA NextTypeOK == IInv /\ [Next]_vars => TypeOK'
<1> SUFFICES ASSUME IInv, [Next]_vars PROVE TypeOK'
  OBVIOUS
<1> USE PeerAssumption DEF IInv, TypeOK, Steps, Goto, None
<1>1. CASE Filing
  BY <1>1 DEF Filing, job, walk
<1>2. CASE TimerFires
  <2>1. elapsed' \in 0..Timeout
    BY <1>2 DEF TimerFires
  <2> QED BY <1>2, <2>1 DEF TimerFires, walk
<1>3. CASE Build
  BY <1>3 DEF Build, AllCiks
<1>4. CASE ResumeByHand
  BY <1>4 DEF ResumeByHand, AllCiks, walk
<1>5. CASE RowsForCik
  BY <1>5 DEF RowsForCik, NextCik, InTime, walk
<1>6. CASE WriteRows
  BY <1>6 DEF WriteRows, Places
<1>7. CASE WalkEnds
  BY <1>7 DEF WalkEnds, Aggregates
<1>8. CASE Compute
  BY <1>8 DEF Compute, walk
<1>9. CASE Clear
  BY <1>9 DEF Clear, Empty, Aggregates, walk
<1>10. CASE BulkUpsert
  <2>1. table' = [table EXCEPT ![step] = Aggregate(step, value)]
    BY <1>10, UpsertIntoEmpty DEF BulkUpsert, Working
  <2>2. /\ DOMAIN table' = Aggregates
        /\ DOMAIN table'["peer_distribution"] \subseteq Groups
        /\ DOMAIN table'["peer_ranks"] \subseteq Companies
    BY <2>1, AggregateKeys, <1>10 DEF BulkUpsert, Aggregates
  <2> QED BY <1>10, <2>2 DEF BulkUpsert, Aggregates, walk
<1>11. CASE StepFails
  BY <1>11 DEF StepFails, Fault, AfterFailure, walk
<1>12. CASE Stopped
  BY <1>12 DEF Stopped, Fault, walk
<1>13. CASE Wedged
  BY <1>13 DEF Wedged, Fault, walk
<1>14. CASE TimedOut
  BY <1>14 DEF TimedOut, walk
<1>15. CASE UNCHANGED vars
  BY <1>15 DEF vars, job, walk
<1> QED
  BY <1>1, <1>2, <1>3, <1>4, <1>5, <1>6, <1>7, <1>8, <1>9, <1>10, <1>11, <1>12, <1>13,
     <1>14, <1>15 DEF Next, ChainStep

(* A step is where it may be, with a company of the walk in hand. *)
LEMMA NextPlaces == IInv /\ [Next]_vars => Places'
<1> SUFFICES ASSUME IInv, [Next]_vars PROVE Places'
  OBVIOUS
<1> USE DEF IInv, Places, Goto
<1>1. CASE RowsForCik
  BY <1>1 DEF RowsForCik, NextCik, TypeOK
<1>2. CASE WriteRows \/ WalkEnds \/ Compute \/ Clear \/ BulkUpsert
  BY <1>2 DEF WriteRows, WalkEnds, Compute, Clear, BulkUpsert, Aggregates
<1>3. CASE TimerFires \/ Build \/ ResumeByHand
  BY <1>3 DEF TimerFires, Build, ResumeByHand
<1>4. CASE StepFails \/ Stopped \/ Wedged \/ TimedOut
  BY <1>4 DEF StepFails, Stopped, Wedged, TimedOut, AfterFailure
<1>5. CASE Filing \/ UNCHANGED vars
  BY <1>5 DEF Filing, vars, job
<1> QED BY <1>1, <1>2, <1>3, <1>4, <1>5 DEF Next, ChainStep

(* The steps that change a table, and those that change nothing published. *)
LEMMA TableSteps ==
  ASSUME IInv, [Next]_vars
  PROVE  \/ /\ step \in Aggregates /\ at = "computed" /\ Clear
            /\ table' = [table EXCEPT ![step] = Empty]
         \/ /\ step \in Aggregates /\ at = "cleared" /\ BulkUpsert
            /\ table' = [table EXCEPT ![step] = Aggregate(step, value)]
         \/ table' = table
<1>1. CASE Clear
  BY <1>1 DEF Clear
<1>2. CASE BulkUpsert
  BY <1>2, UpsertIntoEmpty DEF BulkUpsert, IInv, Working
<1>3. CASE ~Clear /\ ~BulkUpsert
  BY <1>3
  DEF Next, ChainStep, vars, Filing, TimerFires, Build, ResumeByHand, RowsForCik, WriteRows,
      WalkEnds, Compute, StepFails, Stopped, Wedged, TimedOut
<1> QED BY <1>1, <1>2, <1>3

(* The values change at the walk only, and the completed walks only grow. *)
LEMMA ValueSteps ==
  ASSUME IInv, [Next]_vars
  PROVE  /\ wholes \subseteq wholes'
         /\ value' = value \/ (step = "metrics_backfill" /\ step' = "metrics_backfill")
<1>1. CASE WriteRows \/ WalkEnds
  BY <1>1 DEF WriteRows, WalkEnds, Goto
<1>2. CASE ~WriteRows /\ ~WalkEnds
  BY <1>2
  DEF Next, ChainStep, vars, walk, Filing, TimerFires, Build, ResumeByHand, RowsForCik,
      Compute, Clear, BulkUpsert, StepFails, Stopped, Wedged, TimedOut
<1> QED BY <1>1, <1>2

(* What is published stays the aggregate of a completed walk. *)
LEMMA NextPublished == IInv /\ [Next]_vars => PublishedFromWholeWalk'
<1> SUFFICES ASSUME IInv, [Next]_vars,
                    NEW s \in Aggregates, table'[s] # Empty
             PROVE  \E v \in wholes' : table'[s] = Aggregate(s, v)
  BY DEF PublishedFromWholeWalk
<1>1. wholes \subseteq wholes'
  BY ValueSteps
<1>2. DOMAIN table = Aggregates
  BY DEF IInv, TypeOK
<1>3. CASE table' = table
  BY <1>1, <1>3 DEF IInv, PublishedFromWholeWalk
<1>4. CASE step \in Aggregates /\ table' = [table EXCEPT ![step] = Empty]
  BY <1>1, <1>2, <1>4 DEF IInv, PublishedFromWholeWalk
<1>5. CASE /\ step \in Aggregates
           /\ table' = [table EXCEPT ![step] = Aggregate(step, value)]
  BY <1>1, <1>2, <1>5 DEF IInv, PublishedFromWholeWalk, Working
<1> QED BY <1>3, <1>4, <1>5, TableSteps

(* An aggregate step goes on working on the values of a completed walk. *)
LEMMA NextWorking == IInv /\ [Next]_vars => Working'
<1> SUFFICES ASSUME IInv, [Next]_vars, (step \in Aggregates)' PROVE Working'
  BY DEF Working
<1> USE DEF IInv, Working, Goto, Aggregates
<1>1. CASE Filing \/ UNCHANGED vars
  BY <1>1 DEF Filing, vars, job, walk
<1>2. CASE WalkEnds
  BY <1>2 DEF WalkEnds
<1>3. CASE Compute
  BY <1>3 DEF Compute, walk
<1>4. CASE Clear
  BY <1>4 DEF Clear, walk, TypeOK
<1>5. CASE BulkUpsert
  <2>1. step = "peer_distribution" /\ step' = "peer_ranks"
    BY <1>5 DEF BulkUpsert
  <2>2. table' = [table EXCEPT ![step] = Aggregate(step, value)]
    BY <1>5, UpsertIntoEmpty DEF BulkUpsert
  <2>3. table'["peer_distribution"] = Aggregate("peer_distribution", value)
    BY <2>1, <2>2 DEF TypeOK
  <2> QED BY <1>5, <2>1, <2>3 DEF BulkUpsert, walk
<1>6. CASE Wedged
  BY <1>6 DEF Wedged, walk
<1> QED
  BY <1>1, <1>2, <1>3, <1>4, <1>5, <1>6
  DEF Next, ChainStep, TimerFires, Build, ResumeByHand, RowsForCik, WriteRows, StepFails,
      Stopped, TimedOut, AfterFailure

(* The two tables of a completed chain come from one walk. *)
LEMMA NextOneWalk == IInv /\ [Next]_vars => OneWalk'
<1> SUFFICES ASSUME IInv, [Next]_vars, status' = "complete" PROVE OneWalk'
  BY DEF OneWalk
<1>1. CASE BulkUpsert
  <2>1. step = "peer_ranks" /\ value \in wholes /\ wholes' = wholes
    BY <1>1 DEF BulkUpsert, IInv, Working, walk, Goto
  <2>2. table' = [table EXCEPT !["peer_ranks"] = Aggregate("peer_ranks", value)]
    BY <1>1, <2>1, UpsertIntoEmpty DEF BulkUpsert, IInv, Working
  <2>3. table["peer_distribution"] = Aggregate("peer_distribution", value)
    BY <2>1 DEF IInv, Working, Aggregates
  <2>4. \A s \in Aggregates : table'[s] = Aggregate(s, value)
    BY <2>2, <2>3 DEF Aggregates, IInv, TypeOK
  <2> QED BY <2>1, <2>4 DEF OneWalk
<1>2. CASE ~BulkUpsert
  <2>1. status = "complete" /\ step \notin Aggregates
    BY <1>2
    DEF IInv, Working, Next, ChainStep, vars, job, Filing, TimerFires, Build, ResumeByHand,
        RowsForCik, WriteRows, WalkEnds, Compute, Clear, StepFails, Stopped, Wedged, TimedOut
  <2>2. table' = table
    BY <2>1, TableSteps
  <2> QED BY <2>1, <2>2, ValueSteps DEF IInv, OneWalk
<1> QED BY <1>1, <1>2

(* The walk leaves no company behind, resumed by hand or not. *)
LEMMA NextWalking == IInv /\ [Next]_vars => Walking'
<1> SUFFICES ASSUME IInv, [Next]_vars PROVE Walking'
  OBVIOUS
<1>0. Companies \subseteq Nat \ {0}
  BY PeerAssumption
<1> USE <1>0 DEF IInv, TypeOK, Walking, Fresh, Goto, None
<1>1. CASE Filing
  BY <1>1 DEF Filing, job, walk
<1>2. CASE TimerFires
  BY <1>2 DEF TimerFires, walk
<1>3. CASE Build
  BY <1>3 DEF Build, AllCiks
<1>4. CASE ResumeByHand
  BY <1>4 DEF ResumeByHand, AllCiks, walk
<1>5. CASE RowsForCik
  BY <1>5 DEF RowsForCik, NextCik, walk
<1>6. CASE WriteRows
  BY <1>6 DEF WriteRows, Places
<1>7. CASE WalkEnds
  BY <1>7 DEF WalkEnds
<1>8. CASE Compute \/ Clear \/ BulkUpsert
  BY <1>8 DEF Compute, Clear, BulkUpsert, Aggregates, walk
<1>9. CASE StepFails \/ Stopped \/ Wedged \/ TimedOut
  BY <1>9 DEF StepFails, Stopped, Wedged, TimedOut, AfterFailure, walk
<1>10. CASE UNCHANGED vars
  BY <1>10 DEF vars, job, walk
<1> QED
  BY <1>1, <1>2, <1>3, <1>4, <1>5, <1>6, <1>7, <1>8, <1>9, <1>10 DEF Next, ChainStep

(* A walk that ended has brought every company's value up to date. *)
LEMMA NextCovers == IInv /\ [Next]_vars => WalkCoversAll'
<1> SUFFICES ASSUME IInv, [Next]_vars, (step \in Aggregates)'
             PROVE  \A c \in Companies : value'[c] >= base'[c]
  BY DEF WalkCoversAll
<1>1. CASE WalkEnds
  BY <1>1 DEF WalkEnds, IInv, Walking, Fresh
<1>2. CASE ~WalkEnds
  BY <1>2
  DEF IInv, WalkCoversAll, Aggregates, Next, ChainStep, vars, job, walk, Goto, Filing, TimerFires,
      Build, ResumeByHand, RowsForCik, WriteRows, Compute, Clear, BulkUpsert, StepFails,
      Stopped, Wedged, TimedOut, AfterFailure
<1> QED BY <1>1, <1>2

----------------------------------------------------------------------------
(* The theorems.                                                           *)

LEMMA Invariance == Spec => []IInv
<1>1. IInv /\ [Next]_vars => IInv'
  BY NextTypeOK, NextPlaces, NextPublished, NextWorking, NextOneWalk, NextWalking, NextCovers
  DEF IInv
<1> QED BY <1>1, InitIInv, PTL DEF Spec

(* The variables always hold values of their shapes. *)
THEOREM TypeCorrect == Spec => []TypeOK
<1>1. IInv => TypeOK
  BY DEF IInv
<1> QED BY <1>1, Invariance, PTL

(* Neither a failure nor a stop at any point makes the API serve an        *)
(* aggregate of half-written values, or a mix of two walks.                *)
THEOREM NeverHalfWritten == Spec => []PublishedFromWholeWalk
<1>1. IInv => PublishedFromWholeWalk
  BY DEF IInv
<1> QED BY <1>1, Invariance, PTL

(* After "chain complete" the ranks and the distributions agree. *)
THEOREM RanksAgree == Spec => []CompleteMeansConsistent
<1>1. ASSUME IInv PROVE CompleteMeansConsistent
  <2>1. SUFFICES ASSUME status = "complete"
                 PROVE  /\ \A c \in DOMAIN table["peer_ranks"] :
                             /\ Sic[c] \in DOMAIN table["peer_distribution"]
                             /\ table["peer_ranks"][c] = table["peer_distribution"][Sic[c]]
                        /\ \A g \in DOMAIN table["peer_distribution"] :
                             DOMAIN table["peer_distribution"][g]
                               \subseteq DOMAIN table["peer_ranks"]
    BY DEF CompleteMeansConsistent
  <2>2. PICK v \in wholes : \A s \in Aggregates : table[s] = Aggregate(s, v)
    BY <1>1, <2>1 DEF IInv, OneWalk
  <2>3. table["peer_distribution"] = Distributions(v) /\ table["peer_ranks"] = Ranks(v)
    BY <2>2 DEF Aggregates, Aggregate
  <2> QED BY <2>3, AggregatesAgree
<1> QED BY <1>1, Invariance, PTL

(* A walk, even one resumed by hand from a CIK of the data, skips no       *)
(* company.                                                                *)
THEOREM NoCompanySkipped == Spec => []WalkCoversAll
<1>1. IInv => WalkCoversAll
  BY DEF IInv
<1> QED BY <1>1, Invariance, PTL

----------------------------------------------------------------------------
(* The backups.                                                            *)

AnyFile == [ver : Int, size : Nat]

\* The shapes the proof needs.
Shape ==
  /\ dated \in Seq(AnyFile) /\ latest \in [ver : Int, size : Nat]
  /\ live \in [ver : Int, size : Nat]
  /\ source \in [ver : Int, size : Nat]
  /\ saved \in [ver : Int, size : Nat]

\* The snapshot of the last completed run is among the first n files.
Saved(n) ==
  saved # Absent => Readable(saved) /\ \E i \in 1..n : dated[i] = saved

\* How far the run's own snapshot is.
Progress ==
  /\ phase # "idle" => dated # <<>>
  /\ phase = "copying" => Saved(Len(dated) - 1)
  /\ phase = "copying" /\ Newest.size = 0 => Newest = Blank
  /\ phase \in {"copied", "pointing"} => Readable(Newest)
  /\ phase = "pruning" => Newest = saved /\ Readable(Newest)
  /\ phase \in {"idle", "copying", "copied", "pointing", "pruning"}

RestoreInv == Shape /\ Saved(Len(dated)) /\ Progress

----------------------------------------------------------------------------
(* What pruning one snapshot leaves: the newest is still the newest. *)
LEMMA PruneKeepsNewest ==
  ASSUME NEW S, NEW s \in Seq(S), NEW k \in Nat \ {0}, Len(s) > k
  PROVE  LET t == RemoveAt(s, Len(s) - k) IN
         /\ t \in Seq(S) /\ Len(t) = Len(s) - 1 /\ t # <<>>
         /\ t[Len(t)] = s[Len(s)]
<1>1. Len(s) \in Nat /\ Len(s) - k \in 1..(Len(s) - 1)
  OBVIOUS
<1> DEFINE a == SubSeq(s, 1, Len(s) - k - 1)
           b == SubSeq(s, Len(s) - k + 1, Len(s))
<1>2. a \in Seq(S) /\ Len(a) = Len(s) - k - 1
  BY <1>1
<1>3. b \in Seq(S) /\ Len(b) = k /\ b[k] = s[Len(s)]
  BY <1>1
<1>4. RemoveAt(s, Len(s) - k) = a \o b
  BY DEF RemoveAt
<1> DEFINE t == a \o b
<1>5. t \in Seq(S)
  BY <1>2, <1>3
<1>6. Len(t) = Len(s) - 1
  BY <1>1, <1>2, <1>3
<1>7. t[Len(s) - 1] = b[(Len(s) - 1) - Len(a)]
  <2>1. \A i \in 1..(Len(a) + Len(b)) : t[i] = IF i <= Len(a) THEN a[i] ELSE b[i - Len(a)]
    BY <1>2, <1>3, ConcatProperties
  <2>2. Len(s) - 1 \in 1..(Len(a) + Len(b)) /\ ~(Len(s) - 1 <= Len(a))
    BY <1>1, <1>2, <1>3
  <2> QED BY <2>1, <2>2
<1>8. (Len(s) - 1) - Len(a) = k
  BY <1>1, <1>2
<1>9. t # <<>>
  <2> HIDE DEF t
  <2>1. Len(t) # 0
    BY <1>1, <1>6
  <2>2. Len(<<>>) = 0
    OBVIOUS
  <2> QED BY <2>1, <2>2, Zenon
<1> HIDE DEF t, a, b
<1>10. t = RemoveAt(s, Len(s) - k)
  BY <1>4 DEF t
<1> QED BY <1>3, <1>5, <1>6, <1>7, <1>8, <1>9, <1>10

(* A list of files that is not empty has a newest one. *)
LEMMA NewestFile ==
  ASSUME NEW s \in Seq(AnyFile), s # <<>>
  PROVE  /\ Len(s) \in Nat \ {0} /\ Len(s) \in 1..Len(s)
         /\ s[Len(s)].ver \in Int /\ s[Len(s)].size \in Nat
         /\ s[Len(s)] = File(s[Len(s)].ver, s[Len(s)].size)
<1>1. Len(s) \in Nat \ {0}
  OBVIOUS
<1>2. Len(s) \in 1..Len(s)
  BY <1>1
<1>3. s[Len(s)] \in [ver : Int, size : Nat]
  BY <1>2, ElementOfSeq DEF AnyFile
<1>4. \A f \in [ver : Int, size : Nat] : f = [ver |-> f.ver, size |-> f.size]
  OBVIOUS
<1> QED BY <1>1, <1>2, <1>3, <1>4 DEF File

(* A file of another size, or of another version. *)
LEMMA OtherFile ==
  ASSUME NEW f \in AnyFile, NEW n \in Nat, NEW v \in Int
  PROVE  /\ [f EXCEPT !.size = n] = File(f.ver, n) /\ [f EXCEPT !.size = n] \in AnyFile
         /\ [f EXCEPT !.ver = v] = File(v, f.size) /\ [f EXCEPT !.ver = v] \in AnyFile
         /\ f.ver \in Int /\ f.size \in Nat
<1>1. f = [ver |-> f.ver, size |-> f.size] /\ f.ver \in Int /\ f.size \in Nat
  BY DEF AnyFile
<1>2. [f EXCEPT !.size = n] = [ver |-> f.ver, size |-> n]
  BY <1>1 DEF AnyFile
<1>3. [f EXCEPT !.ver = v] = [ver |-> v, size |-> f.size]
  BY <1>1 DEF AnyFile
<1> QED BY <1>1, <1>2, <1>3 DEF AnyFile, File

LEMMA InitRestoreInv == BackupInit => RestoreInv
<1> SUFFICES ASSUME BackupInit PROVE RestoreInv
  OBVIOUS
<1>1. Size \in Nat
  BY BackupAssumption
<1>2. Shape
  BY <1>1 DEF BackupInit, Shape, AnyFile, File, Absent, Blank
<1> QED BY <1>2 DEF BackupInit, RestoreInv, Saved, Progress

(* The shapes survive every step. *)
LEMMA NextShape == RestoreInv /\ [BackupNext]_backupVars => Shape'
<1> SUFFICES ASSUME RestoreInv, [BackupNext]_backupVars PROVE Shape'
  OBVIOUS
<1>0. Size \in Nat /\ Keep \in Nat
  BY BackupAssumption
<1> USE <1>0 DEF RestoreInv, Shape, AnyFile, File
<1>1. CASE BackupStart
  <2>1. Blank \in AnyFile
    BY DEF Blank
  <2> QED BY <1>1, <2>1 DEF BackupStart, volume
<1>2. CASE CopyPages
  <2> DEFINE f == IF Newest = Blank THEN File(live.ver, 0) ELSE Newest
  <2>1. Len(dated) \in 1..Len(dated) /\ Newest.ver \in Int /\ Newest.size \in Nat
        /\ Newest = File(Newest.ver, Newest.size)
    BY <1>2, NewestFile DEF CopyPages, Progress, Newest
  <2>2. f \in AnyFile
    BY <2>1
  <2> HIDE DEF f
  <2>3. Grown(f) = [f EXCEPT !.size = f.size + 1] /\ f.size + 1 \in Nat
    BY <2>2 DEF Grown
  <2>4. Grown(f) \in AnyFile
    <3> HIDE DEF AnyFile
    <3>1. 0 \in Int
      OBVIOUS
    <3>2. [f EXCEPT !.size = f.size + 1] \in AnyFile
      BY <2>2, <2>3, <3>1, OtherFile, Zenon
    <3> QED BY <2>3, <3>2
  <2>5. dated' = [dated EXCEPT ![Len(dated)] = Grown(f)]
    BY <1>2 DEF CopyPages, f
  <2>6. dated' \in Seq(AnyFile)
    BY <2>1, <2>4, <2>5, ExceptSeq
  <2> QED BY <1>2, <2>6 DEF CopyPages, volume
<1>3. CASE TruncateLatest \/ FillEnd
  <2>1. Newest \in AnyFile
    <3>1. dated # <<>>
      BY <1>3 DEF TruncateLatest, FillEnd, Progress
    <3>2. Newest = File(Newest.ver, Newest.size) /\ Newest.ver \in Int /\ Newest.size \in Nat
      BY <3>1, NewestFile DEF Newest
    <3> QED BY <3>2
  <2>2. [Newest EXCEPT !.size = 0] \in AnyFile
    <3> HIDE DEF AnyFile
    <3> QED BY <2>1, OtherFile
  <2> QED BY <1>3, <2>1, <2>2 DEF TruncateLatest, FillEnd, volume
<1>4. CASE FillLatest
  <2>1. Grown(latest) = [latest EXCEPT !.size = latest.size + 1]
        /\ latest \in AnyFile /\ latest.size + 1 \in Nat
    BY DEF Grown
  <2>2. Grown(latest) \in AnyFile
    <3> HIDE DEF AnyFile
    <3> QED BY <2>1, OtherFile
  <2> QED BY <1>4, <2>2 DEF FillLatest, volume
<1>5. CASE PruneOne
  <2>1. Keep \in Nat \ {0} /\ Len(dated) > Keep
    BY <1>5 DEF PruneOne, TooMany
  <2>2. RemoveAt(dated, FirstStale) \in Seq(AnyFile)
    BY <2>1, PruneKeepsNewest DEF FirstStale
  <2> QED BY <1>5, <2>2 DEF PruneOne, volume
<1>6. CASE CopyEnd \/ PruneEnd \/ BackupFails \/ BackupKilled \/ UNCHANGED backupVars
  BY <1>6 DEF CopyEnd, PruneEnd, BackupFails, BackupKilled, backupVars, backup, volume
<1>7. CASE Commit
  <2>1. live' = [live EXCEPT !.ver = live.ver + 1]
    BY <1>7 DEF Commit
  <2>2. live' \in AnyFile
    BY <2>1
  <2> QED BY <1>7, <2>2 DEF Commit, backup
<1>8. CASE StackDown \/ StackUp
  BY <1>8 DEF StackDown, StackUp, backup, Blank, Absent
<1>9. CASE RestoreStart
  <2>1. DOMAIN dated = 1..Len(dated) /\ \A i \in 1..Len(dated) : dated[i] \in AnyFile
    BY LenProperties, ElementOfSeq
  <2>2. \A f \in Range(dated) : f \in AnyFile
    BY <2>1 DEF Range
  <2>3. source' \in AnyFile
    BY <1>9, <2>2 DEF RestoreStart
  <2>4. \A v \in 0..live.ver : [live EXCEPT !.ver = v] \in AnyFile
    <3>1. live \in AnyFile /\ \A v \in 0..live.ver : v \in Int
      OBVIOUS
    <3> HIDE DEF AnyFile
    <3> QED BY <3>1, OtherFile
  <2>5. live' \in AnyFile
    BY <1>9, <2>4 DEF RestoreStart
  <2> QED BY <1>9, <2>3, <2>5 DEF RestoreStart, backup
<1>10. CASE RestoreStep
  <2>1. [source EXCEPT !.size = live.size + 1] \in AnyFile
    <3>1. source \in AnyFile /\ live.size + 1 \in Nat
      OBVIOUS
    <3> HIDE DEF AnyFile
    <3> QED BY <3>1, OtherFile
  <2>2. CASE RestoreFill
    BY <2>1, <2>2 DEF RestoreFill, backup
  <2>3. CASE RestoreTruncate \/ RestoreEnd
    BY <2>3 DEF RestoreTruncate, RestoreEnd, backup, Absent, Blank
  <2> QED BY <1>10, <2>2, <2>3 DEF RestoreStep
<1>11. CASE RestoreKilled \/ VolumeLost
  BY <1>11 DEF RestoreKilled, VolumeLost, backup, Absent
<1> QED
  BY <1>1, <1>2, <1>3, <1>4, <1>5, <1>6, <1>7, <1>8, <1>9, <1>10, <1>11 DEF BackupNext, BackupStep

(* The restore point, and the run's progress, survive every step. *)
LEMMA NextSaved == RestoreInv /\ [BackupNext]_backupVars => Saved(Len(dated))' /\ Progress'
<1> SUFFICES ASSUME RestoreInv, [BackupNext]_backupVars PROVE Saved(Len(dated))' /\ Progress'
  OBVIOUS
<1>0. dated \in Seq(AnyFile) /\ Len(dated) \in Nat /\ Size \in Nat \ {0}
  BY BackupAssumption DEF RestoreInv, Shape
<1>1. CASE BackupStart
  <2>1. /\ dated' = Append(dated, Blank) /\ saved' = saved
        /\ phase' = "copying" /\ Len(dated') = Len(dated) + 1
        /\ \A i \in 1..Len(dated) : dated'[i] = dated[i]
        /\ dated'[Len(dated')] = Blank
    BY <1>0, <1>1 DEF BackupStart
  <2>2. Saved(Len(dated) - 0)' /\ Saved(Len(dated) - 1)'
    BY <1>0, <2>1 DEF RestoreInv, Saved
  <2>3. dated' # <<>>
    BY <1>0, <2>1
  <2> QED BY <1>0, <2>1, <2>2, <2>3 DEF Progress, Newest
<1>2. CASE CopyPages
  <2> DEFINE f == IF Newest = Blank THEN File(live.ver, 0) ELSE Newest
  <2>1. /\ dated # <<>> /\ phase = "copying" /\ saved' = saved /\ phase' = phase
        /\ dated' = [dated EXCEPT ![Len(dated)] = Grown(f)]
    BY <1>2 DEF CopyPages, RestoreInv, Progress
  <2>2. /\ Newest.size \in Nat /\ Newest = File(Newest.ver, Newest.size)
    BY <1>0, <2>1, NewestFile DEF Newest
  <2>3. f.size \in Nat /\ Grown(f).size = f.size + 1
    BY <2>2 DEF Grown, File
  <2>4. /\ Len(dated') = Len(dated) /\ dated'[Len(dated)] = Grown(f)
        /\ \A i \in 1..(Len(dated) - 1) : dated'[i] = dated[i]
        /\ dated' # <<>>
    BY <1>0, <2>1
  <2> HIDE DEF f
  <2>5. Saved(Len(dated) - 1)
    BY <2>1 DEF RestoreInv, Progress
  <2>6. saved' # Absent =>
          Readable(saved') /\ \E i \in 1..(Len(dated) - 1) : dated'[i] = saved'
    BY <2>1, <2>4, <2>5 DEF Saved
  <2>7. Saved(Len(dated) - 1)' /\ Saved(Len(dated))'
    BY <1>0, <2>4, <2>6 DEF Saved, Readable, Whole
  <2>8. Newest'.size # 0
    BY <2>3, <2>4 DEF Newest
  <2> QED BY <2>1, <2>4, <2>7, <2>8 DEF Progress
<1>3. CASE CopyEnd
  <2>1. /\ dated' = dated /\ saved' = saved /\ phase' = "copied" /\ dated # <<>>
        /\ Readable(live) /\ Newest.size = live.size
        /\ Newest.size = 0 => Newest = Blank
    BY <1>3 DEF CopyEnd, backup, RestoreInv, Progress
  <2>2. Readable(Newest)
    BY <2>1 DEF Readable, Whole, Blank, File
  <2> QED BY <2>1, <2>2 DEF RestoreInv, Progress, Saved, Newest, Readable, Whole
<1>4. CASE FillEnd
  <2>1. /\ phase = "pointing" /\ dated' = dated /\ saved' = Newest /\ phase' = "pruning"
        /\ dated # <<>> /\ Readable(Newest)
    BY <1>4 DEF FillEnd, RestoreInv, Progress
  <2>2. Len(dated) \in 1..Len(dated)
    BY <1>0, <2>1, NewestFile
  <2> QED BY <2>1, <2>2 DEF Progress, Saved, Newest, Readable, Whole
<1>5. CASE PruneOne
  <2> DEFINE t == RemoveAt(dated, Len(dated) - Keep)
  <2>1. /\ dated' = t /\ Keep \in Nat \ {0} /\ Len(dated) > Keep
        /\ phase = "pruning" /\ phase' = phase /\ saved' = saved
    BY <1>5, BackupAssumption DEF PruneOne, TooMany, FirstStale
  <2>2. t \in Seq(AnyFile) /\ t # <<>> /\ t[Len(t)] = dated[Len(dated)]
    BY <1>0, <2>1, PruneKeepsNewest
  <2>3. dated[Len(dated)] = saved /\ Readable(saved)
    BY <2>1 DEF RestoreInv, Progress, Newest
  <2>4. Len(t) \in 1..Len(t)
    BY <2>2
  <2> QED BY <2>1, <2>2, <2>3, <2>4 DEF Progress, Saved, Newest, Readable, Whole
<1>6. CASE /\ dated' = dated /\ saved' = saved
           /\ phase' \in {phase, "idle"} \/ (phase = "copied" /\ phase' = "pointing")
  BY <1>6 DEF RestoreInv, Progress, Saved, Newest, Readable, Whole
<1>7. ASSUME ~BackupStart, ~CopyPages, ~CopyEnd, ~FillEnd, ~PruneOne
      PROVE  /\ dated' = dated /\ saved' = saved
             /\ phase' \in {phase, "idle"} \/ (phase = "copied" /\ phase' = "pointing")
  BY <1>7
  DEF BackupNext, BackupStep, RestoreStep, backupVars, backup, volume, TruncateLatest, FillLatest, PruneEnd,
      BackupFails, BackupKilled, Commit, StackDown, StackUp, RestoreStart, RestoreTruncate,
      RestoreFill, RestoreEnd, RestoreKilled, VolumeLost
<1> QED BY <1>1, <1>2, <1>3, <1>4, <1>5, <1>6, <1>7

(* No failed run, kill or pruning takes the last good restore point away. *)
THEOREM RestorePointKept == BackupSpec => []RestorePoint
<1>1. RestoreInv => RestorePoint
  BY DEF RestoreInv, Saved, RestorePoint
<1>2. RestoreInv /\ [BackupNext]_backupVars => RestoreInv'
  BY NextShape, NextSaved DEF RestoreInv
<1> QED BY <1>1, <1>2, InitRestoreInv, PTL DEF BackupSpec

----------------------------------------------------------------------------
\* Once the sidecars are dropped there is no -wal until the restore is over.
NoWal == NoForeignWal /\ (restore # "none" => wal = "none" /\ ~up)

(* A restore, wherever it is killed, leaves no -wal for another database's *)
(* pages.                                                                  *)
THEOREM WalNeverForeign == BackupSpec => []NoForeignWal
<1>1. BackupInit => NoWal
  BY DEF BackupInit, NoWal, NoForeignWal
<1>2. ASSUME NoWal, [BackupNext]_backupVars PROVE NoWal'
  BY <1>2
  DEF NoWal, NoForeignWal, BackupNext, BackupStep, RestoreStep, backupVars, volume, backup, Commit, StackDown,
      StackUp, BackupStart, CopyPages, CopyEnd, TruncateLatest, FillLatest, FillEnd, BackupFails,
      PruneOne, PruneEnd, RestoreStart, Sidecars, RestoreTruncate, RestoreFill, RestoreEnd,
      BackupKilled, RestoreKilled,
      VolumeLost
<1>3. NoWal => NoForeignWal
  BY DEF NoWal
<1> QED BY <1>1, <1>2, <1>3, PTL DEF BackupSpec
=============================================================================

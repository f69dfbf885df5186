--------------------------- MODULE BackfillProofs ---------------------------
(***************************************************************************)
(* Proofs about the bulk backfill, for any set of companies, any number of *)
(* parsers, any sizes and any number of faults: the shapes of its state, a *)
(* company is in one place at most, a writer that has finished has         *)
(* accounted for all, a checkpoint is always backed by facts, and the      *)
(* pipeline implements the store that grows by batches.                    *)
(***************************************************************************)
EXTENDS Backfill, FiniteSetTheorems, TLAPS

----------------------------------------------------------------------------
(* Sequences as queues.                                                    *)

(* What an appended queue holds: what it held, and the new item. *)
LEMMA AppendHolds ==
  ASSUME NEW S, NEW s \in Seq(S), NEW e \in S, NEW c
  PROVE  InSeq(Append(s, e), c) <=> InSeq(s, c) \/ c = e
BY DEF InSeq

(* Appending an item the queue does not hold keeps its companies different. *)
LEMMA AppendDistinct ==
  ASSUME NEW S, NEW s \in Seq(S), NEW e \in S, Distinct(s), e # Stop => ~InSeq(s, e)
  PROVE  Distinct(Append(s, e))
BY DEF InSeq, Distinct

(* What is left of a queue of different companies once its head is taken. *)
LEMMA TailHolds ==
  ASSUME NEW S, NEW s \in Seq(S), s # <<>>, Distinct(s), NEW c \in S, c # Stop
  PROVE  InSeq(Tail(s), c) <=> InSeq(s, c) /\ c # Head(s)
<1>1. Len(s) \in Nat \ {0} /\ Len(Tail(s)) = Len(s) - 1 /\ Head(s) = s[1]
  OBVIOUS
<1>2. \A i \in 1..Len(Tail(s)) : Tail(s)[i] = s[i + 1]
  OBVIOUS
<1>3. ASSUME InSeq(Tail(s), c) PROVE InSeq(s, c) /\ c # Head(s)
  <2>1. PICK i \in 1..Len(Tail(s)) : Tail(s)[i] = c
    BY <1>3 DEF InSeq
  <2>2. i + 1 \in 1..Len(s) /\ s[i + 1] = c /\ i + 1 # 1
    BY <1>1, <1>2, <2>1
  <2> QED BY <1>1, <2>2 DEF InSeq, Distinct
<1>4. ASSUME InSeq(s, c), c # Head(s) PROVE InSeq(Tail(s), c)
  <2>1. PICK i \in 1..Len(s) : s[i] = c
    BY <1>4 DEF InSeq
  <2>2. i - 1 \in 1..Len(Tail(s)) /\ Tail(s)[i - 1] = c
    BY <1>1, <1>2, <1>4, <2>1
  <2> QED BY <2>2 DEF InSeq
<1> QED BY <1>3, <1>4

(* Taking the head keeps the companies of a queue different. *)
LEMMA TailDistinct ==
  ASSUME NEW S, NEW s \in Seq(S), s # <<>>, Distinct(s)
  PROVE  Distinct(Tail(s))
BY DEF Distinct

(* The head of a queue is in it. *)
LEMMA HeadHolds ==
  ASSUME NEW S, NEW s \in Seq(S), s # <<>>
  PROVE  Head(s) \in S /\ InSeq(s, Head(s)) /\ Tail(s) \in Seq(S)
<1>1. 1 \in 1..Len(s) /\ s[1] = Head(s)
  OBVIOUS
<1> QED BY <1>1 DEF InSeq

(* A prefix holds nothing its queue does not, and repeats nothing more. *)
LEMMA PrefixHolds ==
  ASSUME NEW S, NEW s \in Seq(S), NEW n \in 0..Len(s)
  PROVE  /\ SubSeq(s, 1, n) \in Seq(S)
         /\ \A c : InSeq(SubSeq(s, 1, n), c) => InSeq(s, c)
         /\ Distinct(s) => Distinct(SubSeq(s, 1, n))
<1>1. /\ SubSeq(s, 1, n) \in Seq(S)
      /\ Len(SubSeq(s, 1, n)) = n
      /\ \A i \in 1..n : SubSeq(s, 1, n)[i] = s[i]
  OBVIOUS
<1> QED BY <1>1 DEF InSeq, Distinct

(* An empty queue holds nothing. *)
LEMMA EmptyHolds == Distinct(<<>>) /\ \A c : ~InSeq(<<>>, c)
BY DEF InSeq, Distinct

----------------------------------------------------------------------------
(* The shapes of the state.                                                *)

\* The parent holds an entry just while it is putting one.
HandFull == (parent = "putting") <=> (hand # Stop)

Shape == TypeOK /\ HandFull

LEMMA InitShape == Init => Shape
<1>1. <<>> \in Seq(Item) /\ Len(<<>>) = 0 /\ Stop \in Item /\ QueueMax \in Nat
  BY BackfillAssumption DEF Item
<1>2. Ingest!Empty \in Ingest!Store
  BY DEF Ingest!Empty, Ingest!Store
<1>3. [p \in Parsers |-> <<>>] \in [Parsers -> Seq(Item)]
  BY <1>1
<1>4. /\ [p \in Parsers |-> "off"] \in [Parsers -> ParserStates]
      /\ [p \in Parsers |-> Stop] \in [Parsers -> Item]
  BY <1>1 DEF ParserStates
<1>5. Init => interrupted \in BOOLEAN
  BY DEF Init, NothingLeft
<1>6. Init => HandFull
  BY DEF Init, NothingLeft, HandFull
<1>7. Init => TypeOK
  BY <1>1, <1>2, <1>3, <1>4, <1>5 DEF Init, NothingLeft, TypeOK, ParentStates, WriterStates
<1> QED BY <1>6, <1>7 DEF Shape

(* When every process is gone the volatile state has its initial shape. *)
LEMMA AllGoneShape ==
  ASSUME AllGone, db' \in Ingest!Store, disk' \in Ingest!Store, faults' \in Nat
  PROVE  Shape'
<1>1. <<>> \in Seq(Item) /\ Len(<<>>) = 0 /\ Stop \in Item /\ QueueMax \in Nat
  BY BackfillAssumption DEF Item
<1>2. [p \in Parsers |-> <<>>] \in [Parsers -> Seq(Item)]
  BY <1>1
<1>3. /\ [p \in Parsers |-> "off"] \in [Parsers -> ParserStates]
      /\ [p \in Parsers |-> Stop] \in [Parsers -> Item]
  BY <1>1 DEF ParserStates
<1>4. interrupted' \in BOOLEAN
  BY DEF AllGone
<1>5. HandFull'
  BY DEF AllGone, HandFull
<1>6. TypeOK'
  BY <1>1, <1>2, <1>3, <1>4 DEF AllGone, TypeOK, ParentStates, WriterStates
<1> QED BY <1>5, <1>6 DEF Shape

LEMMA NextShape == Shape /\ [Next]_vars => Shape'
<1> SUFFICES ASSUME Shape, [Next]_vars PROVE Shape'
  OBVIOUS
<1>0. /\ QueueMax \in Nat \ {0} /\ NFacts \in [Companies -> Nat] /\ Unparsable \subseteq Companies
      /\ Stop \notin Companies /\ Stop \in Item /\ Companies \subseteq Item /\ MaxFaults \in Nat
  BY BackfillAssumption DEF Stop, Item
<1> USE DEF Shape, TypeOK, HandFull, ParentStates, ParserStates, WriterStates
<1>1. CASE StartRun
  <2>1. todo' \subseteq Companies
    BY <1>1 DEF StartRun, SliceTodo, PendingEntries
  <2> QED BY <1>0, <1>1, <2>1 DEF StartRun, store, resultq, history
<1>2. CASE InstallHandler
  BY <1>0, <1>2 DEF InstallHandler, store, parsing, resultq, writing, history
<1>3. CASE FeedNext
  BY <1>0, <1>3 DEF FeedNext, store, parsing, resultq, writing, history
<1>4. CASE FeedPut
  <2>1. hand \in Companies
    BY <1>0, <1>4 DEF FeedPut, Item
  <2>2. work' \in Seq(Item) /\ Len(work') = Len(work) + 1 /\ Len(work) < QueueMax
    BY <1>0, <1>4 DEF FeedPut, HasSlot
  <2> QED BY <1>0, <1>4, <2>1, <2>2 DEF FeedPut, store, parsing, resultq, writing
<1>5. CASE FeedEnd
  BY <1>0, <1>5 DEF FeedEnd, store, parsing, resultq, writing, history
<1>6. CASE PutSentinel
  <2>1. work' \in Seq(Item) /\ Len(work') = Len(work) + 1 /\ Len(work) < QueueMax
    BY <1>0, <1>6 DEF PutSentinel, HasSlot
  <2> QED BY <1>0, <1>6, <2>1 DEF PutSentinel, store, parsing, resultq, writing, history
<1>7. CASE JoinChildren
  BY <1>0, <1>7 DEF JoinChildren, store, parsing, resultq, writing, history
<1>8. CASE EndRun
  BY <1>8, AllGoneShape DEF EndRun, store
<1>9. ASSUME NEW p \in Parsers, ParserStart(p) PROVE Shape'
  BY <1>0, <1>9 DEF ParserStart, store, feeder, resultq, writing, history
<1>10. ASSUME NEW p \in Parsers, ParserGet(p) PROVE Shape'
  <2>1. Head(work) \in Item /\ Tail(work) \in Seq(Item) /\ Len(Tail(work)) <= QueueMax
    BY <1>0, <1>10, HeadHolds DEF ParserGet
  <2> QED BY <1>0, <1>10, <2>1 DEF ParserGet, store, feeder, resultq, writing, history
<1>11. ASSUME NEW p \in Parsers, ParserParse(p) PROVE Shape'
  <2>1. item' \in [Parsers -> Item]
    BY <1>0, <1>11 DEF ParserParse
  <2>3. parser' \in [Parsers -> ParserStates]
    BY <1>11 DEF ParserParse
  <2>2. failed' \subseteq Companies
    BY <1>0, <1>11 DEF ParserParse
  <2> QED BY <1>0, <1>11, <2>1, <2>2, <2>3 DEF ParserParse, store, feeder, resultq, writing
<1>12. ASSUME NEW p \in Parsers, ParserPut(p) PROVE Shape'
  <2>1. Append(results[p], item[p]) \in Seq(Item)
    OBVIOUS
  <2>2. results' \in [Parsers -> Seq(Item)]
    BY <1>12, <2>1 DEF ParserPut
  <2>3. slots' \in Nat
    BY <1>12 DEF ParserPut, HasSlot
  <2> QED BY <1>0, <1>12, <2>2, <2>3 DEF ParserPut, store, feeder, writing, history
<1>13. CASE WriterStart
  BY <1>0, <1>13 DEF WriterStart, store, feeder, parsing, resultq, history
<1>14. ASSUME NEW p \in Parsers, WriterGet(p) PROVE Shape'
  <2>1. Head(results[p]) \in Item /\ Tail(results[p]) \in Seq(Item)
    BY <1>14, HeadHolds DEF WriterGet
  <2>2. results' \in [Parsers -> Seq(Item)] /\ slots' \in Nat
    BY <1>14, <2>1 DEF WriterGet
  <2>3. pending' \subseteq Companies /\ nfacts' \in Nat /\ doneWorkers' \in Nat /\ writer' \in WriterStates
    BY <1>0, <1>14, <2>1 DEF WriterGet, Item
  <2> QED BY <1>0, <1>14, <2>2, <2>3 DEF WriterGet, store, feeder, parsing, history
<1>15. CASE WriterFlush
  <2>1. db' \in Ingest!Store
    BY <1>15 DEF WriterFlush, Committed, ToFlush, Leftovers, Ingest!Store
  <2> QED BY <1>0, <1>15, <2>1 DEF WriterFlush, FlushDone, feeder, parsing, resultq
<1>16. CASE WriterDropsBatch
  BY <1>0, <1>16 DEF WriterDropsBatch, RolledBack, Fault, FlushDone, feeder, parsing, resultq
<1>17. CASE CtrlC
  BY <1>0, <1>17 DEF CtrlC, Fault, store, resultq, history
<1>18. ASSUME NEW p \in Parsers, ParserDies(p) PROVE Shape'
  <2>1. PICK n \in 0..Len(results[p]) : results' = [results EXCEPT ![p] = SubSeq(@, 1, n)]
    BY <1>18 DEF ParserDies
  <2>2. results' \in [Parsers -> Seq(Item)]
    BY <2>1, PrefixHolds
  <2> QED BY <1>0, <1>18, <2>2 DEF ParserDies, Fault, store, feeder, writing, history
<1>19. CASE WriterDies
  BY <1>0, <1>19 DEF WriterDies, Fault, store, feeder, parsing, resultq, history
<1>20. CASE KillAll
  BY <1>20, AllGoneShape DEF KillAll, Fault, store
<1>21. CASE PowerLoss
  BY <1>21, AllGoneShape DEF PowerLoss, Recovered, Fault
<1>22. CASE WalSync
  BY <1>0, <1>22 DEF WalSync, feeder, parsing, resultq, writing, history
<1>23. CASE UNCHANGED vars
  BY <1>23 DEF vars, store, feeder, parsing, resultq, writing, history
<1> QED
  BY <1>1, <1>2, <1>3, <1>4, <1>5, <1>6, <1>7, <1>8, <1>9, <1>10, <1>11, <1>12, <1>13, <1>14,
     <1>15, <1>16, <1>17, <1>18, <1>19, <1>20, <1>21, <1>22, <1>23
  DEF Next, ParentStep, ParserStep, WriterStep, Failure

(* In every reachable state every variable has its shape, and neither      *)
(* queue exceeds --queue-maxsize.                                          *)
THEOREM TypeCorrect == Spec => []TypeOK
<1>1. Spec => []Shape
  BY InitShape, NextShape, PTL DEF Spec
<1> QED BY <1>1, PTL DEF Shape

----------------------------------------------------------------------------
(* A company is in one place at most.                                      *)

\* What says where the companies are.
places == <<todo, hand, work, item, results, pending, db>>

\* While no run is on there is no process, no queue and no batch.
IdleIsEmpty == parent = "idle" => NothingLeft

IInv == Shape /\ OnePlace /\ IdleIsEmpty

LEMMA Unmoved == OnePlace /\ UNCHANGED places => OnePlace'
BY DEF places, OnePlace, AfterTodo, AfterHand, AfterWork, AfterParser, AfterResult, AtParser,
       InResult, InSeq, Distinct

(* With everything but the checkpoints empty, no company is in two places. *)
LEMMA AllGoneOnePlace == AllGone => OnePlace'
<1> SUFFICES ASSUME AllGone PROVE OnePlace'
  OBVIOUS
<1>1. todo' = {} /\ hand' = Stop /\ work' = <<>> /\ pending' = {}
  BY DEF AllGone
<1>2. \A p \in Parsers : item'[p] = Stop /\ results'[p] = <<>>
  BY DEF AllGone
<1>3. Stop \notin Companies
  BY BackfillAssumption DEF Stop
<1> QED
  BY <1>1, <1>2, <1>3, EmptyHolds
  DEF OnePlace, AfterTodo, AfterHand, AfterWork, AfterParser, AfterResult, AtParser, InResult

LEMMA StopIsNoCompany == Stop \notin Companies /\ Stop \in Item /\ Companies \subseteq Item
BY BackfillAssumption DEF Stop, Item

LEMMA StartRunOnePlace == IInv /\ StartRun => OnePlace'
<1> SUFFICES ASSUME IInv, StartRun PROVE OnePlace'
  OBVIOUS
<1>1. NothingLeft
  BY DEF IInv, IdleIsEmpty, StartRun
<1>2. hand' = Stop /\ work' = <<>> /\ pending' = {} /\ db' = db
  BY <1>1 DEF StartRun, NothingLeft, store
<1>3. \A p \in Parsers : item'[p] = Stop /\ results'[p] = <<>>
  BY <1>1 DEF StartRun, NothingLeft, resultq
<1>4. todo' \cap db.ckpt = {}
  BY DEF StartRun, SliceTodo, PendingEntries
<1> QED
  BY <1>2, <1>3, <1>4, EmptyHolds, StopIsNoCompany
  DEF OnePlace, AfterTodo, AfterHand, AfterWork, AfterParser, AfterResult, AtParser, InResult

LEMMA FeedNextOnePlace == IInv /\ FeedNext => OnePlace'
<1> SUFFICES ASSUME IInv, FeedNext PROVE OnePlace'
  OBVIOUS
<1>1. PICK c \in todo : hand' = c /\ todo' = todo \ {c}
  BY DEF FeedNext
<1>2. c \in Companies /\ ~AfterHand(c)
  BY <1>1 DEF IInv, Shape, TypeOK, OnePlace, AfterTodo
<1>3. UNCHANGED <<work, item, results, pending, db>>
  BY DEF FeedNext, store, parsing, resultq, writing
<1> QED
  BY <1>1, <1>2, <1>3
  DEF IInv, OnePlace, AfterTodo, AfterHand, AfterWork, AfterParser, AfterResult, AtParser, InResult

LEMMA FeedPutOnePlace == IInv /\ FeedPut => OnePlace'
<1> SUFFICES ASSUME IInv, FeedPut PROVE OnePlace'
  OBVIOUS
<1>1. hand \in Companies /\ ~AfterHand(hand)
  BY DEF FeedPut, IInv, Shape, TypeOK, HandFull, Item, OnePlace
<1>2. \A c : InSeq(work', c) <=> InSeq(work, c) \/ c = hand
  BY <1>1, AppendHolds DEF FeedPut, IInv, Shape, TypeOK
<1>3. Distinct(work')
  BY <1>1, AppendDistinct DEF FeedPut, IInv, Shape, TypeOK, OnePlace, AfterHand
<1>4. hand' = Stop /\ UNCHANGED <<todo, item, results, pending, db>>
  BY DEF FeedPut, store, parsing, resultq, writing
<1> QED
  BY <1>1, <1>2, <1>3, <1>4, StopIsNoCompany
  DEF IInv, OnePlace, AfterTodo, AfterHand, AfterWork, AfterParser, AfterResult, AtParser, InResult

LEMMA PutSentinelOnePlace == IInv /\ PutSentinel => OnePlace'
<1> SUFFICES ASSUME IInv, PutSentinel PROVE OnePlace'
  OBVIOUS
<1>1. \A c : InSeq(work', c) <=> InSeq(work, c) \/ c = Stop
  BY AppendHolds, StopIsNoCompany DEF PutSentinel, IInv, Shape, TypeOK
<1>2. Distinct(work')
  BY AppendDistinct, StopIsNoCompany DEF PutSentinel, IInv, Shape, TypeOK, OnePlace
<1>3. UNCHANGED <<todo, hand, item, results, pending, db>>
  BY DEF PutSentinel, store, parsing, resultq, writing
<1> QED
  BY <1>1, <1>2, <1>3, StopIsNoCompany
  DEF IInv, OnePlace, AfterTodo, AfterHand, AfterWork, AfterParser, AfterResult, AtParser, InResult

LEMMA ParserGetOnePlace ==
  ASSUME IInv, NEW p \in Parsers, ParserGet(p)
  PROVE  OnePlace'
<1> DEFINE h == Head(work)
<1>1. work \in Seq(Item) /\ work # <<>> /\ Distinct(work) /\ item \in [Parsers -> Item]
  BY DEF ParserGet, IInv, Shape, TypeOK, OnePlace
<1>2. h \in Item /\ InSeq(work, h)
  BY <1>1, HeadHolds
<1>3. h # Stop => h \in Companies /\ ~AfterWork(h)
  BY <1>2 DEF Item, IInv, OnePlace
<1>4. \A c \in Companies : InSeq(work', c) <=> InSeq(work, c) /\ c # h
  BY <1>1, TailHolds, StopIsNoCompany DEF ParserGet
<1>5. Distinct(work')
  BY <1>1, TailDistinct DEF ParserGet
<1>6. item'[p] = h /\ \A q \in Parsers : q # p => item'[q] = item[q]
  BY <1>1 DEF ParserGet
<1>7. UNCHANGED <<todo, hand, results, pending, db>>
  BY DEF ParserGet, store, feeder, resultq, writing
<1>8. \A q, r \in Parsers : item'[q] = item'[r] /\ item'[q] # Stop => q = r
  BY <1>3, <1>6 DEF IInv, OnePlace, AfterWork, AtParser
<1>9. \A c \in Companies : AtParser(c)' => c = h \/ AtParser(c)
  BY <1>6 DEF AtParser
<1>10. \A c \in Companies : AfterParser(c)' <=> AfterParser(c)
  BY <1>7 DEF AfterParser, AfterResult, InResult
<1>11. \A c \in Companies : InResult(c)' <=> InResult(c)
  BY <1>7 DEF InResult
<1>12. \A c \in Companies : AfterHand(c)' => AfterHand(c)
  BY <1>2, <1>4, <1>9, <1>10 DEF AfterHand, AfterWork
<1> HIDE DEF h
<1>13. ASSUME NEW c \in Companies
       PROVE  /\ c \in todo' => ~AfterTodo(c)'
              /\ c = hand' => ~AfterHand(c)'
              /\ InSeq(work', c) => ~AfterWork(c)'
              /\ AtParser(c)' => ~AfterParser(c)'
              /\ InResult(c)' => ~AfterResult(c)'
              /\ c \in pending' => c \notin db'.ckpt
  BY StopIsNoCompany, <1>3, <1>4, <1>7, <1>9, <1>10, <1>11, <1>12
  DEF IInv, OnePlace, AfterTodo, AfterWork, AfterResult
<1> QED
  BY <1>5, <1>7, <1>8, <1>13 DEF IInv, OnePlace

LEMMA ParserParseOnePlace ==
  ASSUME IInv, NEW p \in Parsers, ParserParse(p)
  PROVE  OnePlace'
<1>1. item \in [Parsers -> Item]
  BY DEF IInv, Shape, TypeOK
<1>2. \A q \in Parsers : item'[q] = item[q] \/ item'[q] = Stop
  BY <1>1 DEF ParserParse
<1>3. UNCHANGED <<todo, hand, work, results, pending, db>>
  BY DEF ParserParse, store, feeder, resultq, writing
<1> QED
  BY <1>2, <1>3, StopIsNoCompany
  DEF IInv, OnePlace, AfterTodo, AfterHand, AfterWork, AfterParser, AfterResult, AtParser, InResult

LEMMA ParserPutOnePlace ==
  ASSUME IInv, NEW p \in Parsers, ParserPut(p)
  PROVE  OnePlace'
<1> DEFINE c0 == item[p]
<1>1. item \in [Parsers -> Item] /\ results \in [Parsers -> Seq(Item)] /\ c0 \in Item
  BY DEF IInv, Shape, TypeOK
<1>2. c0 # Stop => c0 \in Companies /\ AtParser(c0) /\ ~AfterParser(c0)
  BY <1>1 DEF Item, AtParser, IInv, OnePlace
<1>3. results' = [results EXCEPT ![p] = Append(@, c0)]
  BY DEF ParserPut
<1>4. \A c : InSeq(results'[p], c) <=> InSeq(results[p], c) \/ c = c0
  BY <1>1, <1>3, AppendHolds
<1>5. Distinct(results'[p])
  BY <1>1, <1>2, <1>3, AppendDistinct DEF IInv, OnePlace, AfterParser, InResult
<1>6. \A q \in Parsers : q # p => results'[q] = results[q]
  BY <1>1, <1>3
<1>7. item'[p] = Stop /\ \A q \in Parsers : q # p => item'[q] = item[q]
  BY <1>1 DEF ParserPut
<1>8. UNCHANGED <<todo, hand, work, pending, db>>
  BY DEF ParserPut, store, feeder, writing
<1> HIDE DEF c0
<1>9. \A c \in Companies : InResult(c)' <=> InResult(c) \/ c = c0
  BY <1>4, <1>6 DEF InResult
<1>10. \A c \in Companies : AtParser(c)' => AtParser(c) /\ c # c0
  <2>1. \A q \in Parsers : q # p /\ item[q] # Stop => item[q] # c0
    BY DEF IInv, OnePlace, c0
  <2> QED BY <1>7, <2>1, StopIsNoCompany DEF AtParser
<1>11. \A c \in Companies : AfterResult(c)' <=> AfterResult(c)
  BY <1>8 DEF AfterResult
<1>12. \A c \in Companies : AfterWork(c)' => AfterWork(c)
  BY StopIsNoCompany, <1>2, <1>9, <1>10, <1>11 DEF AfterWork, AfterParser
<1>13. \A c \in Companies : AfterHand(c)' => AfterHand(c)
  BY <1>8, <1>12 DEF AfterHand
<1>14. ASSUME NEW c \in Companies
       PROVE  /\ c \in todo' => ~AfterTodo(c)'
              /\ c = hand' => ~AfterHand(c)'
              /\ InSeq(work', c) => ~AfterWork(c)'
              /\ AtParser(c)' => ~AfterParser(c)'
              /\ InResult(c)' => ~AfterResult(c)'
              /\ c \in pending' => c \notin db'.ckpt
  BY StopIsNoCompany, <1>2, <1>8, <1>9, <1>10, <1>11, <1>12, <1>13
  DEF IInv, OnePlace, AfterTodo, AfterParser
<1>15. \A q, r \in Parsers :
         /\ item'[q] = item'[r] /\ item'[q] # Stop => q = r
         /\ Distinct(results'[q])
  BY <1>5, <1>6, <1>7 DEF IInv, OnePlace
<1>16. ASSUME NEW q \in Parsers, NEW r \in Parsers, q # r, NEW c \in Companies
       PROVE  ~(InSeq(results'[q], c) /\ InSeq(results'[r], c))
  BY StopIsNoCompany, <1>2, <1>4, <1>6, <1>16 DEF IInv, OnePlace, AfterParser, InResult
<1> QED
  BY <1>8, <1>14, <1>15, <1>16 DEF IInv, OnePlace

LEMMA WriterGetOnePlace ==
  ASSUME IInv, NEW p \in Parsers, WriterGet(p)
  PROVE  OnePlace'
<1> DEFINE h == Head(results[p])
<1>1. /\ results \in [Parsers -> Seq(Item)] /\ results[p] \in Seq(Item)
      /\ results[p] # <<>> /\ Distinct(results[p])
  BY DEF WriterGet, IInv, Shape, TypeOK, OnePlace
<1>2. h \in Item /\ InSeq(results[p], h)
  BY <1>1, HeadHolds
<1>3. h # Stop => h \in Companies /\ InResult(h) /\ ~AfterResult(h)
  BY <1>2 DEF Item, InResult, IInv, OnePlace
<1>4. results' = [results EXCEPT ![p] = Tail(@)]
  BY DEF WriterGet
<1>5. \A c \in Companies : InSeq(results'[p], c) <=> InSeq(results[p], c) /\ c # h
  BY <1>1, <1>4, TailHolds, StopIsNoCompany
<1>6. Distinct(results'[p])
  BY <1>1, <1>4, TailDistinct
<1>7. \A q \in Parsers : q # p => results'[q] = results[q]
  BY <1>1, <1>4
<1>8. pending' = IF h = Stop THEN pending ELSE pending \cup {h}
  BY DEF WriterGet
<1>9. UNCHANGED <<todo, hand, work, item, db>>
  BY DEF WriterGet, store, feeder, parsing
<1> HIDE DEF h
<1>10. \A c \in Companies : InResult(c)' => InResult(c) /\ c # h
  <2>1. \A q \in Parsers : q # p => \A c \in Companies : InSeq(results[q], c) => c # h
    BY <1>2 DEF IInv, OnePlace
  <2> QED BY <1>5, <1>7, <2>1 DEF InResult
<1>11. \A c \in Companies : AfterResult(c)' <=> AfterResult(c) \/ (c = h)
  BY <1>8, <1>9, StopIsNoCompany DEF AfterResult
<1>12. \A c \in Companies : AfterParser(c)' => AfterParser(c)
  BY StopIsNoCompany, <1>3, <1>10, <1>11 DEF AfterParser
<1>13. \A c \in Companies : AfterWork(c)' => AfterWork(c)
  BY <1>9, <1>12 DEF AfterWork, AtParser
<1>14. \A c \in Companies : AfterHand(c)' => AfterHand(c)
  BY <1>9, <1>13 DEF AfterHand
<1>15. ASSUME NEW c \in Companies
       PROVE  /\ c \in todo' => ~AfterTodo(c)'
              /\ c = hand' => ~AfterHand(c)'
              /\ InSeq(work', c) => ~AfterWork(c)'
              /\ AtParser(c)' => ~AfterParser(c)'
              /\ InResult(c)' => ~AfterResult(c)'
              /\ c \in pending' => c \notin db'.ckpt
  BY <1>3, <1>8, <1>9, <1>10, <1>11, <1>12, <1>13, <1>14
  DEF IInv, OnePlace, AfterTodo, AfterResult, AtParser
<1>16. ASSUME NEW q \in Parsers, NEW r \in Parsers
       PROVE  /\ Distinct(results'[q])
              /\ q # r => \A c \in Companies : ~(InSeq(results'[q], c) /\ InSeq(results'[r], c))
  BY <1>5, <1>6, <1>7 DEF IInv, OnePlace
<1> QED
  BY <1>9, <1>15, <1>16 DEF IInv, OnePlace

LEMMA WriterFlushOnePlace == IInv /\ WriterFlush => OnePlace'
<1> SUFFICES ASSUME IInv, WriterFlush PROVE OnePlace'
  OBVIOUS
<1>1. pending' = {} /\ db'.ckpt = db.ckpt \cup pending
  BY DEF WriterFlush, FlushDone, Committed, ToFlush, Leftovers
<1>2. UNCHANGED <<todo, hand, work, item, results>>
  BY DEF WriterFlush, FlushDone, feeder, parsing, resultq
<1> QED
  BY <1>1, <1>2
  DEF IInv, OnePlace, AfterTodo, AfterHand, AfterWork, AfterParser, AfterResult, AtParser, InResult

(* A batch that is dropped, and the batch of a writer that dies, are simply *)
(* nowhere any more.                                                        *)
LEMMA BatchLostOnePlace ==
  OnePlace /\ pending' = {} /\ UNCHANGED <<todo, hand, work, item, results, db>> => OnePlace'
BY DEF OnePlace, AfterTodo, AfterHand, AfterWork, AfterParser, AfterResult, AtParser, InResult

LEMMA ParserDiesOnePlace ==
  ASSUME IInv, NEW p \in Parsers, ParserDies(p)
  PROVE  OnePlace'
<1>1. item \in [Parsers -> Item] /\ results \in [Parsers -> Seq(Item)]
  BY DEF IInv, Shape, TypeOK
<1>2. PICK n \in 0..Len(results[p]) : results' = [results EXCEPT ![p] = SubSeq(@, 1, n)]
  BY DEF ParserDies
<1>3. \A q \in Parsers : \/ results'[q] = results[q]
                         \/ /\ \A c : InSeq(results'[q], c) => InSeq(results[q], c)
                            /\ Distinct(results[q]) => Distinct(results'[q])
  BY <1>1, <1>2, PrefixHolds
<1>4. \A q \in Parsers : item'[q] = item[q] \/ item'[q] = Stop
  BY <1>1 DEF ParserDies
<1>5. UNCHANGED <<todo, hand, work, pending, db>>
  BY DEF ParserDies, store, feeder, writing
<1> QED
  BY <1>3, <1>4, <1>5, StopIsNoCompany
  DEF IInv, OnePlace, AfterTodo, AfterHand, AfterWork, AfterParser, AfterResult, AtParser, InResult

LEMMA NextOnePlace == IInv /\ [Next]_vars => OnePlace'
<1> SUFFICES ASSUME IInv, [Next]_vars PROVE OnePlace'
  OBVIOUS
<1>0. OnePlace
  BY DEF IInv
<1>1. CASE ParentStep
  <2>1. CASE InstallHandler \/ FeedEnd \/ JoinChildren
    BY <1>0, <2>1, Unmoved
    DEF InstallHandler, FeedEnd, JoinChildren, places, store, parsing, resultq, writing
  <2>2. CASE EndRun
    BY <2>2, AllGoneOnePlace DEF EndRun
  <2> QED
    BY <1>1, <2>1, <2>2, FeedNextOnePlace, FeedPutOnePlace, PutSentinelOnePlace DEF ParentStep
<1>2. ASSUME NEW p \in Parsers, ParserStep(p) PROVE OnePlace'
  <2>1. CASE ParserStart(p)
    BY <1>0, <2>1, Unmoved DEF ParserStart, places, store, feeder, resultq, writing
  <2> QED
    BY <1>2, <2>1, ParserGetOnePlace, ParserParseOnePlace, ParserPutOnePlace DEF ParserStep
<1>3. CASE WriterStep
  <2>1. CASE WriterStart
    BY <1>0, <2>1, Unmoved DEF WriterStart, places, store, feeder, parsing, resultq
  <2> QED
    BY <1>3, <2>1, WriterFlushOnePlace, WriterGetOnePlace DEF WriterStep
<1>4. CASE Failure
  <2>1. CASE WriterDropsBatch
    BY <1>0, <2>1, BatchLostOnePlace
    DEF WriterDropsBatch, RolledBack, FlushDone, feeder, parsing, resultq
  <2>2. CASE WriterDies
    BY <1>0, <2>2, BatchLostOnePlace DEF WriterDies, store, feeder, parsing, resultq
  <2>3. CASE CtrlC
    BY <1>0, <2>3, Unmoved DEF CtrlC, places, store, resultq
  <2>4. CASE KillAll \/ PowerLoss
    BY <2>4, AllGoneOnePlace DEF KillAll, PowerLoss
  <2> QED
    BY <1>4, <2>1, <2>2, <2>3, <2>4, ParserDiesOnePlace DEF Failure
<1>5. CASE WalSync \/ UNCHANGED vars
  BY <1>0, <1>5, Unmoved DEF WalSync, vars, places, store, feeder, parsing, resultq, writing
<1> QED
  BY <1>1, <1>2, <1>3, <1>4, <1>5, StartRunOnePlace DEF Next

(* A step of an idle system starts a run or leaves everything empty. *)
LEMMA NextIdle == IInv /\ [Next]_vars => IdleIsEmpty'
<1> SUFFICES ASSUME IInv, [Next]_vars, parent' = "idle" PROVE NothingLeft'
  BY DEF IdleIsEmpty
<1>1. AllGone => NothingLeft'
  BY DEF AllGone, NothingLeft
<1>2. CASE parent # "idle"
  <2>1. CASE \E p \in Parsers : ParserStep(p) \/ ParserDies(p) \/ WriterGet(p)
    BY <1>2, <2>1
    DEF ParserStep, ParserStart, ParserGet, ParserParse, ParserPut, ParserDies, WriterGet, feeder
  <2> QED
    BY <1>1, <1>2, <2>1
    DEF Next, vars, feeder, ParentStep, WriterStep, Failure, StartRun, InstallHandler, FeedNext,
        FeedPut, FeedEnd, PutSentinel, JoinChildren, EndRun, WriterStart, WriterFlush, FlushDone,
        WriterDropsBatch, CtrlC, WriterDies, KillAll, PowerLoss, WalSync
<1>3. CASE parent = "idle"
  <2>1. NothingLeft
    BY <1>3 DEF IInv, IdleIsEmpty
  <2>2. \A p \in Parsers : ~ParserStep(p) /\ ~ParserDies(p) /\ ~WriterGet(p)
    BY <2>1
    DEF NothingLeft, ParserStep, ParserStart, ParserGet, ParserParse, ParserPut, ParserDies,
        WriterGet
  <2>3. UNCHANGED vars \/ WalSync \/ PowerLoss
    BY <1>3, <2>1, <2>2
    DEF Next, NothingLeft, ParentStep, WriterStep, Failure, StartRun, InstallHandler, FeedNext,
        FeedPut, FeedEnd, PutSentinel, JoinChildren, EndRun, WriterStart, WriterFlush,
        WriterDropsBatch, CtrlC, WriterDies, KillAll
  <2>4. CASE UNCHANGED vars \/ WalSync
    BY <2>1, <2>4
    DEF vars, WalSync, NothingLeft, store, feeder, parsing, resultq, writing, history
  <2> QED BY <1>1, <2>3, <2>4 DEF PowerLoss
<1> QED BY <1>2, <1>3

LEMMA InitIInv == Init => IInv
<1> SUFFICES ASSUME Init PROVE OnePlace
  BY InitShape DEF IInv, IdleIsEmpty, Init
<1>1. todo = {} /\ hand = Stop /\ work = <<>> /\ pending = {}
  BY DEF Init, NothingLeft
<1>2. \A p \in Parsers : item[p] = Stop /\ results[p] = <<>>
  BY DEF Init, NothingLeft
<1> QED
  BY <1>1, <1>2, EmptyHolds, StopIsNoCompany
  DEF OnePlace, AfterTodo, AfterHand, AfterWork, AfterParser, AfterResult, AtParser, InResult

LEMMA Invariance == Spec => []IInv
<1>1. IInv /\ [Next]_vars => IInv'
  BY NextShape, NextOnePlace, NextIdle DEF IInv
<1> QED BY InitIInv, <1>1, PTL DEF Spec

(* No company is ever in two places: none is parsed or written twice in a  *)
(* run, and none that is checkpointed is fed, parsed or written again.     *)
THEOREM NeverTwice == Spec => []OnePlace
BY Invariance, PTL DEF IInv

----------------------------------------------------------------------------
(* What the writer has accounted for when it leaves its loop.              *)

Ending == {"stopping", "joining"}

\* A parser has taken a _STOP, and so has every company been taken before it.
StopTaken ==
  \/ doneWorkers > 0
  \/ \E p \in Parsers : parser[p] \in {"stop", "done"} \/ InSeq(results[p], Stop)
NoMoreFed == parent \in Ending /\ \A c \in Companies : ~InSeq(work, c)

\* A parser's _STOP is its last item, as the parent's are of the work queue.
StopsComeLast ==
  /\ \A p \in Parsers : parser[p] \in {"parse", "put"} <=> item[p] # Stop
  /\ \A p \in Parsers : \A i \in 1..Len(results[p]) :
       results[p][i] = Stop => i = Len(results[p]) /\ parser[p] \in {"done", "dead"}
  /\ \A i, j \in 1..Len(work) : i < j /\ work[i] = Stop => work[j] = Stop
  /\ InSeq(work, Stop) => parent \in Ending
  /\ StopTaken => NoMoreFed

\* The parsers whose _STOP the writer may still get.
Awaited == {p \in Parsers : parser[p] \notin {"done", "dead"} \/ InSeq(results[p], Stop)}

\* Of a company that was fed: it may still come to the writer.
OnTheWay(c) ==
  \/ InSeq(work, c) \/ AtParser(c) \/ c \in pending
  \/ \E p \in Awaited : InSeq(results[p], c)
NothingLost == \A c \in fed : c \in db.ckpt \cup failed \cup dropped \/ OnTheWay(c)

\* Whoever takes a company with it takes its _STOP too, which leaves the
\* writer waiting.
Waits(n) == n < Cardinality(Parsers)
Tallied ==
  /\ writer \in {"final", "done"} => ~Waits(doneWorkers)
  /\ writer = "done" => pending = {}
  /\ doneWorkers + Cardinality(Awaited) <= Cardinality(Parsers)
  /\ writer # "dead" => NothingLost \/ Waits(doneWorkers + Cardinality(Awaited))

\* What the markers and the tally depend on, besides the parent.
LEMMA EmptyMarkers ==
  ASSUME work' = <<>>, \A p \in Parsers : item'[p] = Stop /\ results'[p] = <<>>,
         \A p \in Parsers : parser'[p] \in {"off", "forked"}, doneWorkers' = 0
  PROVE  StopsComeLast'
BY EmptyHolds DEF StopsComeLast, StopTaken, InSeq

LEMMA AllGoneMarkers == AllGone => StopsComeLast'
BY EmptyMarkers DEF AllGone

LEMMA StartRunMarkers == IInv /\ StartRun => StopsComeLast'
<1> SUFFICES ASSUME IInv, StartRun PROVE StopsComeLast'
  OBVIOUS
<1>1. NothingLeft
  BY DEF IInv, IdleIsEmpty, StartRun
<1>2. /\ work' = <<>> /\ doneWorkers' = 0
      /\ \A p \in Parsers : item'[p] = Stop /\ results'[p] = <<>> /\ parser'[p] = "forked"
  BY <1>1 DEF StartRun, NothingLeft, resultq
<1> QED BY <1>2, EmptyMarkers

\* Steps of the parent and the writer that move no item.
LEMMA UnmovedMarkers ==
  ASSUME StopsComeLast, UNCHANGED <<work, parser, item, results, doneWorkers>>,
         parent \in Ending => parent' \in Ending
  PROVE  StopsComeLast'
BY DEF StopsComeLast, StopTaken, NoMoreFed, InSeq

LEMMA FeedPutMarkers == IInv /\ StopsComeLast /\ FeedPut => StopsComeLast'
<1> SUFFICES ASSUME IInv, StopsComeLast, FeedPut PROVE StopsComeLast'
  OBVIOUS
<1>1. /\ work \in Seq(Item) /\ hand \in Item /\ hand # Stop /\ parent \notin Ending
  BY DEF FeedPut, IInv, Shape, TypeOK, HandFull, Ending
<1>2. ~InSeq(work, Stop) /\ ~StopTaken
  BY <1>1 DEF StopsComeLast, NoMoreFed
<1>3. ~InSeq(work', Stop)
  BY <1>1, <1>2, AppendHolds DEF FeedPut, Item
<1>4. UNCHANGED <<parser, item, results, doneWorkers>>
  BY DEF FeedPut, parsing, resultq, writing
<1>5. ~StopTaken'
  BY <1>2, <1>4 DEF StopTaken, InSeq
<1> QED BY <1>3, <1>4, <1>5 DEF StopsComeLast, InSeq

LEMMA PutSentinelMarkers == IInv /\ StopsComeLast /\ PutSentinel => StopsComeLast'
<1> SUFFICES ASSUME IInv, StopsComeLast, PutSentinel PROVE StopsComeLast'
  OBVIOUS
<1>1. work \in Seq(Item) /\ work' = Append(work, Stop) /\ parent' \in Ending
  BY DEF PutSentinel, IInv, Shape, TypeOK, Ending
<1>2. UNCHANGED <<parser, item, results, doneWorkers, parent>>
  BY DEF PutSentinel, parsing, resultq, writing
<1>3. \A i, j \in 1..Len(work') : i < j /\ work'[i] = Stop => work'[j] = Stop
  <2>1. Len(work') = Len(work) + 1 /\ work'[Len(work) + 1] = Stop
    BY <1>1
  <2>2. \A i \in 1..Len(work) : work'[i] = work[i]
    BY <1>1
  <2> QED BY <1>1, <2>1, <2>2 DEF StopsComeLast
<1>4. \A c \in Companies : InSeq(work', c) => InSeq(work, c)
  BY <1>1, AppendHolds, StopIsNoCompany
<1>5. StopTaken' => NoMoreFed'
  BY <1>1, <1>2, <1>4 DEF StopsComeLast, StopTaken, NoMoreFed, InSeq
<1> QED BY <1>1, <1>2, <1>3, <1>5 DEF StopsComeLast

LEMMA ParserStartMarkers ==
  ASSUME IInv, StopsComeLast, NEW p \in Parsers, ParserStart(p)
  PROVE  StopsComeLast'
<1>1. parser[p] = "forked" /\ parser' = [parser EXCEPT ![p] = "get"]
  BY DEF ParserStart
<1>2. UNCHANGED <<work, item, results, doneWorkers, parent>>
  BY DEF ParserStart, feeder, resultq, writing
<1>3. parser \in [Parsers -> ParserStates]
  BY DEF IInv, Shape, TypeOK
<1> QED BY <1>1, <1>2, <1>3 DEF StopsComeLast, StopTaken, NoMoreFed, InSeq

\* What is behind the head of the work queue.
LEMMA WorkTail ==
  ASSUME IInv, StopsComeLast, work # <<>>, work' = Tail(work)
  PROVE  /\ Head(work) \in Item
         /\ \A i, j \in 1..Len(work') : i < j /\ work'[i] = Stop => work'[j] = Stop
         /\ \A c \in Item : InSeq(work', c) => InSeq(work, c)
         /\ Head(work) = Stop => \A c \in Companies : ~InSeq(work', c)
         /\ Head(work) = Stop => InSeq(work, Stop)
<1>1. work \in Seq(Item) /\ Head(work) \in Item
  BY HeadHolds DEF IInv, Shape, TypeOK
<1>2. /\ Len(work) \in Nat \ {0} /\ Len(work') = Len(work) - 1 /\ Head(work) = work[1]
      /\ \A i \in 1..Len(work') : work'[i] = work[i + 1]
  BY <1>1
<1>3. \A i \in 1..Len(work') : i + 1 \in 1..Len(work) /\ 1 < i + 1
  BY <1>2
<1>4. \A i, j \in 1..Len(work') : i < j /\ work'[i] = Stop => work'[j] = Stop
  BY <1>2, <1>3 DEF StopsComeLast
<1>5. \A c \in Item : InSeq(work', c) => InSeq(work, c)
  BY <1>2, <1>3 DEF InSeq
<1>6. 1 \in 1..Len(work)
  BY <1>2
<1>7. Head(work) = Stop => \A i \in 1..Len(work') : work'[i] = Stop
  BY <1>2, <1>3, <1>6 DEF StopsComeLast
<1>8. Head(work) = Stop => \A c \in Companies : ~InSeq(work', c)
  BY <1>7, StopIsNoCompany DEF InSeq
<1>9. Head(work) = Stop => InSeq(work, Stop)
  BY <1>2, <1>6 DEF InSeq
<1> QED BY <1>1, <1>4, <1>5, <1>8, <1>9

LEMMA ParserGetMarkers ==
  ASSUME IInv, StopsComeLast, NEW p \in Parsers, ParserGet(p)
  PROVE  StopsComeLast'
<1>1. /\ parser[p] = "get" /\ work # <<>> /\ work' = Tail(work)
      /\ item' = [item EXCEPT ![p] = Head(work)]
      /\ parser' = [parser EXCEPT ![p] = IF Head(work) = Stop THEN "stop" ELSE "parse"]
  BY DEF ParserGet
<1>2. UNCHANGED <<results, doneWorkers, parent>>
  BY DEF ParserGet, feeder, resultq, writing
<1>3. parser \in [Parsers -> ParserStates] /\ item \in [Parsers -> Item]
  BY DEF IInv, Shape, TypeOK
<1>4. PICK h \in Item : h = Head(work)
  BY <1>1, WorkTail
<1>5. /\ \A i, j \in 1..Len(work') : i < j /\ work'[i] = Stop => work'[j] = Stop
      /\ \A c \in Item : InSeq(work', c) => InSeq(work, c)
      /\ h = Stop => (\A c \in Companies : ~InSeq(work', c)) /\ InSeq(work, Stop)
  BY <1>1, <1>4, WorkTail
<1>6. /\ parser'[p] = (IF h = Stop THEN "stop" ELSE "parse") /\ item'[p] = h
      /\ \A q \in Parsers : q # p => parser'[q] = parser[q] /\ item'[q] = item[q]
  BY <1>1, <1>3, <1>4
<1>7. \A q \in Parsers : parser'[q] \in {"parse", "put"} <=> item'[q] # Stop
  BY <1>6 DEF StopsComeLast
<1>8. \A q \in Parsers : \A i \in 1..Len(results'[q]) :
        results'[q][i] = Stop => i = Len(results'[q]) /\ parser'[q] \in {"done", "dead"}
  BY <1>1, <1>2, <1>6 DEF StopsComeLast
<1>9. InSeq(work', Stop) => parent' \in Ending
  BY <1>2, <1>5, StopIsNoCompany DEF StopsComeLast
<1>10. StopTaken' => NoMoreFed'
  <2>1. CASE h = Stop
    BY <1>2, <1>5, <2>1 DEF StopsComeLast, NoMoreFed
  <2>2. CASE h # Stop
    <3>1. StopTaken' => StopTaken
      BY <1>2, <1>6, <2>2 DEF StopTaken, InSeq
    <3> QED BY <1>2, <1>5, <3>1, StopIsNoCompany DEF StopsComeLast, NoMoreFed
  <2> QED BY <2>1, <2>2
<1> QED BY <1>5, <1>7, <1>8, <1>9, <1>10 DEF StopsComeLast

LEMMA ParserParseMarkers ==
  ASSUME IInv, StopsComeLast, NEW p \in Parsers, ParserParse(p)
  PROVE  StopsComeLast'
<1>1. parser \in [Parsers -> ParserStates] /\ item \in [Parsers -> Item] /\ parser[p] = "parse"
  BY DEF IInv, Shape, TypeOK, ParserParse
<1>2. UNCHANGED <<work, results, doneWorkers, parent>>
  BY DEF ParserParse, feeder, resultq, writing
<1>3. /\ \/ parser'[p] = "put" /\ item'[p] = item[p]
         \/ parser'[p] = "get" /\ item'[p] = Stop
      /\ \A q \in Parsers : q # p => parser'[q] = parser[q] /\ item'[q] = item[q]
  <2>1. CASE item[p] \notin Unparsable
    BY <1>1, <2>1 DEF ParserParse
  <2>2. CASE item[p] \in Unparsable
    BY <1>1, <2>2 DEF ParserParse
  <2> QED BY <2>1, <2>2
<1>4. StopTaken' => StopTaken
  BY <1>2, <1>3 DEF StopTaken, InSeq
<1>5. NoMoreFed => NoMoreFed'
  BY <1>2 DEF NoMoreFed, InSeq
<1> QED BY <1>1, <1>2, <1>3, <1>4, <1>5 DEF StopsComeLast, InSeq

LEMMA ParserPutMarkers ==
  ASSUME IInv, StopsComeLast, NEW p \in Parsers, ParserPut(p)
  PROVE  StopsComeLast'
<1>1. /\ parser \in [Parsers -> ParserStates] /\ item \in [Parsers -> Item]
      /\ results \in [Parsers -> Seq(Item)] /\ parser[p] \in {"put", "stop"}
  BY DEF IInv, Shape, TypeOK, ParserPut
<1>2. UNCHANGED <<work, doneWorkers, parent>>
  BY DEF ParserPut, feeder, writing
<1>3. /\ results'[p] = Append(results[p], item[p]) /\ item'[p] = Stop
      /\ parser'[p] = (IF parser[p] = "put" THEN "get" ELSE "done")
      /\ \A q \in Parsers : q # p => /\ parser'[q] = parser[q] /\ item'[q] = item[q]
                                     /\ results'[q] = results[q]
  BY <1>1 DEF ParserPut
<1>4. /\ parser[p] = "put" <=> item[p] # Stop
      /\ \A i \in 1..Len(results[p]) : results[p][i] # Stop
  BY <1>1 DEF StopsComeLast
<1>5. /\ Len(results'[p]) = Len(results[p]) + 1 /\ Len(results[p]) \in Nat
      /\ results'[p][Len(results[p]) + 1] = item[p]
      /\ \A i \in 1..Len(results[p]) : results'[p][i] = results[p][i]
  BY <1>1, <1>3
<1>6. \A i \in 1..Len(results'[p]) :
        results'[p][i] = Stop => i = Len(results'[p]) /\ parser'[p] \in {"done", "dead"}
  BY <1>1, <1>3, <1>4, <1>5
<1>7. StopTaken' => StopTaken
  <2>1. parser[p] = "put" => parser'[p] = "get" /\ ~InSeq(results'[p], Stop)
    BY <1>3, <1>4, <1>5 DEF InSeq
  <2> QED BY <1>1, <1>2, <1>3, <2>1 DEF StopTaken, InSeq
<1>8. NoMoreFed => NoMoreFed'
  BY <1>2 DEF NoMoreFed, InSeq
<1>9. \A q \in Parsers : parser'[q] \in {"parse", "put"} <=> item'[q] # Stop
  BY <1>3 DEF StopsComeLast
<1>10. \A q \in Parsers : \A i \in 1..Len(results'[q]) :
        results'[q][i] = Stop => i = Len(results'[q]) /\ parser'[q] \in {"done", "dead"}
  BY <1>3, <1>6 DEF StopsComeLast
<1> QED BY <1>2, <1>7, <1>8, <1>9, <1>10 DEF StopsComeLast, InSeq

LEMMA WriterGetMarkers ==
  ASSUME IInv, StopsComeLast, NEW p \in Parsers, WriterGet(p)
  PROVE  StopsComeLast'
<1>1. /\ results \in [Parsers -> Seq(Item)] /\ results[p] # <<>>
      /\ doneWorkers \in Nat
  BY DEF IInv, Shape, TypeOK, WriterGet
<1>2. UNCHANGED <<work, parser, item, parent>>
  BY DEF WriterGet, feeder, parsing
<1>3. results'[p] = Tail(results[p]) /\ \A q \in Parsers : q # p => results'[q] = results[q]
  BY <1>1 DEF WriterGet
<1>4. /\ Len(results'[p]) = Len(results[p]) - 1 /\ Len(results[p]) \in Nat \ {0}
      /\ \A i \in 1..Len(results'[p]) : results'[p][i] = results[p][i + 1]
      /\ Head(results[p]) = results[p][1]
  BY <1>1, <1>3
<1>5. \A i \in 1..Len(results'[p]) : i + 1 \in 1..Len(results[p])
  BY <1>4
<1>6. \A i \in 1..Len(results'[p]) :
        results'[p][i] = Stop => i = Len(results'[p]) /\ parser[p] \in {"done", "dead"}
  BY <1>4, <1>5 DEF StopsComeLast
<1>7. InSeq(results'[p], Stop) => InSeq(results[p], Stop)
  BY <1>4, <1>5 DEF InSeq
<1>8. doneWorkers' > 0 => StopTaken
  <2>1. CASE Head(results[p]) = Stop
    <3>1. InSeq(results[p], Stop)
      BY <1>4, <2>1 DEF InSeq
    <3> QED BY <3>1 DEF StopTaken
  <2>2. CASE Head(results[p]) # Stop
    BY <2>2 DEF WriterGet, StopTaken
  <2> QED BY <2>1, <2>2
<1>9. StopTaken' => StopTaken
  BY <1>2, <1>3, <1>7, <1>8 DEF StopTaken, InSeq
<1>10. NoMoreFed => NoMoreFed'
  BY <1>2 DEF NoMoreFed, InSeq
<1>11. \A q \in Parsers : \A i \in 1..Len(results'[q]) :
        results'[q][i] = Stop => i = Len(results'[q]) /\ parser'[q] \in {"done", "dead"}
  BY <1>2, <1>3, <1>6 DEF StopsComeLast
<1> QED BY <1>2, <1>9, <1>10, <1>11 DEF StopsComeLast, InSeq

LEMMA CtrlCMarkers == IInv /\ StopsComeLast /\ CtrlC => StopsComeLast'
<1> SUFFICES ASSUME IInv, StopsComeLast, CtrlC PROVE StopsComeLast'
  OBVIOUS
<1>1. UNCHANGED <<work, item, results, doneWorkers>>
  BY DEF CtrlC, resultq
<1>2. \A p \in Parsers : parser'[p] = IF parser[p] = "forked" THEN "dead" ELSE parser[p]
  BY DEF CtrlC
<1>3. parent \in Ending => parent' \in Ending
  BY DEF CtrlC, Ending
<1>4. StopTaken' => StopTaken
  BY <1>1, <1>2 DEF StopTaken, InSeq
<1>5. NoMoreFed => NoMoreFed'
  BY <1>1, <1>3 DEF NoMoreFed, InSeq
<1> QED BY <1>1, <1>2, <1>3, <1>4, <1>5 DEF StopsComeLast, InSeq

LEMMA ParserDiesMarkers ==
  ASSUME IInv, StopsComeLast, NEW p \in Parsers, ParserDies(p)
  PROVE  StopsComeLast'
<1>1. /\ parser \in [Parsers -> ParserStates] /\ item \in [Parsers -> Item]
      /\ results \in [Parsers -> Seq(Item)]
  BY DEF IInv, Shape, TypeOK
<1>2. PICK n \in 0..Len(results[p]) : results' = [results EXCEPT ![p] = SubSeq(@, 1, n)]
  BY DEF ParserDies
<1>3. UNCHANGED <<work, doneWorkers, parent>>
  BY DEF ParserDies, feeder, writing
<1>4. /\ parser'[p] = "dead" /\ item'[p] = Stop
      /\ \A q \in Parsers : q # p => /\ parser'[q] = parser[q] /\ item'[q] = item[q]
                                     /\ results'[q] = results[q]
  BY <1>1, <1>2 DEF ParserDies
<1>5. /\ Len(results'[p]) = n /\ Len(results[p]) \in Nat
      /\ \A i \in 1..n : results'[p][i] = results[p][i] /\ i \in 1..Len(results[p])
  BY <1>1, <1>2
<1>6. \A i \in 1..Len(results'[p]) : results'[p][i] = Stop => i = Len(results'[p])
  BY <1>5 DEF StopsComeLast
<1>7. InSeq(results'[p], Stop) => InSeq(results[p], Stop)
  BY <1>5 DEF InSeq
<1>8. StopTaken' => StopTaken
  BY <1>3, <1>4, <1>7 DEF StopTaken, InSeq
<1>9. NoMoreFed => NoMoreFed'
  BY <1>3 DEF NoMoreFed, InSeq
<1>10. \A q \in Parsers : \A i \in 1..Len(results'[q]) :
        results'[q][i] = Stop => i = Len(results'[q]) /\ parser'[q] \in {"done", "dead"}
  BY <1>4, <1>6 DEF StopsComeLast
<1>11. \A q \in Parsers : parser'[q] \in {"parse", "put"} <=> item'[q] # Stop
  BY <1>4 DEF StopsComeLast
<1> QED BY <1>3, <1>8, <1>9, <1>10, <1>11 DEF StopsComeLast, InSeq

LEMMA NextMarkers == IInv /\ StopsComeLast /\ [Next]_vars => StopsComeLast'
<1> SUFFICES ASSUME IInv, StopsComeLast, [Next]_vars PROVE StopsComeLast'
  OBVIOUS
<1>1. CASE ParentStep
  <2>1. CASE InstallHandler \/ FeedNext \/ FeedEnd \/ JoinChildren
    BY <2>1, UnmovedMarkers
    DEF InstallHandler, FeedNext, FeedEnd, JoinChildren, parsing, resultq, writing, Ending
  <2>2. CASE EndRun
    BY <2>2, AllGoneMarkers DEF EndRun
  <2> QED BY <1>1, <2>1, <2>2, FeedPutMarkers, PutSentinelMarkers DEF ParentStep
<1>2. ASSUME NEW p \in Parsers, ParserStep(p) PROVE StopsComeLast'
  BY <1>2, ParserStartMarkers, ParserGetMarkers, ParserParseMarkers, ParserPutMarkers
  DEF ParserStep
<1>3. CASE WriterStep
  <2>1. CASE WriterStart \/ WriterFlush
    BY <2>1, UnmovedMarkers DEF WriterStart, WriterFlush, FlushDone, feeder, parsing, resultq
  <2> QED BY <1>3, <2>1, WriterGetMarkers DEF WriterStep
<1>4. CASE Failure
  <2>1. CASE WriterDropsBatch \/ WriterDies
    BY <2>1, UnmovedMarkers DEF WriterDropsBatch, WriterDies, FlushDone, feeder, parsing, resultq
  <2>2. CASE KillAll \/ PowerLoss
    BY <2>2, AllGoneMarkers DEF KillAll, PowerLoss
  <2> QED BY <1>4, <2>1, <2>2, CtrlCMarkers, ParserDiesMarkers DEF Failure
<1>5. CASE WalSync \/ UNCHANGED vars
  BY <1>5, UnmovedMarkers DEF WalSync, vars, feeder, parsing, resultq, writing
<1> QED BY <1>1, <1>2, <1>3, <1>4, <1>5, StartRunMarkers DEF Next

\* Counting the parsers that are still awaited.
LEMMA Counting ==
  ASSUME NEW A \in SUBSET Parsers, NEW B \in SUBSET A
  PROVE  /\ Cardinality(A) \in Nat /\ Cardinality(B) \in Nat /\ Cardinality(Parsers) \in Nat
         /\ Cardinality(B) <= Cardinality(A) /\ Cardinality(A) <= Cardinality(Parsers)
         /\ B # A => Cardinality(B) < Cardinality(A)
         /\ \A p \in A : B = A \ {p} => Cardinality(B) = Cardinality(A) - 1
<1>1. IsFiniteSet(Parsers)
  BY BackfillAssumption
<1>2. IsFiniteSet(A)
  BY <1>1, FS_Subset
<1>3. /\ Cardinality(A) \in Nat /\ Cardinality(B) \in Nat /\ Cardinality(Parsers) \in Nat
      /\ Cardinality(B) <= Cardinality(A) /\ Cardinality(A) <= Cardinality(Parsers)
      /\ B # A => Cardinality(B) < Cardinality(A)
  BY <1>1, <1>2, FS_Subset, FS_CardinalityType
<1>4. \A p \in A : B = A \ {p} => Cardinality(B) = Cardinality(A) - 1
  BY <1>2, FS_RemoveElement
<1> QED BY <1>3, <1>4

LEMMA EmptyTally ==
  ASSUME \A p \in Parsers : parser'[p] \in {"off", "forked"}, doneWorkers' = 0,
         writer' \in {"off", "forked"}, fed' = {}
  PROVE  Tallied'
<1>1. Awaited' = Parsers
  BY DEF Awaited
<1>2. Cardinality(Parsers) \in Nat
  BY Counting
<1> QED BY <1>1, <1>2 DEF Tallied, NothingLost

LEMMA AllGoneTally == AllGone => Tallied'
BY EmptyTally DEF AllGone

LEMMA StartRunTally == IInv /\ StartRun => Tallied'
<1> SUFFICES ASSUME IInv, StartRun PROVE Tallied'
  OBVIOUS
<1>1. NothingLeft
  BY DEF IInv, IdleIsEmpty, StartRun
<1>2. /\ doneWorkers' = 0 /\ fed' = {} /\ writer' = "forked"
      /\ \A p \in Parsers : parser'[p] = "forked"
  BY <1>1 DEF StartRun, NothingLeft, history
<1> QED BY <1>2, EmptyTally

\* The writer goes on as it was, or flushes what it has.
WriterGoesOn ==
  /\ writer' \in {"final", "done"} => writer \in {"final", "done"}
  /\ writer' = "done" => pending' = {}
  /\ writer' # "dead" => writer # "dead"

\* A step that loses no company keeps the tally.
LEMMA NoneLost ==
  ASSUME Tallied, WriterGoesOn, Awaited' = Awaited, doneWorkers' = doneWorkers,
         writer' # "dead" /\ NothingLost => NothingLost'
  PROVE  Tallied'
BY DEF Tallied, WriterGoesOn, Waits

\* A step that loses a parser is one _STOP short.
LEMMA OneShort ==
  ASSUME IInv, Tallied, WriterGoesOn, Awaited' \in SUBSET Awaited, Awaited' # Awaited,
         doneWorkers' = doneWorkers
  PROVE  Tallied'
<1>1. Awaited \in SUBSET Parsers
  BY DEF Awaited
<1>2. PICK n \in Nat, m \in Nat, k \in Nat :
        /\ n = Cardinality(Awaited) /\ m = Cardinality(Awaited)' /\ k = Cardinality(Parsers)
        /\ m < n
  BY <1>1, Counting
<1>3. doneWorkers \in Nat /\ doneWorkers + n <= k
  BY <1>2 DEF Tallied, IInv, Shape, TypeOK
<1>4. doneWorkers' + m <= k /\ doneWorkers' + m < k
  BY <1>2, <1>3
<1> QED BY <1>2, <1>4 DEF Tallied, WriterGoesOn, Waits

\* Nothing of what the tally is about moves, except to be written or dropped.
LEMMA UnmovedTally ==
  ASSUME Tallied, WriterGoesOn, UNCHANGED <<work, parser, item, results, doneWorkers, fed, failed>>,
         \/ pending' = pending /\ db' = db /\ dropped' = dropped
         \/ pending \subseteq db'.ckpt /\ db.ckpt \subseteq db'.ckpt /\ dropped' = dropped
         \/ db' = db /\ dropped' = dropped \cup pending
  PROVE  Tallied'
<1>1. Awaited' = Awaited
  BY DEF Awaited, InSeq
<1>2. NothingLost => NothingLost'
  BY <1>1 DEF NothingLost, OnTheWay, AtParser, InSeq
<1> QED BY <1>1, <1>2, NoneLost

LEMMA FeedTally == IInv /\ Tallied /\ (FeedPut \/ PutSentinel) => Tallied'
<1> SUFFICES ASSUME IInv, Tallied, FeedPut \/ PutSentinel PROVE Tallied'
  OBVIOUS
<1>1. PICK e \in Item : /\ work' = Append(work, e)
                        /\ fed' = fed \/ fed' = fed \cup {e}
  BY StopIsNoCompany DEF FeedPut, PutSentinel, history, IInv, Shape, TypeOK
<1>2. UNCHANGED <<parser, item, results, doneWorkers, writer, pending, db, failed, dropped>>
  BY DEF FeedPut, PutSentinel, store, parsing, resultq, writing, history
<1>3. \A c : InSeq(work', c) <=> InSeq(work, c) \/ c = e
  BY <1>1, AppendHolds DEF IInv, Shape, TypeOK
<1>4. Awaited' = Awaited
  BY <1>2 DEF Awaited, InSeq
<1>5. NothingLost => NothingLost'
  BY <1>1, <1>2, <1>3, <1>4 DEF NothingLost, OnTheWay, AtParser, InSeq
<1>6. WriterGoesOn
  BY <1>2 DEF WriterGoesOn, Tallied
<1> QED BY <1>2, <1>4, <1>5, <1>6, NoneLost

LEMMA ParserStartTally ==
  ASSUME IInv, Tallied, NEW p \in Parsers, ParserStart(p)
  PROVE  Tallied'
<1>1. UNCHANGED <<work, item, results, doneWorkers, writer, pending, db, fed, failed, dropped>>
  BY DEF ParserStart, store, resultq, writing, history
<1>2. /\ parser[p] = "forked" /\ parser'[p] = "get"
      /\ \A q \in Parsers : q # p => parser'[q] = parser[q]
  BY DEF ParserStart, IInv, Shape, TypeOK
<1>3. Awaited' = Awaited
  BY <1>1, <1>2 DEF Awaited, InSeq
<1>4. NothingLost => NothingLost'
  BY <1>1, <1>3 DEF NothingLost, OnTheWay, AtParser, InSeq
<1> QED BY <1>1, <1>3, <1>4, NoneLost DEF WriterGoesOn, Tallied

LEMMA ParserGetTally ==
  ASSUME IInv, StopsComeLast, Tallied, NEW p \in Parsers, ParserGet(p)
  PROVE  Tallied'
<1>1. UNCHANGED <<results, doneWorkers, writer, pending, db, fed, failed, dropped>>
  BY DEF ParserGet, store, resultq, writing, history
<1>2. /\ work \in Seq(Item) /\ work # <<>> /\ Distinct(work) /\ work' = Tail(work)
      /\ fed \subseteq Companies
  BY DEF ParserGet, IInv, Shape, TypeOK, OnePlace
<1>3. PICK h \in Item : h = Head(work)
  BY <1>2, HeadHolds
<1>4. /\ parser[p] = "get" /\ parser'[p] \in {"stop", "parse"} /\ item'[p] = h /\ item[p] = Stop
      /\ \A q \in Parsers : q # p => parser'[q] = parser[q] /\ item'[q] = item[q]
  BY <1>3 DEF ParserGet, IInv, Shape, TypeOK, StopsComeLast
<1>5. \A c \in fed : InSeq(work, c) => InSeq(work', c) \/ c = h
  BY <1>2, <1>3, TailHolds, StopIsNoCompany
<1>6. Awaited' = Awaited
  BY <1>1, <1>4 DEF Awaited, InSeq
<1>7. \A c \in fed : AtParser(c) \/ c = h => AtParser(c)'
  BY <1>2, <1>4, StopIsNoCompany DEF AtParser
<1>8. ASSUME NEW c \in fed, OnTheWay(c) PROVE OnTheWay(c)'
  BY <1>1, <1>5, <1>6, <1>7, <1>8 DEF OnTheWay
<1>9. NothingLost => NothingLost'
  BY <1>1, <1>8 DEF NothingLost
<1> QED BY <1>1, <1>6, <1>9, NoneLost DEF WriterGoesOn, Tallied

LEMMA ParserParseTally ==
  ASSUME IInv, Tallied, NEW p \in Parsers, ParserParse(p)
  PROVE  Tallied'
<1>1. UNCHANGED <<work, results, doneWorkers, writer, pending, db, fed, dropped>>
  BY DEF ParserParse, store, resultq, writing
<1>2. parser \in [Parsers -> ParserStates] /\ item \in [Parsers -> Item] /\ parser[p] = "parse"
  BY DEF IInv, Shape, TypeOK, ParserParse
<1>3. /\ parser'[p] \in {"put", "get"}
      /\ \A q \in Parsers : q # p => parser'[q] = parser[q] /\ item'[q] = item[q]
      /\ failed \subseteq failed' /\ (item'[p] = item[p] \/ item[p] \in failed')
  <2>1. CASE item[p] \notin Unparsable
    BY <1>2, <2>1 DEF ParserParse
  <2>2. CASE item[p] \in Unparsable
    BY <1>2, <2>2 DEF ParserParse
  <2> QED BY <2>1, <2>2
<1>4. Awaited' = Awaited
  BY <1>1, <1>2, <1>3 DEF Awaited, InSeq
<1>5. \A c : AtParser(c) => AtParser(c)' \/ c \in failed'
  BY <1>3 DEF AtParser
<1>6. ASSUME NEW c \in fed, OnTheWay(c) PROVE OnTheWay(c)' \/ c \in failed'
  BY <1>1, <1>4, <1>5, <1>6 DEF OnTheWay
<1>7. NothingLost => NothingLost'
  BY <1>1, <1>3, <1>6 DEF NothingLost
<1> QED BY <1>1, <1>4, <1>7, NoneLost DEF WriterGoesOn, Tallied

LEMMA ParserPutTally ==
  ASSUME IInv, StopsComeLast, Tallied, NEW p \in Parsers, ParserPut(p)
  PROVE  Tallied'
<1>1. UNCHANGED <<work, doneWorkers, writer, pending, db, fed, failed, dropped>>
  BY DEF ParserPut, store, writing, history
<1>2. /\ parser \in [Parsers -> ParserStates] /\ item \in [Parsers -> Item]
      /\ results \in [Parsers -> Seq(Item)] /\ parser[p] \in {"put", "stop"}
      /\ fed \subseteq Companies
  BY DEF IInv, Shape, TypeOK, ParserPut
<1>3. /\ results'[p] = Append(results[p], item[p])
      /\ parser'[p] = (IF parser[p] = "put" THEN "get" ELSE "done")
      /\ \A q \in Parsers : q # p => /\ parser'[q] = parser[q] /\ item'[q] = item[q]
                                     /\ results'[q] = results[q]
  BY <1>2 DEF ParserPut
<1>4. \A c : InSeq(results'[p], c) <=> InSeq(results[p], c) \/ c = item[p]
  BY <1>2, <1>3, AppendHolds
<1>5. parser[p] = "stop" => item[p] = Stop
  BY DEF StopsComeLast
<1>6. Awaited' = Awaited
  <2>1. p \in Awaited /\ p \in Awaited'
    BY <1>2, <1>3, <1>4, <1>5 DEF Awaited
  <2>2. \A q \in Parsers \ {p} : q \in Awaited' <=> q \in Awaited
    BY <1>3 DEF Awaited
  <2> QED BY <2>1, <2>2 DEF Awaited
<1>7. p \in Awaited
  BY <1>2 DEF Awaited
<1>8. ASSUME NEW c \in fed, OnTheWay(c) PROVE OnTheWay(c)'
  <2>1. CASE AtParser(c)
    <3>1. PICK q \in Parsers : item[q] = c
      BY <2>1 DEF AtParser
    <3>2. CASE q = p
      BY <1>4, <1>6, <1>7, <3>1, <3>2 DEF OnTheWay
    <3>3. CASE q # p
      BY <1>3, <3>1, <3>3 DEF OnTheWay, AtParser
    <3> QED BY <3>2, <3>3
  <2>2. CASE \E q \in Awaited : InSeq(results[q], c)
    BY <1>3, <1>4, <1>6, <2>2 DEF OnTheWay, Awaited
  <2> QED BY <1>1, <1>8, <2>1, <2>2 DEF OnTheWay
<1>9. NothingLost => NothingLost'
  BY <1>1, <1>8 DEF NothingLost
<1> QED BY <1>1, <1>6, <1>9, NoneLost DEF WriterGoesOn, Tallied

LEMMA WriterGetTally ==
  ASSUME IInv, StopsComeLast, Tallied, NEW p \in Parsers, WriterGet(p)
  PROVE  Tallied'
<1>1. UNCHANGED <<work, parser, item, db, fed, failed, dropped>>
  BY DEF WriterGet, store, parsing, history
<1>2. /\ results \in [Parsers -> Seq(Item)] /\ results[p] # <<>> /\ Distinct(results[p])
      /\ doneWorkers \in Nat /\ fed \subseteq Companies /\ writer = "get"
  BY DEF IInv, Shape, TypeOK, OnePlace, WriterGet
<1>3. results'[p] = Tail(results[p]) /\ \A q \in Parsers : q # p => results'[q] = results[q]
  BY <1>2 DEF WriterGet
<1>4. PICK h \in Item : h = Head(results[p]) /\ h = results[p][1] /\ Len(results[p]) \in Nat \ {0}
  BY <1>2
<1>5. Awaited \in SUBSET Parsers /\ Awaited' \in SUBSET Parsers
  BY DEF Awaited
<1>6. CASE h = Stop
  <2>1. /\ Len(results[p]) = 1 /\ parser[p] \in {"done", "dead"} /\ InSeq(results[p], Stop)
    <3>1. 1 \in 1..Len(results[p])
      BY <1>4
    <3> QED BY <1>4, <1>6, <3>1 DEF StopsComeLast, InSeq
  <2>2. \A c : ~InSeq(results'[p], c)
    <3>1. Len(results'[p]) = 0
      BY <1>2, <1>3, <2>1
    <3> QED BY <3>1 DEF InSeq
  <2>3. Awaited' = Awaited \ {p} /\ p \in Awaited
    <3>1. p \in Awaited /\ p \notin Awaited'
      BY <1>1, <2>1, <2>2 DEF Awaited
    <3>2. \A q \in Parsers \ {p} : q \in Awaited' <=> q \in Awaited
      BY <1>1, <1>3 DEF Awaited
    <3> QED BY <1>5, <3>1, <3>2
  <2>4. /\ doneWorkers' = doneWorkers + 1 /\ pending' = pending
        /\ writer' = IF AllDone(doneWorkers + 1) THEN "final" ELSE "get"
    BY <1>4, <1>6 DEF WriterGet
  <2>5. \A c \in fed : InSeq(results[p], c) => FALSE
    BY <1>2, <1>4, <1>6, <2>1, StopIsNoCompany DEF InSeq
  <2>6. ASSUME NEW c \in fed, OnTheWay(c) PROVE OnTheWay(c)'
    BY <1>1, <1>3, <1>5, <2>3, <2>4, <2>5, <2>6 DEF OnTheWay, AtParser, InSeq
  <2>7. NothingLost => NothingLost'
    BY <1>1, <2>6 DEF NothingLost
  <2>8. PICK n \in Nat, m \in Nat, k \in Nat :
          /\ n = Cardinality(Awaited) /\ m = Cardinality(Awaited)' /\ k = Cardinality(Parsers)
          /\ m = n - 1
    BY <1>5, <2>3, Counting
  <2>9. doneWorkers' + m = doneWorkers + n
    BY <1>2, <2>4, <2>8
  <2>10. /\ doneWorkers + n <= k
         /\ NothingLost \/ Waits(doneWorkers + n)
    BY <1>2, <2>8 DEF Tallied
  <2>11. writer' \in {"final", "done"} => ~Waits(doneWorkers')
    BY <1>2, <2>4, <2>8 DEF AllDone, Waits
  <2>12. writer' # "done" /\ writer' # "dead"
    BY <2>4
  <2>13. Waits(doneWorkers + n) => Waits(doneWorkers' + m)
    BY <2>9 DEF Waits
  <2> QED BY <2>7, <2>8, <2>9, <2>10, <2>11, <2>12, <2>13 DEF Tallied, Waits
<1>7. CASE h # Stop
  <2>1. /\ doneWorkers' = doneWorkers /\ pending' = pending \cup {h} /\ writer' \in {"get", "flush"}
    BY <1>4, <1>7 DEF WriterGet
  <2>2. \A c \in Item : c # h => (InSeq(results'[p], c) <=> InSeq(results[p], c))
    <3>1. /\ Len(results'[p]) = Len(results[p]) - 1
          /\ \A i \in 1..Len(results'[p]) : results'[p][i] = results[p][i + 1]
      BY <1>2, <1>3
    <3>2. ASSUME NEW c \in Item, c # h, InSeq(results'[p], c) PROVE InSeq(results[p], c)
      <4>1. PICK i \in 1..Len(results'[p]) : results'[p][i] = c
        BY <3>2 DEF InSeq
      <4>2. i + 1 \in 1..Len(results[p]) /\ results[p][i + 1] = c
        BY <1>4, <3>1, <4>1
      <4> QED BY <4>2 DEF InSeq
    <3>3. ASSUME NEW c \in Item, c # h, InSeq(results[p], c) PROVE InSeq(results'[p], c)
      <4>1. PICK i \in 1..Len(results[p]) : results[p][i] = c
        BY <3>3 DEF InSeq
      <4>2. i - 1 \in 1..Len(results'[p]) /\ (i - 1) + 1 = i
        BY <1>4, <3>1, <3>3, <4>1
      <4>3. results'[p][i - 1] = c
        BY <3>1, <4>1, <4>2
      <4> QED BY <4>2, <4>3 DEF InSeq
    <3> QED BY <3>2, <3>3
  <2>3. Awaited' = Awaited
    <3>1. p \in Awaited' <=> p \in Awaited
      BY <1>1, <1>7, <2>2, StopIsNoCompany DEF Awaited
    <3>2. \A q \in Parsers \ {p} : q \in Awaited' <=> q \in Awaited
      BY <1>1, <1>3 DEF Awaited
    <3> QED BY <1>5, <3>1, <3>2
  <2>4. ASSUME NEW c \in fed, OnTheWay(c) PROVE OnTheWay(c)'
    <3>1. c \in Item
      BY <1>2, StopIsNoCompany
    <3>2. CASE \E q \in Awaited : InSeq(results[q], c)
      <4>1. PICK q \in Awaited : InSeq(results[q], c)
        BY <3>2
      <4>2. CASE q = p
        BY <2>1, <2>2, <2>3, <3>1, <4>1, <4>2 DEF OnTheWay
      <4>3. CASE q # p
        BY <1>3, <1>5, <2>3, <4>1, <4>3 DEF OnTheWay
      <4> QED BY <4>2, <4>3
    <3> QED BY <1>1, <2>1, <2>4, <3>2 DEF OnTheWay, AtParser
  <2>5. NothingLost => NothingLost'
    BY <1>1, <2>4 DEF NothingLost
  <2> QED BY <1>2, <2>1, <2>3, <2>5, NoneLost DEF WriterGoesOn
<1> QED BY <1>6, <1>7

LEMMA CtrlCTally == IInv /\ StopsComeLast /\ Tallied /\ CtrlC => Tallied'
<1> SUFFICES ASSUME IInv, StopsComeLast, Tallied, CtrlC PROVE Tallied'
  OBVIOUS
<1>1. UNCHANGED <<work, item, results, pending, doneWorkers, db, fed, failed, dropped>>
  BY DEF CtrlC, store, resultq, history
<1>2. \A p \in Parsers : parser'[p] = IF parser[p] = "forked" THEN "dead" ELSE parser[p]
  BY DEF CtrlC
<1>3. WriterGoesOn
  BY <1>1 DEF CtrlC, WriterGoesOn, Tallied
<1>4. \A p \in Parsers : InSeq(results'[p], Stop) <=> InSeq(results[p], Stop)
  BY <1>1 DEF InSeq
<1>5. Awaited' \in SUBSET Awaited
  BY <1>2, <1>4 DEF Awaited
<1>6. CASE Awaited' # Awaited
  BY <1>1, <1>3, <1>5, <1>6, OneShort
<1>7. CASE Awaited' = Awaited
  <2>1. NothingLost => NothingLost'
    BY <1>1, <1>7 DEF NothingLost, OnTheWay, AtParser, InSeq
  <2> QED BY <1>1, <1>3, <1>7, <2>1, NoneLost
<1> QED BY <1>6, <1>7

LEMMA ParserDiesTally ==
  ASSUME IInv, StopsComeLast, Tallied, NEW p \in Parsers, ParserDies(p)
  PROVE  Tallied'
<1>1. UNCHANGED <<work, writer, pending, doneWorkers, db, fed, failed, dropped>>
  BY DEF ParserDies, store, writing, history
<1>2. /\ parser \in [Parsers -> ParserStates] /\ item \in [Parsers -> Item]
      /\ results \in [Parsers -> Seq(Item)] /\ fed \subseteq Companies
  BY DEF IInv, Shape, TypeOK
<1>3. PICK n \in 0..Len(results[p]) : results' = [results EXCEPT ![p] = SubSeq(@, 1, n)]
  BY DEF ParserDies
<1>4. /\ parser'[p] = "dead" /\ item'[p] = Stop
      /\ \A q \in Parsers : q # p => /\ parser'[q] = parser[q] /\ item'[q] = item[q]
                                     /\ results'[q] = results[q]
  BY <1>2, <1>3 DEF ParserDies
<1>5. /\ Len(results'[p]) = n /\ Len(results[p]) \in Nat
      /\ \A i \in 1..n : results'[p][i] = results[p][i] /\ i \in 1..Len(results[p])
  BY <1>2, <1>3
<1>6. p \in Awaited' => p \in Awaited
  BY <1>4, <1>5 DEF Awaited, InSeq
<1>7. Awaited' \in SUBSET Awaited
  <2>1. \A q \in Parsers \ {p} : q \in Awaited' => q \in Awaited
    BY <1>4 DEF Awaited
  <2> QED BY <1>6, <2>1 DEF Awaited
<1>8. WriterGoesOn
  BY <1>1 DEF WriterGoesOn, Tallied
<1>9. CASE Awaited' # Awaited
  BY <1>1, <1>7, <1>8, <1>9, OneShort
<1>10. CASE Awaited' = Awaited
  \* It had nothing in hand, and its _STOP is still there if it had put one.
  <2>1. p \in Awaited => InSeq(results'[p], Stop)
    BY <1>4, <1>10 DEF Awaited
  <2>2. p \in Awaited => n = Len(results[p]) /\ parser[p] \in {"done", "dead"}
    <3>1. SUFFICES ASSUME p \in Awaited PROVE n = Len(results[p]) /\ parser[p] \in {"done", "dead"}
      OBVIOUS
    <3>2. PICK i \in 1..n : results[p][i] = Stop /\ i \in 1..Len(results[p])
      BY <1>5, <2>1, <3>1 DEF InSeq
    <3>3. i = Len(results[p]) /\ parser[p] \in {"done", "dead"}
      BY <3>2 DEF StopsComeLast
    <3> QED BY <1>5, <3>2, <3>3
  <2>3. item[p] = Stop
    BY <2>2 DEF Awaited, StopsComeLast
  <2>4. \A c \in fed : AtParser(c) => AtParser(c)'
    BY <1>2, <1>4, <2>3, StopIsNoCompany DEF AtParser
  <2>5. ASSUME NEW q \in Awaited, NEW c, InSeq(results[q], c) PROVE InSeq(results'[q], c)
    <3>1. CASE q = p
      BY <1>5, <2>2, <2>5, <3>1 DEF InSeq
    <3>2. CASE q # p
      BY <1>4, <2>5, <3>2 DEF Awaited
    <3> QED BY <3>1, <3>2
  <2>6. ASSUME NEW c \in fed, OnTheWay(c) PROVE OnTheWay(c)'
    BY <1>1, <1>10, <2>4, <2>5, <2>6 DEF OnTheWay
  <2>7. NothingLost => NothingLost'
    BY <1>1, <2>6 DEF NothingLost
  <2> QED BY <1>1, <1>8, <1>10, <2>7, NoneLost
<1> QED BY <1>9, <1>10

LEMMA NextTally == IInv /\ StopsComeLast /\ Tallied /\ [Next]_vars => Tallied'
<1> SUFFICES ASSUME IInv, StopsComeLast, Tallied, [Next]_vars PROVE Tallied'
  OBVIOUS
<1>1. CASE ParentStep
  <2>1. CASE InstallHandler \/ FeedNext \/ FeedEnd \/ JoinChildren
    BY <2>1, UnmovedTally
    DEF InstallHandler, FeedNext, FeedEnd, JoinChildren, store, parsing, resultq, writing, history,
        WriterGoesOn, Tallied
  <2>2. CASE EndRun
    BY <2>2, AllGoneTally DEF EndRun
  <2> QED BY <1>1, <2>1, <2>2, FeedTally DEF ParentStep
<1>2. ASSUME NEW p \in Parsers, ParserStep(p) PROVE Tallied'
  BY <1>2, ParserStartTally, ParserGetTally, ParserParseTally, ParserPutTally DEF ParserStep
<1>3. CASE WriterStep
  <2>1. CASE WriterStart
    BY <2>1, UnmovedTally DEF WriterStart, store, feeder, parsing, resultq, history, WriterGoesOn
  <2>2. CASE WriterFlush
    BY <2>2, UnmovedTally
    DEF WriterFlush, FlushDone, Committed, ToFlush, Leftovers, feeder, parsing, resultq, WriterGoesOn
  <2> QED BY <1>3, <2>1, <2>2, WriterGetTally DEF WriterStep
<1>4. CASE Failure
  <2>1. CASE WriterDropsBatch
    BY <2>1, UnmovedTally
    DEF WriterDropsBatch, RolledBack, FlushDone, feeder, parsing, resultq, WriterGoesOn
  <2>2. CASE WriterDies
    <3>1. writer' = "dead" /\ UNCHANGED <<parser, results, doneWorkers>>
      BY <2>2 DEF WriterDies, parsing, resultq
    <3>2. Awaited' = Awaited
      BY <3>1 DEF Awaited, InSeq
    <3> QED BY <3>1, <3>2 DEF Tallied
  <2>3. CASE KillAll \/ PowerLoss
    BY <2>3, AllGoneTally DEF KillAll, PowerLoss
  <2> QED BY <1>4, <2>1, <2>2, <2>3, CtrlCTally, ParserDiesTally DEF Failure
<1>5. CASE WalSync \/ UNCHANGED vars
  BY <1>5, UnmovedTally
  DEF WalSync, vars, store, feeder, parsing, resultq, writing, history, WriterGoesOn, Tallied
<1> QED BY <1>1, <1>2, <1>3, <1>4, <1>5, StartRunTally DEF Next

(* A writer that has left its loop has accounted for every company fed in  *)
(* the run - checkpointed, unparsable, or in a batch that was logged and   *)
(* dropped (backfill.py:119-120) - and none is left in a queue or at a     *)
(* parser, whatever failed and however many parsers and companies there    *)
(* are.                                                                    *)
THEOREM NoneForgotten == Spec => []WriterAccountsForAll
<1> DEFINE Inv == IInv /\ StopsComeLast /\ Tallied
<1>1. Init => StopsComeLast /\ Tallied
  <2> SUFFICES ASSUME Init PROVE StopsComeLast /\ Tallied
    OBVIOUS
  <2>1. /\ work = <<>> /\ doneWorkers = 0 /\ writer = "off" /\ fed = {}
        /\ \A p \in Parsers : parser[p] = "off" /\ item[p] = Stop /\ results[p] = <<>>
    BY DEF Init, NothingLeft
  <2>2. Awaited = Parsers /\ Cardinality(Parsers) \in Nat
    BY <2>1, Counting DEF Awaited
  <2> QED BY <2>1, <2>2, EmptyHolds DEF StopsComeLast, StopTaken, InSeq, Tallied, NothingLost
<1>2. IInv /\ StopsComeLast /\ Tallied /\ [Next]_vars => StopsComeLast' /\ Tallied'
  BY NextMarkers, NextTally
<1>3. ASSUME IInv, StopsComeLast, Tallied, writer = "done"
      PROVE  fed \subseteq db.ckpt \cup failed \cup dropped
  <2>1. /\ doneWorkers \in Nat /\ fed \subseteq Companies /\ Awaited \in SUBSET Parsers
        /\ pending = {} /\ ~Waits(doneWorkers)
    BY <1>3 DEF IInv, Shape, TypeOK, Tallied, Awaited
  <2>2. PICK n \in Nat, k \in Nat :
          /\ n = Cardinality(Awaited) /\ k = Cardinality(Parsers) /\ k # 0
          /\ n = 0 <=> Awaited = {}
    <3>1. IsFiniteSet(Parsers) /\ Parsers # {} /\ IsFiniteSet(Awaited)
      BY <2>1, BackfillAssumption, FS_Subset
    <3> QED BY <2>1, <3>1, Counting, FS_EmptySet
  <2>3. n = 0 /\ doneWorkers > 0 /\ ~Waits(doneWorkers + n)
    BY <1>3, <2>1, <2>2 DEF Tallied, Waits
  <2>4. NothingLost
    BY <1>3, <2>2, <2>3 DEF Tallied
  <2>5. \A c \in fed : ~InSeq(work, c)
    BY <1>3, <2>1, <2>3 DEF StopsComeLast, StopTaken, NoMoreFed
  <2>6. \A p \in Parsers : item[p] = Stop
    BY <1>3, <2>2, <2>3 DEF Awaited, StopsComeLast
  <2>7. \A c \in fed : ~OnTheWay(c)
    BY <2>1, <2>2, <2>3, <2>5, <2>6, StopIsNoCompany DEF OnTheWay, AtParser
  <2> QED BY <2>4, <2>7 DEF NothingLost
<1> QED BY InitIInv, <1>1, <1>2, <1>3, Invariance, PTL DEF Spec, WriterAccountsForAll

----------------------------------------------------------------------------
(* Crash safety and the abstract store.                                    *)

(* What a step does to the store: nothing, a batch of new companies, a     *)
(* sync, or a roll-back to what is on disk.                                *)
LEMMA StoreSteps ==
  ASSUME IInv, [Next]_vars
  PROVE  \/ UNCHANGED <<db, disk>>
         \/ /\ db' = Committed(db, pending) /\ disk' = disk
            /\ pending \in SUBSET (Companies \ db.ckpt)
         \/ disk' = db /\ db' = db
         \/ db' = disk /\ disk' = disk
<1>1. CASE WriterFlush
  <2>1. pending \in SUBSET (Companies \ db.ckpt)
    BY DEF IInv, Shape, TypeOK, OnePlace
  <2> QED
    BY <1>1, <2>1 DEF WriterFlush, FlushDone, ToFlush, Leftovers
<1>2. CASE PowerLoss \/ WalSync
  BY <1>2 DEF PowerLoss, Recovered, WalSync
<1>3. CASE ~WriterFlush /\ ~PowerLoss /\ ~WalSync
  <2>1. CASE \E p \in Parsers : ParserStep(p) \/ ParserDies(p) \/ WriterGet(p)
    BY <2>1
    DEF ParserStep, ParserStart, ParserGet, ParserParse, ParserPut, ParserDies, WriterGet, store
  <2> QED
    BY <1>3, <2>1
    DEF Next, vars, store, ParentStep, WriterStep, Failure, StartRun, InstallHandler, FeedNext,
        FeedPut, FeedEnd, PutSentinel, JoinChildren, EndRun, WriterStart, WriterDropsBatch,
        RolledBack, FlushDone, CtrlC, WriterDies, KillAll
<1> QED BY <1>1, <1>2, <1>3

(* No crash, kill, interrupt or failed write ever leaves a company         *)
(* checkpointed whose facts are not stored.                                *)
THEOREM CrashSafe == Spec => []CheckpointBackedByFacts
<1>1. Init => CheckpointBackedByFacts
  BY DEF Init, CheckpointBackedByFacts, Ingest!Empty
<1>2. IInv /\ CheckpointBackedByFacts /\ [Next]_vars => CheckpointBackedByFacts'
  BY StoreSteps DEF CheckpointBackedByFacts, Committed
<1> QED BY <1>1, <1>2, Invariance, PTL DEF Spec

(* Every step of the pipeline is a step of the abstract store or leaves it *)
(* alone.                                                                  *)
THEOREM Refinement == Spec => RefinesIngest
<1>1. Init => Ingest!Init
  BY DEF Init, Ingest!Init
<1>2. ASSUME IInv, [Next]_vars PROVE [Ingest!Next]_(Ingest!vars)
  <2>1. CASE UNCHANGED <<db, disk>>
    BY <2>1 DEF Ingest!vars
  <2>2. CASE /\ db' = Committed(db, pending) /\ disk' = disk
             /\ pending \in SUBSET (Companies \ db.ckpt)
    <3>1. CASE pending = {}
      <4>1. db = [rows |-> db.rows, ckpt |-> db.ckpt]
        BY <1>2 DEF IInv, Shape, TypeOK, Ingest!Store
      <4>2. db.rows \cup {} = db.rows /\ db.ckpt \cup {} = db.ckpt
        OBVIOUS
      <4>3. db' = [rows |-> db.rows \cup {}, ckpt |-> db.ckpt \cup {}]
        BY <2>2, <3>1 DEF Committed
      <4>4. db' = db
        BY <4>1, <4>2, <4>3
      <4> QED BY <2>2, <4>4 DEF Ingest!vars
    <3>2. CASE pending # {}
      BY <2>2, <3>2 DEF Committed, Ingest!Next, Ingest!IngestBatch
    <3> QED BY <3>1, <3>2
  <2>3. CASE disk' = db /\ db' = db
    BY <2>3 DEF Ingest!Next, Ingest!Sync
  <2>4. CASE db' = disk /\ disk' = disk
    BY <2>4 DEF Ingest!Next, Ingest!Rollback
  <2> QED BY <1>2, <2>1, <2>2, <2>3, <2>4, StoreSteps
<1> QED BY <1>1, <1>2, Invariance, PTL DEF Spec, RefinesIngest, Ingest!Spec
=============================================================================

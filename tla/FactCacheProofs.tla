--------------------------- MODULE FactCacheProofs ---------------------------
(***************************************************************************)
(* Proofs about the fact cache, for any companies, periods, clients and    *)
(* number of filings: companies are ingested whole, answers are complete   *)
(* and never go back, and an incremental stores what its index named.      *)
(***************************************************************************)
EXTENDS FactCache, FiniteSetTheorems, SequenceTheorems, TLAPS

USE FactAssumption

Fetched == [cik : Company \cup {"none"}, rows : SUBSET Nat, framed : SUBSET Nat]
AtRest == [at : {"idle"}, cik : Company \cup {"none"}, ask : Ask,
           answer : SUBSET Nat]
InFlight == [at : {"known", "fetch", "store", "answered"}, cik : Company,
             ask : Ask, got : Fetched, answer : SUBSET Nat, least : Nat,
             exempt : BOOLEAN, owed : SUBSET Nat]

\* A payload of companyfacts is the company's whole history at some moment.
Payload(g) ==
  /\ g \in Fetched /\ g.cik \in Company /\ g.framed \subseteq Filings(g.cik)
  /\ \E n \in 0..Len(sec[g.cik]) : g.rows = 1..n

Stored ==
  /\ sec \in [Company -> Seq(Period)]
  /\ fiscal \in [Company -> SUBSET Nat] /\ framed \in [Company -> SUBSET Nat]
  /\ \A c \in Company : framed[c] \subseteq Filings(c)
  /\ WholeHistories

\* Of a request on its way: what it will be measured by, and what it has.
OnItsWay(x) ==
  /\ x \in InFlight /\ x.least <= Len(sec[x.cik])
  /\ x.at # "answered" => x.owed = {}
  /\ x.at = "known" => /\ x.ask # History
                       /\ \/ x.exempt
                          \/ Of(x.cik, x.ask) \cap (1..x.least) = {}
  /\ x.at = "store" => /\ Payload(x.got) /\ x.got.cik = x.cik
                       /\ 1..x.least \subseteq x.got.rows
  /\ x.at = "answered" =>
       /\ x.owed \subseteq x.answer /\ x.answer \subseteq Cached(x.cik, x.ask)
       /\ (Faithful(x) \/ SeededByFrames(x) \/ IngestedMeanwhile(x))

Resting(x) ==
  /\ x \in AtRest
  /\ x.answer # {} => /\ x.cik \in Company
                      /\ x.answer \subseteq Cached(x.cik, x.ask)

Sound(x) == Resting(x) \/ OnItsWay(x)
Requested ==
  /\ request \in [Request -> AtRest \cup InFlight]
  /\ \A x \in AtRest \cup InFlight : (\E r \in Request : request[r] = x) => Sound(x)

\* Of the incremental: what is no longer to do is done.
Worked ==
  /\ incr \in [at : {"next", "store"}, todo : SUBSET Company, got : Fetched,
               due : [Company -> Nat]]
  /\ index \in [Company -> Nat]
  /\ \A c \in Company : index[c] <= Len(sec[c]) /\ incr.due[c] <= Len(sec[c])
  /\ \A g \in Fetched : incr.at = "store" /\ incr.got = g =>
       Payload(g) /\ 1..incr.due[g.cik] \subseteq g.rows
  /\ \A c \in Company \ incr.todo : 1..incr.due[c] \subseteq fiscal[c]

Framing ==
  /\ frames \in [at : {"off", "store"}, named : [Company -> SUBSET Nat]]
  /\ \A c \in Company : frames.named[c] \subseteq Filings(c)

IInv == Stored /\ Requested /\ Worked /\ Framing

\* What every step does to the store and to the SEC's filings.
Grown ==
  \A c \in Company :
    /\ Len(sec[c]) <= Len(sec'[c])
    /\ \A i \in Filings(c) : sec'[c][i] = sec[c][i]
    /\ fiscal[c] \subseteq fiscal'[c] /\ framed[c] \subseteq framed'[c]

----------------------------------------------------------------------------
(* Lemmas                                                                  *)

(* The filings that answer a question among the first n stay the same.     *)
LEMMA OfGrows ==
  ASSUME Stored, Stored', Grown, NEW c \in Company, NEW q \in Ask
  PROVE  /\ Of(c, q) \subseteq Of(c, q)'
         /\ \A n \in 0..Len(sec[c]) : Of(c, q)' \cap (1..n) = Of(c, q) \cap (1..n)
         /\ Cached(c, q) \subseteq Cached(c, q)'
<1>1. Len(sec[c]) \in Nat /\ Len(sec'[c]) \in Nat /\ Len(sec[c]) <= Len(sec'[c])
  BY DEF Stored, Grown
<1>2. Filings(c) = 1..Len(sec[c]) /\ Filings(c)' = 1..Len(sec'[c])
  BY DEF Filings
<1>3. \A i \in 1..Len(sec[c]) : sec'[c][i] = sec[c][i]
  BY <1>2 DEF Grown
<1>4. Of(c, q) = {i \in 1..Len(sec[c]) : q \in {sec[c][i], History}}
  BY <1>2 DEF Of
<1>5. Of(c, q)' = {i \in 1..Len(sec'[c]) : q \in {sec'[c][i], History}}
  BY <1>2 DEF Of
<1>6. Of(c, q) \subseteq Of(c, q)'
  BY <1>1, <1>3, <1>4, <1>5
<1>7. ASSUME NEW n \in 0..Len(sec[c])
      PROVE  Of(c, q)' \cap (1..n) = Of(c, q) \cap (1..n)
  <2>1. ASSUME NEW i \in 1..n PROVE i \in Of(c, q) <=> i \in Of(c, q)'
    <3>1. i \in 1..Len(sec[c]) /\ i \in 1..Len(sec'[c])
      BY <1>1
    <3> QED BY <3>1, <1>3, <1>4, <1>5
  <2> QED BY <2>1
<1>8. Cached(c, q) \subseteq Cached(c, q)'
  BY <1>6 DEF Cached, Grown
<1> QED BY <1>6, <1>7, <1>8

(* What was a payload of companyfacts still is one.                        *)
LEMMA PayloadKept ==
  ASSUME Stored, Stored', Grown, NEW g, Payload(g)
  PROVE  Payload(g)'
<1>1. g.cik \in Company
  BY DEF Payload
<1>2. /\ Len(sec[g.cik]) \in Nat /\ Len(sec'[g.cik]) \in Nat
      /\ Len(sec[g.cik]) <= Len(sec'[g.cik])
  BY <1>1 DEF Stored, Grown
<1>3. Filings(g.cik) \subseteq Filings(g.cik)'
  BY <1>2 DEF Filings
<1> QED BY <1>1, <1>2, <1>3 DEF Payload

(* What is right of a request stays right whatever the others commit.      *)
LEMMA SoundKept ==
  ASSUME Stored, Stored', Grown, NEW x, Sound(x)
  PROVE  Sound(x)'
<1>1. CASE Resting(x)
  <2>1. x.answer # {} => Cached(x.cik, x.ask) \subseteq Cached(x.cik, x.ask)'
    BY <1>1, OfGrows DEF Resting, AtRest
  <2> QED BY <1>1, <2>1 DEF Sound, Resting
<1>2. CASE OnItsWay(x)
  <2>1. x.cik \in Company /\ x.ask \in Ask /\ x.least \in Nat /\ x \in InFlight
    BY <1>2 DEF OnItsWay, InFlight
  <2>2. /\ Len(sec[x.cik]) \in Nat /\ Len(sec'[x.cik]) \in Nat
        /\ x.least <= Len(sec[x.cik]) /\ Len(sec[x.cik]) <= Len(sec'[x.cik])
    BY <1>2, <2>1 DEF Stored, Grown, OnItsWay
  <2>3. x.at = "known" => /\ x.ask # History
          /\ (x.exempt \/ Of(x.cik, x.ask)' \cap (1..x.least) = {})
    BY <1>2, <2>1, <2>2, OfGrows DEF OnItsWay
  <2>4. Payload(x.got) => Payload(x.got)'
    BY PayloadKept
  <2>5. ASSUME x.at = "answered"
        PROVE  /\ x.answer \subseteq Cached(x.cik, x.ask)'
               /\ (Faithful(x)' \/ SeededByFrames(x)' \/ IngestedMeanwhile(x)')
    <3>1. x.answer \subseteq Cached(x.cik, x.ask)'
      BY <1>2, <2>1, <2>5, OfGrows DEF OnItsWay
    <3>2. Faithful(x) => Faithful(x)'
      <4> SUFFICES ASSUME Faithful(x) PROVE Faithful(x)'
        OBVIOUS
      <4>1. PICK n \in x.least..Len(sec[x.cik]) :
              /\ Of(x.cik, x.ask) \cap (1..n) \subseteq x.answer
              /\ x.ask # History => x.answer \subseteq 1..n
        BY DEF Faithful
      <4>2. n \in 0..Len(sec[x.cik]) /\ n \in x.least..Len(sec'[x.cik])
        BY <2>1, <2>2
      <4>3. Of(x.cik, x.ask)' \cap (1..n) \subseteq x.answer
        BY <4>1, <4>2, <2>1, OfGrows
      <4> QED BY <4>1, <4>2, <4>3 DEF Faithful
    <3>3. SeededByFrames(x) => SeededByFrames(x)'
      BY DEF SeededByFrames
    <3>4. IngestedMeanwhile(x) => IngestedMeanwhile(x)'
      BY <2>1 DEF IngestedMeanwhile, Grown
    <3> QED BY <3>1, <3>2, <3>3, <3>4, <1>2, <2>5 DEF OnItsWay
  <2> QED BY <1>2, <2>1, <2>2, <2>3, <2>4, <2>5 DEF Sound, OnItsWay
<1> QED BY <1>1, <1>2 DEF Sound

(* A step that writes nothing.                                             *)
LEMMA NothingWritten ==
  ASSUME Stored, UNCHANGED <<sec, fiscal, framed>>
  PROVE  Stored' /\ Grown
<1>1. \A c \in Company : Len(sec[c]) \in Nat
  BY DEF Stored
<1> QED BY <1>1 DEF Stored, WholeHistories, Filings, Grown

(* An upsert of a payload leaves whole histories, and loses nothing.       *)
LEMMA UpsertGrows ==
  ASSUME Stored, NEW g, Payload(g), Upsert(g), UNCHANGED sec
  PROVE  Stored' /\ Grown /\ g.rows \subseteq fiscal'[g.cik]
<1>1. g.cik \in Company /\ g.rows \subseteq Nat /\ g.framed \subseteq Nat
  BY DEF Payload, Fetched
<1>2. fiscal' = [fiscal EXCEPT ![g.cik] = fiscal[g.cik] \cup g.rows]
  BY DEF Upsert, Merged
<1>3. framed' = [framed EXCEPT ![g.cik] = framed[g.cik] \cup g.framed]
  BY DEF Upsert, Merged
<1>4. \A c \in Company : Len(sec[c]) \in Nat
  BY DEF Stored
<1>5. \A c \in Company : framed'[c] \subseteq Filings(c)'
  BY <1>1, <1>3 DEF Stored, Payload, Filings
<1>6. WholeHistories'
  <2> SUFFICES ASSUME NEW c \in Company
               PROVE  \E n \in 0..Len(sec[c]) : fiscal'[c] = 1..n
    BY DEF WholeHistories
  <2>1. CASE c # g.cik
    BY <2>1, <1>1, <1>2 DEF Stored, WholeHistories
  <2>2. CASE c = g.cik
    <3>1. PICK n \in 0..Len(sec[c]) : fiscal[c] = 1..n
      BY DEF Stored, WholeHistories
    <3>2. PICK m \in 0..Len(sec[c]) : g.rows = 1..m
      BY <2>2 DEF Payload
    <3>3. fiscal'[c] = (1..n) \cup (1..m)
      BY <2>2, <1>1, <1>2, <3>1, <3>2 DEF Stored
    <3>4. CASE n <= m
      <4>1. fiscal'[c] = 1..m
        BY <3>3, <3>4, <1>4
      <4> QED BY <4>1
    <3>5. CASE ~(n <= m)
      <4>1. fiscal'[c] = 1..n
        BY <3>3, <3>5, <1>4
      <4> QED BY <4>1
    <3> QED BY <3>4, <3>5
  <2> QED BY <2>1, <2>2
<1>7. fiscal' \in [Company -> SUBSET Nat] /\ framed' \in [Company -> SUBSET Nat]
  BY <1>1, <1>2, <1>3 DEF Stored
<1>8. Grown
  BY <1>1, <1>2, <1>3, <1>4 DEF Grown, Stored
<1>9. g.rows \subseteq fiscal'[g.cik]
  BY <1>1, <1>2 DEF Stored
<1> QED BY <1>5, <1>6, <1>7, <1>8, <1>9 DEF Stored

(* A filing is added behind the others.                                    *)
LEMMA FileGrows ==
  ASSUME Stored, NEW c \in Company, NEW p \in Period, File(c, p)
  PROVE  Stored' /\ Grown /\ Len(sec'[c]) \in Nat
<1>1. sec' = [sec EXCEPT ![c] = Append(sec[c], p)]
  BY DEF File
<1>2. fiscal' = fiscal /\ framed' = framed
  BY DEF File, store
<1>3. sec' \in [Company -> Seq(Period)]
  BY <1>1 DEF Stored
<1>4. \A d \in Company : /\ Len(sec[d]) \in Nat /\ Len(sec'[d]) \in Nat
                         /\ Len(sec[d]) <= Len(sec'[d])
                         /\ \A i \in 1..Len(sec[d]) : sec'[d][i] = sec[d][i]
  BY <1>1 DEF Stored
<1>5. Grown
  BY <1>2, <1>4 DEF Grown, Filings
<1>6. \A d \in Company : framed'[d] \subseteq Filings(d)'
  BY <1>2, <1>4 DEF Stored, Filings
<1>7. WholeHistories'
  <2> SUFFICES ASSUME NEW d \in Company
               PROVE  \E n \in 0..Len(sec'[d]) : fiscal'[d] = 1..n
    BY DEF WholeHistories
  <2>1. PICK n \in 0..Len(sec[d]) : fiscal[d] = 1..n
    BY DEF Stored, WholeHistories
  <2>2. n \in 0..Len(sec'[d])
    BY <1>4
  <2> QED BY <1>2, <2>1, <2>2
<1> QED BY <1>2, <1>3, <1>4, <1>5, <1>6, <1>7 DEF Stored

(* The frames backfill adds to `framed` alone.                             *)
LEMMA FramesGrow ==
  ASSUME Stored, Framing, FramesStore
  PROVE  Stored' /\ Grown
<1>1. fiscal' = fiscal /\ sec' = sec
  <2>1. fiscal' = [c \in Company |-> fiscal[c]] /\ sec' = sec
    BY DEF FramesStore, Merged, edgar
  <2> QED BY <2>1 DEF Stored
<1>2. framed' = [c \in Company |-> framed[c] \cup frames.named[c]]
  BY DEF FramesStore, Merged
<1>3. \A c \in Company : /\ framed'[c] \subseteq Filings(c)' /\ Len(sec[c]) \in Nat
                         /\ framed[c] \subseteq framed'[c]
  BY <1>1, <1>2 DEF Stored, Framing, Filings
<1>4. framed' \in [Company -> SUBSET Nat]
  BY <1>2 DEF Stored, Framing
<1> QED BY <1>1, <1>3, <1>4 DEF Stored, Grown, WholeHistories

(* If only one request changes, to a sound one, all are sound again.       *)
LEMMA OneRequest ==
  ASSUME Stored, Requested, Stored', Grown, NEW r \in Request,
         NEW y \in AtRest \cup InFlight, Sound(y)',
         request' = [request EXCEPT ![r] = y]
  PROVE  Requested'
<1>1. request' \in [Request -> AtRest \cup InFlight]
  BY DEF Requested
<1>2. ASSUME NEW x \in AtRest \cup InFlight, NEW s \in Request, request'[s] = x
      PROVE  Sound(x)'
  <2>1. CASE s = r
    BY <1>2, <2>1 DEF Requested
  <2>2. CASE s # r
    <3>1. request[s] = x
      BY <1>2, <2>2 DEF Requested
    <3>2. Sound(x)
      BY <3>1 DEF Requested
    <3> QED BY <3>2, SoundKept
  <2> QED BY <2>1, <2>2
<1> QED BY <1>1, <1>2 DEF Requested

(* A client without an answer has nothing to be wrong about.               *)
LEMMA NoAnswerSound ==
  NoAnswer \in AtRest /\ Resting(NoAnswer)
BY DEF NoAnswer, AtRest, Resting, Ask

(* What has been ingested of a company is exactly what is to be covered.   *)
LEMMA LeastFits ==
  ASSUME Stored, NEW c \in Company
  PROVE  /\ Least(c) \in Nat /\ Least(c) <= Len(sec[c])
         /\ HasAnyFacts(c) => fiscal[c] = 1..Least(c)
<1>1. PICK n \in 0..Len(sec[c]) : fiscal[c] = 1..n
  BY DEF Stored, WholeHistories
<1>2. Len(sec[c]) \in Nat
  BY DEF Stored
<1>3. CASE HasAnyFacts(c)
  <2>1. n \in Nat /\ 1 \in Int /\ n \in Int /\ ~(1 > n)
    BY <1>1, <1>2, <1>3 DEF HasAnyFacts
  <2>2. Cardinality(1..n) = n - 1 + 1
    BY <2>1, FS_Interval
  <2>3. Cardinality(1..n) = n
    BY <2>1, <2>2
  <2>4. Least(c) = n
    BY <1>1, <1>3, <2>3 DEF Least
  <2> QED BY <1>1, <1>2, <2>1, <2>4
<1>4. CASE ~HasAnyFacts(c)
  BY <1>2, <1>4 DEF Least
<1> QED BY <1>3, <1>4

(* A request begun is a record of the right shape.                         *)
LEMMA BegunInFlight ==
  ASSUME NEW a \in {"known", "fetch", "store", "answered"}, NEW c \in Company,
         NEW q \in Ask, NEW g \in Fetched, NEW s \in SUBSET Nat, NEW n \in Nat,
         NEW e \in BOOLEAN, NEW o \in SUBSET Nat
  PROVE  [at |-> a, cik |-> c, ask |-> q, got |-> g, answer |-> s,
          least |-> n, exempt |-> e, owed |-> o] \in InFlight
BY DEF InFlight

(* A request answered from the store, or sent on to the SEC, is sound.     *)
LEMMA LookSound ==
  ASSUME Stored, Requested, NEW r \in Request, NEW c \in Company, NEW q \in Ask,
         request[r].at = "idle",
         NEW y,
         y = IF Cached(c, q) # {} THEN Asking(r, c, q, "answered", Cached(c, q))
             ELSE IF q = History THEN Asking(r, c, q, "fetch", {})
                                 ELSE Asking(r, c, q, "known", {})
  PROVE  OnItsWay(y)
<1> DEFINE owed == IF <<request[r].cik, request[r].ask>> = <<c, q>>
                     THEN request[r].answer ELSE {}
           exempt == ~HasAnyFacts(c) /\ (q = History => HasAnyRow(c))
<1>1. owed \subseteq Cached(c, q) /\ owed \subseteq Nat
  <2>1. PICK x \in AtRest \cup InFlight : request[r] = x
    BY DEF Requested
  <2>2. x.at = "idle" /\ Sound(x)
    BY <2>1 DEF Requested
  <2>3. Resting(x)
    BY <2>2 DEF Sound, OnItsWay, InFlight
  <2> QED BY <2>1, <2>3 DEF Resting, AtRest
<1>2. Cached(c, q) \subseteq Nat
  BY DEF Stored, Cached
<1>3. NoFetch \in Fetched
  BY DEF NoFetch, Fetched
<1>4. /\ Least(c) \in Nat /\ Least(c) <= Len(sec[c])
      /\ HasAnyFacts(c) => fiscal[c] = 1..Least(c)
  BY LeastFits
<1>5. exempt \in BOOLEAN
  OBVIOUS
<1> HIDE DEF owed, exempt
<1>6. CASE Cached(c, q) # {}
  <2>1. y = [at |-> "answered", cik |-> c, ask |-> q, got |-> NoFetch,
             answer |-> Cached(c, q), least |-> Least(c), exempt |-> exempt,
             owed |-> owed]
    BY <1>6 DEF Asking, owed, exempt
  <2>2. y \in InFlight
    <3>1. owed \in SUBSET Nat /\ Cached(c, q) \in SUBSET Nat
      BY <1>1, <1>2
    <3>2. [at |-> "answered", cik |-> c, ask |-> q, got |-> NoFetch,
           answer |-> Cached(c, q), least |-> Least(c), exempt |-> exempt,
           owed |-> owed] \in InFlight
      BY <3>1, <1>3, <1>4, <1>5, BegunInFlight, Zenon
    <3> QED BY <2>1, <3>2, Zenon
  <2>a. /\ y.at = "answered" /\ y.cik = c /\ y.ask = q /\ y.least = Least(c)
        /\ y.answer = Cached(c, q) /\ y.owed = owed /\ y.exempt = exempt
    BY <2>1
  <2>3. CASE HasAnyFacts(c)
    <3>1. Least(c) \in y.least..Len(sec[y.cik])
      BY <2>a, <1>4 DEF Stored
    <3>2. Of(c, q) \cap (1..Least(c)) \subseteq Cached(c, q)
      BY <1>4, <2>3 DEF Cached
    <3>3. q # History => Cached(c, q) \subseteq 1..Least(c)
      BY <1>4, <2>3 DEF Cached
    <3>4. Faithful(y)
      BY <2>a, <3>1, <3>2, <3>3 DEF Faithful
    <3> QED BY <3>4, <2>a, <2>2, <1>1, <1>4 DEF OnItsWay
  <2>4. CASE ~HasAnyFacts(c)
    <3>1. q = History
      BY <1>6, <2>4 DEF Cached, HasAnyFacts
    <3>2. exempt
      BY <1>6, <2>4, <3>1 DEF Cached, HasAnyFacts, HasAnyRow, exempt
    <3>3. SeededByFrames(y)
      BY <2>a, <3>1, <3>2 DEF SeededByFrames
    <3> QED BY <3>3, <2>a, <2>2, <1>1, <1>4 DEF OnItsWay
  <2> QED BY <2>3, <2>4
<1>7. CASE Cached(c, q) = {}
  <2>1. y = [at |-> IF q = History THEN "fetch" ELSE "known",
             cik |-> c, ask |-> q, got |-> NoFetch, answer |-> {},
             least |-> Least(c), exempt |-> exempt, owed |-> owed]
    BY <1>7 DEF Asking, owed, exempt
  <2>2. owed = {}
    BY <1>1, <1>7
  <2>3. y \in InFlight
    <3>1. ASSUME NEW a \in {"known", "fetch", "store", "answered"}
          PROVE  [at |-> a, cik |-> c, ask |-> q, got |-> NoFetch,
                  answer |-> {}, least |-> Least(c), exempt |-> exempt,
                  owed |-> owed] \in InFlight
      <4>1. owed \in SUBSET Nat /\ {} \in SUBSET Nat
        BY <1>1
      <4> QED BY <4>1, <1>3, <1>4, <1>5, BegunInFlight, Zenon
    <3>2. (IF q = History THEN "fetch" ELSE "known")
            \in {"known", "fetch", "store", "answered"}
      OBVIOUS
    <3> QED BY <2>1, <3>1, <3>2, Zenon
  <2>a. /\ y.at \in {"fetch", "known"} /\ (y.at = "known" => q # History)
        /\ y.cik = c /\ y.ask = q /\ y.least = Least(c)
        /\ y.owed = owed /\ y.exempt = exempt
    BY <2>1
  <2>4. q # History => exempt \/ Of(c, q) \cap (1..Least(c)) = {}
    BY <1>4, <1>7 DEF Cached, exempt
  <2> QED BY <2>a, <2>2, <2>3, <2>4, <1>4 DEF OnItsWay
<1> QED BY <1>6, <1>7

(* A companyfacts response is a whole history.                             *)
LEMMA FetchFactsPayload ==
  ASSUME Stored, NEW c \in Company, NEW carries \in BOOLEAN
  PROVE  /\ Payload(FetchFacts(c, carries)) /\ FetchFacts(c, carries).cik = c
         /\ FetchFacts(c, carries).rows = 1..Len(sec[c])
<1>1. Len(sec[c]) \in Nat
  BY DEF Stored
<1>2. Filings(c) = 1..Len(sec[c]) /\ Filings(c) \subseteq Nat
  BY <1>1 DEF Filings
<1>3. Current(c) \subseteq Filings(c)
  BY DEF Current
<1>4. PICK f \in SUBSET Filings(c) :
        FetchFacts(c, carries) = [cik |-> c, rows |-> Filings(c), framed |-> f]
  BY <1>3 DEF FetchFacts
<1>5. f \in SUBSET Nat
  BY <1>2
<1>6. FetchFacts(c, carries) \in Fetched
  BY <1>2, <1>4, <1>5 DEF Fetched
<1>7. \E n \in 0..Len(sec[c]) : Filings(c) = 1..n
  BY <1>1, <1>2
<1> QED BY <1>2, <1>4, <1>6, <1>7 DEF Payload

(* A request in the state of one on its way is one on its way.             *)
LEMMA IsOnItsWay ==
  ASSUME Requested, NEW r \in Request, request[r].at # "idle"
  PROVE  \E x \in InFlight : request[r] = x /\ OnItsWay(x)
<1>1. PICK x \in AtRest \cup InFlight : request[r] = x
  BY DEF Requested
<1>2. Sound(x) /\ x.at # "idle"
  BY <1>1 DEF Requested
<1>3. OnItsWay(x)
  BY <1>2 DEF Sound, Resting, AtRest
<1> QED BY <1>1, <1>3 DEF OnItsWay

(* The second query of a statement leaves the request sound.               *)
LEMMA CheckKnownSound ==
  ASSUME Stored, NEW x \in InFlight, OnItsWay(x), x.at = "known", NEW y,
         y = IF HasAnyFacts(x.cik) THEN Answered(x, {}) ELSE [x EXCEPT !.at = "fetch"]
  PROVE  OnItsWay(y)
<1>1. /\ x.cik \in Company /\ x.ask # History /\ x.least \in Nat
      /\ x.least <= Len(sec[x.cik]) /\ x.owed = {}
      /\ x.exempt \/ Of(x.cik, x.ask) \cap (1..x.least) = {}
  BY DEF OnItsWay, InFlight
<1>2. CASE HasAnyFacts(x.cik)
  <2>1. y = [x EXCEPT !.at = "answered", !.answer = {}, !.got = NoFetch]
    BY <1>2 DEF Answered
  <2>2. NoFetch \in Fetched
    BY DEF NoFetch, Fetched
  <2>3. /\ y \in InFlight /\ y.at = "answered" /\ y.answer = {}
        /\ y.cik = x.cik /\ y.ask = x.ask /\ y.least = x.least
        /\ y.exempt = x.exempt /\ y.owed = x.owed
    BY <2>1, <2>2 DEF InFlight
  <2>4. CASE x.exempt
    <3>1. IngestedMeanwhile(y)
      BY <1>1, <1>2, <2>3, <2>4 DEF IngestedMeanwhile, HasAnyFacts
    <3> QED BY <1>1, <2>3, <3>1 DEF OnItsWay
  <2>5. CASE Of(x.cik, x.ask) \cap (1..x.least) = {}
    <3>1. x.least \in y.least..Len(sec[y.cik])
      BY <1>1, <2>3 DEF Stored
    <3>2. Faithful(y)
      BY <1>1, <2>3, <2>5, <3>1 DEF Faithful
    <3> QED BY <1>1, <2>3, <3>2 DEF OnItsWay
  <2> QED BY <1>1, <2>4, <2>5
<1>3. CASE ~HasAnyFacts(x.cik)
  <2>1. y = [x EXCEPT !.at = "fetch"]
    BY <1>3
  <2>2. /\ y \in InFlight /\ y.at = "fetch" /\ y.cik = x.cik
        /\ y.least = x.least /\ y.owed = x.owed
    BY <2>1 DEF InFlight
  <2> QED BY <1>1, <2>2 DEF OnItsWay
<1> QED BY <1>2, <1>3

(* A fetch brings at least what the answer must cover.                     *)
LEMMA FetchSound ==
  ASSUME Stored, NEW x \in InFlight, OnItsWay(x), x.at = "fetch",
         NEW carries \in BOOLEAN, NEW y,
         y = [x EXCEPT !.at = "store", !.got = FetchFacts(x.cik, carries)]
  PROVE  OnItsWay(y)
<1>1. /\ x.cik \in Company /\ x.least \in Nat /\ x.least <= Len(sec[x.cik])
      /\ x.owed = {} /\ Len(sec[x.cik]) \in Nat
  BY DEF OnItsWay, InFlight, Stored
<1>2. PICK g \in Fetched : /\ g = FetchFacts(x.cik, carries) /\ Payload(g)
                           /\ g.cik = x.cik /\ g.rows = 1..Len(sec[x.cik])
  BY <1>1, FetchFactsPayload DEF Payload
<1>3. y = [x EXCEPT !.at = "store", !.got = g]
  BY <1>2
<1>4. /\ y \in InFlight /\ y.at = "store" /\ y.cik = x.cik /\ y.got = g
      /\ y.least = x.least /\ y.owed = x.owed
  BY <1>3 DEF InFlight
<1>5. 1..x.least \subseteq g.rows
  BY <1>1, <1>2
<1> QED BY <1>1, <1>2, <1>4, <1>5 DEF OnItsWay

(* The answer given after the upsert is what was stored.                   *)
LEMMA StoreAndAnswerSound ==
  ASSUME Stored, NEW x \in InFlight, OnItsWay(x), x.at = "store",
         Upsert(x.got), UNCHANGED sec, NEW y,
         y = Answered(x, x.got.rows \cap Of(x.cik, x.ask))
  PROVE  Stored' /\ Grown /\ OnItsWay(y)'
<1>1. /\ x.cik \in Company /\ x.least \in Nat /\ x.least <= Len(sec[x.cik])
      /\ x.owed = {} /\ Payload(x.got) /\ x.got.cik = x.cik
      /\ 1..x.least \subseteq x.got.rows
  BY DEF OnItsWay, InFlight
<1>2. Stored' /\ Grown /\ x.got.rows \subseteq fiscal'[x.cik]
  BY <1>1, UpsertGrows
<1>3. PICK n \in 0..Len(sec[x.cik]) : x.got.rows = 1..n
  BY <1>1 DEF Payload
<1>4. PICK s \in SUBSET Nat : s = (1..n) \cap Of(x.cik, x.ask)
  <2>1. (1..n) \cap Of(x.cik, x.ask) \in SUBSET Nat
    OBVIOUS
  <2> QED BY <2>1, Zenon
<1>5. y = [x EXCEPT !.at = "answered", !.answer = s, !.got = NoFetch]
  BY <1>3, <1>4 DEF Answered
<1>6. NoFetch \in Fetched
  BY DEF NoFetch, Fetched
<1>7. /\ y \in InFlight /\ y.at = "answered" /\ y.answer = s
      /\ y.cik = x.cik /\ y.ask = x.ask /\ y.least = x.least /\ y.owed = {}
  BY <1>1, <1>5, <1>6 DEF InFlight
<1>8. Of(x.cik, x.ask)' = Of(x.cik, x.ask)
  BY DEF Of, Filings
<1>9. s \subseteq Cached(x.cik, x.ask)'
  BY <1>2, <1>3, <1>4, <1>8 DEF Cached
<1>10. n \in x.least..Len(sec'[x.cik])
  <2>1. x.least # 0 => x.least \in 1..n
    BY <1>1, <1>3
  <2> QED BY <1>1, <1>3, <2>1 DEF Stored
<1>11. Faithful(y)'
  BY <1>4, <1>7, <1>8, <1>10 DEF Faithful
<1>12. x.least <= Len(sec'[x.cik])
  BY <1>1
<1> QED BY <1>2, <1>7, <1>9, <1>11, <1>12 DEF OnItsWay

----------------------------------------------------------------------------
(* The inductive step, one part of IInv after the other                    *)

(* No step takes anything from the store, or leaves part of a history.     *)
LEMMA StoreStep ==
  ASSUME IInv, [Next]_vars
  PROVE  Stored' /\ Grown
<1> USE DEF IInv
<1>1. ASSUME NEW c \in Company, NEW p \in Reported[c], File(c, p)
      PROVE  Stored' /\ Grown
  BY <1>1, FileGrows
<1>2. ASSUME NEW r \in Request, StoreAndAnswer(r)
      PROVE  Stored' /\ Grown
  <2>1. PICK x \in InFlight : request[r] = x /\ OnItsWay(x)
    BY <1>2, IsOnItsWay DEF StoreAndAnswer
  <2>2. Payload(x.got) /\ Upsert(x.got)
    BY <1>2, <2>1 DEF StoreAndAnswer, OnItsWay
  <2> QED BY <1>2, <2>2, UpsertGrows DEF StoreAndAnswer, edgar
<1>3. ASSUME IncrStore PROVE Stored' /\ Grown
  <2>1. PICK g \in Fetched : incr.got = g
    BY DEF Worked
  <2>2. Payload(g) /\ Upsert(g)
    BY <1>3, <2>1 DEF IncrStore, Worked
  <2> QED BY <1>3, <2>2, UpsertGrows DEF IncrStore, edgar
<1>4. ASSUME FramesStore PROVE Stored' /\ Grown
  BY <1>4, FramesGrow
<1>5. ASSUME UNCHANGED <<sec, fiscal, framed>> PROVE Stored' /\ Grown
  BY <1>5, NothingWritten
<1>6. CASE Requests
  BY <1>2, <1>5, <1>6
     DEF Requests, Look, CheckKnown, Fetch, Reply, RequestFails, ApiRestarts,
         edgar, store
<1>7. CASE Incremental
  BY <1>3, <1>5, <1>7
     DEF Incremental, IncrStart, IncrFetch, IncrFetchFails, IncrEnd, IncrBreaks,
         edgar, store
<1>8. CASE DayMissed \/ (\E p \in Period : FramesFetch(p)) \/ FramesBreaks
           \/ UNCHANGED vars
  BY <1>5, <1>8 DEF DayMissed, FramesFetch, FramesBreaks, edgar, store, vars
<1> QED BY <1>1, <1>4, <1>6, <1>7, <1>8 DEF Next

(* Every request stays sound.                                              *)
LEMMA RequestedStep ==
  ASSUME IInv, [Next]_vars
  PROVE  Requested'
<1> USE DEF IInv
<1>1. Stored' /\ Grown
  BY StoreStep
<1>2. ASSUME NEW r \in Request, NEW y, OnItsWay(y) \/ Resting(y),
             request' = [request EXCEPT ![r] = y]
      PROVE  Requested'
  <2>1. y \in AtRest \cup InFlight /\ Sound(y)
    BY <1>2 DEF OnItsWay, Resting, Sound
  <2>2. Sound(y)'
    BY <1>1, <2>1, SoundKept
  <2> QED BY <1>1, <1>2, <2>1, <2>2, OneRequest
<1>3. ASSUME NEW r \in Request, NEW c \in Company, NEW q \in Asked[c], Look(r, c, q)
      PROVE  Requested'
  <2> DEFINE y == IF Cached(c, q) # {} THEN Asking(r, c, q, "answered", Cached(c, q))
                  ELSE IF q = History THEN Asking(r, c, q, "fetch", {})
                                      ELSE Asking(r, c, q, "known", {})
  <2>1. request' = [request EXCEPT ![r] = y] /\ request[r].at = "idle"
    BY <1>3 DEF Look
  <2>2. q \in Ask
    BY DEF Ask
  <2> HIDE DEF y
  <2>3. OnItsWay(y)
    BY <2>1, <2>2, LookSound DEF y
  <2> QED BY <1>2, <2>1, <2>3
<1>4. ASSUME NEW r \in Request, CheckKnown(r) PROVE Requested'
  <2>1. PICK x \in InFlight : request[r] = x /\ OnItsWay(x) /\ x.at = "known"
    BY <1>4, IsOnItsWay DEF CheckKnown
  <2> DEFINE y == IF HasAnyFacts(x.cik) THEN Answered(x, {})
                                        ELSE [x EXCEPT !.at = "fetch"]
  <2>2. request' = [request EXCEPT ![r] = y]
    BY <1>4, <2>1 DEF CheckKnown
  <2> HIDE DEF y
  <2>3. OnItsWay(y)
    BY <2>1, CheckKnownSound DEF y
  <2> QED BY <1>2, <2>2, <2>3
<1>5. ASSUME NEW r \in Request, NEW carries \in FactsCarryFrame, Fetch(r, carries)
      PROVE  Requested'
  <2>1. PICK x \in InFlight : request[r] = x /\ OnItsWay(x) /\ x.at = "fetch"
    BY <1>5, IsOnItsWay DEF Fetch
  <2> DEFINE y == [x EXCEPT !.at = "store", !.got = FetchFacts(x.cik, carries)]
  <2>2. request' = [request EXCEPT ![r] = y]
    BY <1>5, <2>1 DEF Fetch
  <2>3. carries \in BOOLEAN
    OBVIOUS
  <2> HIDE DEF y
  <2>4. OnItsWay(y)
    BY <2>1, <2>3, FetchSound DEF y
  <2> QED BY <1>2, <2>2, <2>4
<1>6. ASSUME NEW r \in Request, StoreAndAnswer(r) PROVE Requested'
  <2>1. PICK x \in InFlight : request[r] = x /\ OnItsWay(x) /\ x.at = "store"
    BY <1>6, IsOnItsWay DEF StoreAndAnswer
  <2>y. PICK y : y = Answered(x, x.got.rows \cap Of(x.cik, x.ask))
    OBVIOUS
  <2>2. /\ request' = [request EXCEPT ![r] = y] /\ Upsert(x.got)
        /\ sec' = sec
    BY <1>6, <2>1, <2>y DEF StoreAndAnswer, edgar
  <2>3. OnItsWay(y)'
    BY <2>1, <2>2, <2>y, StoreAndAnswerSound
  <2>4. y \in AtRest \cup InFlight /\ Sound(y)'
    BY <2>3 DEF OnItsWay, Sound
  <2> QED BY <1>1, <2>2, <2>4, OneRequest
<1>7. ASSUME NEW r \in Request, Reply(r) PROVE Requested'
  <2>1. PICK x \in InFlight : request[r] = x /\ OnItsWay(x) /\ x.at = "answered"
    BY <1>7, IsOnItsWay DEF Reply
  <2> DEFINE y == Idle(x.cik, x.ask, x.answer)
  <2>2. request' = [request EXCEPT ![r] = y]
    BY <1>7, <2>1 DEF Reply
  <2>3. Resting(y)
    <3>1. CASE x.answer = {}
      BY <3>1, NoAnswerSound DEF Idle
    <3>2. CASE x.answer # {}
      <4>1. y = [at |-> "idle", cik |-> x.cik, ask |-> x.ask, answer |-> x.answer]
        BY <3>2 DEF Idle
      <4>2. /\ x.cik \in Company /\ x.ask \in Ask /\ x.answer \in SUBSET Nat
            /\ x.answer \subseteq Cached(x.cik, x.ask)
        BY <2>1 DEF InFlight, OnItsWay
      <4> QED BY <4>1, <4>2 DEF Resting, AtRest
    <3> QED BY <3>1, <3>2
  <2> HIDE DEF y
  <2> QED BY <1>2, <2>2, <2>3
<1>8. ASSUME NEW r \in Request, RequestFails(r) PROVE Requested'
  BY <1>2, <1>8, NoAnswerSound DEF RequestFails
<1>9. CASE ApiRestarts
  <2>1. request' = [r \in Request |-> NoAnswer]
    BY <1>9 DEF ApiRestarts
  <2>2. Sound(NoAnswer)'
    BY <1>1, NoAnswerSound, SoundKept DEF Sound
  <2> QED BY <2>1, <2>2, NoAnswerSound DEF Requested
<1>10. CASE Requests
  BY <1>3, <1>4, <1>5, <1>6, <1>7, <1>8, <1>9, <1>10 DEF Requests
<1>11. CASE UNCHANGED request
  <2>1. ASSUME NEW x \in AtRest \cup InFlight, \E r \in Request : request'[r] = x
        PROVE  Sound(x)'
    <3>1. Sound(x)
      BY <1>11, <2>1 DEF Requested
    <3> QED BY <1>1, <3>1, SoundKept
  <2> QED BY <1>11, <2>1 DEF Requested
<1> QED BY <1>10, <1>11
        DEF Next, vars, File, DayMissed, Incremental, IncrStart, IncrFetch,
            IncrFetchFails, IncrStore, IncrEnd, IncrBreaks, FramesFetch,
            FramesStore, FramesBreaks

(* A run that has one company's payload in hand, or none, and a new store. *)
LEMMA WorkedKept ==
  ASSUME Stored, Worked, Stored', Grown, UNCHANGED incr,
         index' \in [Company -> Nat],
         \A c \in Company : index'[c] <= Len(sec'[c])
  PROVE  Worked'
<1>1. \A c \in Company : incr'.due[c] <= Len(sec'[c])
  <2> SUFFICES ASSUME NEW c \in Company PROVE incr.due[c] <= Len(sec'[c])
    OBVIOUS
  <2>1. /\ incr.due[c] \in Nat /\ Len(sec[c]) \in Nat /\ Len(sec'[c]) \in Nat
        /\ Len(sec[c]) <= Len(sec'[c]) /\ incr.due[c] <= Len(sec[c])
    BY DEF Worked, Stored, Grown
  <2> QED BY <2>1
<1>2. ASSUME NEW g \in Fetched, incr'.at = "store", incr'.got = g
      PROVE  Payload(g)' /\ 1..incr'.due[g.cik] \subseteq g.rows
  <2>1. Payload(g) /\ 1..incr.due[g.cik] \subseteq g.rows
    BY <1>2 DEF Worked
  <2> QED BY <2>1, PayloadKept
<1>3. \A c \in Company \ incr'.todo : 1..incr'.due[c] \subseteq fiscal'[c]
  BY DEF Worked, Grown
<1> QED BY <1>1, <1>2, <1>3 DEF Worked

(* The incremental has stored what it no longer has to do.                 *)
LEMMA WorkedStep ==
  ASSUME IInv, [Next]_vars
  PROVE  Worked'
<1> USE DEF IInv
<1>1. Stored' /\ Grown
  BY StoreStep
<1>2. \A c \in Company : /\ Len(sec[c]) \in Nat /\ Len(sec'[c]) \in Nat
                         /\ Len(sec[c]) <= Len(sec'[c]) /\ index[c] \in Nat
                         /\ index[c] <= Len(sec'[c])
  <2> SUFFICES ASSUME NEW c \in Company
               PROVE  /\ Len(sec[c]) \in Nat /\ Len(sec'[c]) \in Nat
                      /\ Len(sec[c]) <= Len(sec'[c]) /\ index[c] \in Nat
                      /\ index[c] <= Len(sec'[c])
    OBVIOUS
  <2>1. /\ Len(sec[c]) \in Nat /\ Len(sec'[c]) \in Nat
        /\ Len(sec[c]) <= Len(sec'[c])
    BY <1>1 DEF Stored, Grown
  <2>2. index[c] \in Nat /\ index[c] <= Len(sec[c])
    BY DEF Worked
  <2> QED BY <2>1, <2>2
<1>3. ASSUME UNCHANGED index
      PROVE  /\ index' \in [Company -> Nat]
             /\ \A c \in Company : index'[c] <= Len(sec'[c])
  <2>1. index' = index /\ index \in [Company -> Nat]
    BY <1>3 DEF Worked
  <2> QED BY <1>2, <2>1
<1>4. NoFetch \in Fetched
  BY DEF NoFetch, Fetched
<1>5. /\ NoRun \in [at : {"next", "store"}, todo : SUBSET Company, got : Fetched,
                    due : [Company -> Nat]]
      /\ NoRun.at = "next" /\ NoRun.due = [c \in Company |-> 0]
  BY <1>4 DEF NoRun
<1>6. ASSUME incr' = NoRun, UNCHANGED <<index, sec>> PROVE Worked'
  BY <1>1, <1>2, <1>3, <1>5, <1>6 DEF Worked
<1>7. ASSUME NEW c \in Company, NEW p \in Reported[c], File(c, p) PROVE Worked'
  <2>1. /\ index' = [index EXCEPT ![c] = Len(sec'[c])] /\ UNCHANGED incr
    BY <1>7 DEF File
  <2>2. index' \in [Company -> Nat]
    BY <1>2, <2>1 DEF Worked
  <2>3. ASSUME NEW d \in Company PROVE index'[d] <= Len(sec'[d])
    <3>1. CASE d = c
      BY <1>2, <2>1, <3>1 DEF Worked
    <3>2. CASE d # c
      BY <1>2, <2>1, <3>2 DEF Worked
    <3> QED BY <3>1, <3>2
  <2> QED BY <1>1, <2>1, <2>2, <2>3, WorkedKept
<1>8. ASSUME DayMissed PROVE Worked'
  <2>1. /\ index' \in [Company -> Nat] /\ UNCHANGED incr
        /\ \A d \in Company : index'[d] <= Len(sec'[d])
    BY <1>2, <1>8 DEF DayMissed
  <2> QED BY <1>1, <2>1, WorkedKept
<1>9. ASSUME IncrStart PROVE Worked'
  <2>1. /\ index' = [c \in Company |-> 0] /\ sec' = sec
        /\ incr' = [at |-> "next", todo |-> {c \in Company : index[c] > 0},
                    got |-> NoFetch, due |-> index]
    BY <1>9 DEF IncrStart
  <2>2. incr' \in [at : {"next", "store"}, todo : SUBSET Company, got : Fetched,
                   due : [Company -> Nat]]
    BY <1>4, <2>1 DEF Worked
  <2>3. incr'.at = "next" /\ incr'.due = index
        /\ incr'.todo = {c \in Company : index[c] > 0}
    BY <2>1
  <2>4. \A c \in Company \ incr'.todo : 1..incr'.due[c] \subseteq fiscal'[c]
    BY <1>2, <2>3
  <2>5. \A c \in Company : index'[c] <= Len(sec'[c]) /\ incr'.due[c] <= Len(sec'[c])
    BY <1>2, <2>1, <2>3
  <2>6. index' \in [Company -> Nat]
    BY <2>1
  <2> QED BY <2>2, <2>3, <2>4, <2>5, <2>6 DEF Worked
<1>10. ASSUME NEW c \in Company, NEW carries \in FactsCarryFrame, IncrFetch(c, carries)
       PROVE  Worked'
  <2>1. PICK g \in Fetched : /\ g = FetchFacts(c, carries) /\ Payload(g)
                             /\ g.cik = c /\ g.rows = 1..Len(sec[c])
    BY FetchFactsPayload DEF Payload
  <2>2. /\ incr' = [incr EXCEPT !.at = "store", !.got = g]
        /\ UNCHANGED <<index, sec, fiscal>>
    BY <1>10, <2>1 DEF IncrFetch, edgar, store
  <2>3. /\ incr' \in [at : {"next", "store"}, todo : SUBSET Company, got : Fetched,
                      due : [Company -> Nat]]
        /\ incr'.got = g /\ incr'.due = incr.due /\ incr'.todo = incr.todo
    BY <2>2 DEF Worked
  <2>4. 1..incr'.due[g.cik] \subseteq g.rows
    <3>1. incr.due[c] \in Nat /\ incr.due[c] <= Len(sec[c])
      BY DEF Worked
    <3> QED BY <1>2, <2>1, <2>3, <3>1
  <2>5. Payload(g)'
    BY <1>1, <2>1, PayloadKept
  <2> QED BY <1>3, <2>2, <2>3, <2>4, <2>5 DEF Worked
<1>11. ASSUME NEW c \in Company, IncrFetchFails(c) PROVE Worked'
  <2>1. /\ incr' = [incr EXCEPT !.todo = incr.todo \ {c}, !.due[c] = 0]
        /\ UNCHANGED <<index, sec, fiscal>> /\ incr.at = "next"
    BY <1>11 DEF IncrFetchFails, AfterFailure, edgar, store
  <2>2. /\ incr' \in [at : {"next", "store"}, todo : SUBSET Company, got : Fetched,
                      due : [Company -> Nat]]
        /\ incr'.at = "next" /\ incr'.todo = incr.todo \ {c}
        /\ incr'.due = [incr.due EXCEPT ![c] = 0]
    BY <2>1 DEF Worked
  <2>3. \A d \in Company \ incr'.todo : 1..incr'.due[d] \subseteq fiscal'[d]
    <3> SUFFICES ASSUME NEW d \in Company \ incr'.todo
                 PROVE  1..incr'.due[d] \subseteq fiscal[d]
      BY <2>1
    <3>1. CASE d = c
      <4>1. incr'.due[d] = 0
        BY <2>2, <3>1 DEF Worked
      <4> QED BY <4>1
    <3>2. CASE d # c
      BY <2>2, <3>2 DEF Worked
    <3> QED BY <3>1, <3>2
  <2>4. \A d \in Company : incr'.due[d] <= Len(sec'[d])
    BY <1>2, <2>1, <2>2 DEF Worked
  <2> QED BY <1>3, <2>1, <2>2, <2>3, <2>4 DEF Worked
<1>12. ASSUME IncrStore PROVE Worked'
  <2>1. PICK g \in Fetched : incr.got = g
    BY DEF Worked
  <2>2. /\ Payload(g) /\ 1..incr.due[g.cik] \subseteq g.rows /\ Upsert(g)
        /\ UNCHANGED <<index, sec>>
        /\ incr' = [incr EXCEPT !.at = "next", !.todo = incr.todo \ {g.cik},
                                !.got = NoFetch]
    BY <1>12, <2>1 DEF IncrStore, Worked, edgar
  <2>3. g.rows \subseteq fiscal'[g.cik] /\ g.cik \in Company
    BY <2>2, UpsertGrows DEF Payload
  <2>4. /\ incr' \in [at : {"next", "store"}, todo : SUBSET Company, got : Fetched,
                      due : [Company -> Nat]]
        /\ incr'.at = "next" /\ incr'.todo = incr.todo \ {g.cik}
        /\ incr'.due = incr.due
    BY <1>4, <2>2 DEF Worked
  <2>5. \A c \in Company \ incr'.todo : 1..incr'.due[c] \subseteq fiscal'[c]
    <3> SUFFICES ASSUME NEW c \in Company \ incr'.todo
                 PROVE  1..incr.due[c] \subseteq fiscal'[c]
      BY <2>4
    <3>1. CASE c = g.cik
      BY <2>2, <2>3, <3>1
    <3>2. CASE c # g.cik
      BY <1>1, <2>4, <3>2 DEF Worked, Grown
    <3> QED BY <3>1, <3>2
  <2>6. \A c \in Company : incr'.due[c] <= Len(sec'[c])
    BY <2>2, <2>4 DEF Worked
  <2> QED BY <1>3, <2>2, <2>4, <2>5, <2>6 DEF Worked
<1>13. CASE IncrEnd \/ IncrBreaks
  BY <1>6, <1>13 DEF IncrEnd, IncrBreaks, edgar
<1>14. CASE UNCHANGED <<index, incr>>
  BY <1>1, <1>3, <1>14, WorkedKept
<1>15. CASE Requests
  BY <1>14, <1>15
     DEF Requests, Look, CheckKnown, Fetch, StoreAndAnswer, Reply, RequestFails,
         ApiRestarts, edgar
<1> QED BY <1>7, <1>8, <1>9, <1>10, <1>11, <1>12, <1>13, <1>14, <1>15
        DEF Next, Incremental, vars, FramesFetch, FramesStore, FramesBreaks, edgar

(* What the frames backfill has in hand are filings.                       *)
LEMMA FramingStep ==
  ASSUME IInv, [Next]_vars
  PROVE  Framing'
<1> USE DEF IInv
<1>1. \A c \in Company : Filings(c) \subseteq Filings(c)'
  <2> SUFFICES ASSUME NEW c \in Company PROVE Filings(c) \subseteq Filings(c)'
    OBVIOUS
  <2>1. Len(sec[c]) \in Nat /\ Len(sec'[c]) \in Nat /\ Len(sec[c]) <= Len(sec'[c])
    BY StoreStep DEF Stored, Grown
  <2> QED BY <2>1 DEF Filings
<1>2. CASE UNCHANGED frames
  BY <1>1, <1>2 DEF Framing
<1>3. ASSUME NEW p \in Period, FramesFetch(p) PROVE Framing'
  <2>1. \A c \in Company : /\ Current(c) \cap Of(c, p) \in SUBSET Nat
                           /\ Current(c) \cap Of(c, p) \subseteq Filings(c)
    BY DEF Current, Filings, Of
  <2> QED BY <1>1, <1>3, <2>1 DEF FramesFetch, Framing
<1>4. CASE FramesStore \/ FramesBreaks
  BY <1>4 DEF FramesStore, FramesBreaks, Framing
<1> QED BY <1>2, <1>3, <1>4
        DEF Next, vars, File, DayMissed, Requests, Look, CheckKnown, Fetch,
            StoreAndAnswer, Reply, RequestFails, ApiRestarts, Incremental,
            IncrStart, IncrFetch, IncrFetchFails, IncrStore, IncrEnd, IncrBreaks

(* In the beginning nothing is filed, stored or asked.                     *)
LEMMA InitIInv ==
  ASSUME Init
  PROVE  IInv
<1>1. Stored
  BY DEF Init, Stored, WholeHistories, Filings
<1>2. Requested
  BY NoAnswerSound DEF Init, Requested, Sound
<1>3. Worked
  <2>1. NoFetch \in Fetched
    BY DEF NoFetch, Fetched
  <2>2. /\ NoRun \in [at : {"next", "store"}, todo : SUBSET Company, got : Fetched,
                     due : [Company -> Nat]]
        /\ NoRun.at = "next" /\ NoRun.due = [c \in Company |-> 0]
    BY <2>1 DEF NoRun
  <2> QED BY <2>2 DEF Init, Worked
<1>4. Framing
  BY DEF Init, Framing, Filings
<1> QED BY <1>1, <1>2, <1>3, <1>4 DEF IInv

----------------------------------------------------------------------------
(* Theorems                                                                *)

(* The inductive invariant: the store holds whole histories; every request *)
(* on its way will be answered rightly; the incremental has stored what it *)
(* no longer has to do.                                                    *)
THEOREM Inductive == Spec => []IInv
<1>1. Init => IInv
  BY InitIInv
<1>2. IInv /\ [Next]_vars => IInv'
  BY StoreStep, RequestedStep, WorkedStep, FramingStep DEF IInv
<1> QED BY <1>1, <1>2, PTL DEF Spec

(* A company is in the store with a prefix of its filings, never with a    *)
(* part of one, whichever writers commit in whatever order.                *)
THEOREM HistoriesWhole == Spec => []WholeHistories
<1>1. IInv => WholeHistories
  BY DEF IInv, Stored
<1> QED BY <1>1, Inductive, PTL

(* Every answer of the API covers its question as of a moment of the       *)
(* request or of the last ingestion, but for the two known exceptions.     *)
THEOREM Answers == Spec => []AnswersFaithful
<1>1. ASSUME IInv PROVE AnswersFaithful
  <2> SUFFICES ASSUME NEW r \in Done
               PROVE  \/ Faithful(request[r])
                      \/ SeededByFrames(request[r]) \/ IngestedMeanwhile(request[r])
    BY DEF AnswersFaithful
  <2>1. r \in Request /\ request[r].at = "answered"
    BY DEF Done
  <2>2. PICK x \in InFlight : request[r] = x /\ OnItsWay(x)
    BY <1>1, <2>1, IsOnItsWay DEF IInv
  <2> QED BY <2>1, <2>2 DEF OnItsWay
<1> QED BY <1>1, Inductive, PTL

(* No answer lacks what an earlier answer to the same question has shown.  *)
THEOREM AnswersKeep == Spec => []NeverGoesBack
<1>1. ASSUME IInv PROVE NeverGoesBack
  <2> SUFFICES ASSUME NEW r \in Done
               PROVE  request[r].owed \subseteq request[r].answer
    BY DEF NeverGoesBack
  <2>1. r \in Request /\ request[r].at = "answered"
    BY DEF Done
  <2>2. PICK x \in InFlight : request[r] = x /\ OnItsWay(x)
    BY <1>1, <2>1, IsOnItsWay DEF IInv
  <2> QED BY <2>1, <2>2 DEF OnItsWay
<1> QED BY <1>1, Inductive, PTL

(* A run that has nothing left to do has stored all its index named, but   *)
(* for the companies whose fetch failed.                                   *)
THEOREM RunsIngest == Spec => []IndexIngested
<1>1. IInv => IndexIngested
  BY DEF IInv, Worked, IndexIngested
<1> QED BY <1>1, Inductive, PTL

(* No step takes a company out of the screening of a period.               *)
THEOREM ScreeningKept == Spec => ScreeningKeeps
<1>1. ASSUME IInv, [Next]_vars
      PROVE  [\A c \in Company : InScreening(c) \subseteq InScreening(c)']_vars
  <2>1. Stored /\ Grown
    BY <1>1, StoreStep DEF IInv
  <2>2. ASSUME NEW c \in Company, NEW i \in framed[c]
        PROVE  i \in framed'[c] /\ sec'[c][i] = sec[c][i]
    BY <2>1 DEF Grown, Stored
  <2> QED BY <2>2 DEF InScreening
<1> QED BY <1>1, Inductive, PTL DEF Spec, ScreeningKeeps
=============================================================================

---------------------------- MODULE FilingProofs ----------------------------
(***************************************************************************)
(* Proofs about what is kept of filings, for any companies, filings,       *)
(* requests and runs: the caches of insider and 13D/13G filings, that of   *)
(* the 13F holdings, and the index, cover pages and sections.              *)
(***************************************************************************)
EXTENDS FilingCache, HoldingsCache, FilingDocs, FiniteSetTheorems, WellFoundedInduction,
        TLAPS

USE FilingCacheAssumption

\* A company's filings so far, listed or aged out.
Feed(c) == {f \in Filings : c \in Feeds[f] /\ f <= filed}
FeedOf(t, c) == {f \in Feed(c) : Form[f] = t}

\* What a request may show that was asked when `n` had been shown.
NotOlder(S, n, c) == Latest(S) >= n \/ (S = {} /\ n \notin Recent(c))

\* Of a request: what it has read, and what it will be measured by.
Sought(q) ==
  /\ q.pc # "idle" => q.cik \in Ciks
  /\ q.pc \in {"fetching", "fetched", "writing"} => q.limit \in Limits
  /\ q.pc # "idle" /\ q.kind = "345" => q.floor \in {0} \cup FeedOf("345", q.cik)
  /\ q.pc \in {"fetched", "writing"} =>
       /\ q.fetched \subseteq FeedOf(q.kind, q.cik)
       /\ q.kind = "345" => NotOlder(q.fetched, q.floor, q.cik)
  /\ q.pc = "writing" => \A f \in q.fetched \ q.new : <<q.cik, f>> \in cached
  /\ q.pc # "writing" => q.new = {}
  /\ q.pc = "answered" /\ q.kind = "345" => NotOlder(q.answer, q.floor, q.cik)

\* The table holds filings of the feeds, of which an answer showed the newest.
Stored ==
  /\ \A p \in cached : p[2] \in Feed(p[1])
  /\ stale \subseteq cached
  /\ \A c \in Ciks : seen[c] \in {0} \cup CachedOf("345", c)

\* What a run of a mode owes an issuer; a warm one owes nothing.
Owed(m, c) ==
  CASE m = "repair"  -> Listed("345", c)
    [] m = "refresh" -> Newest(Listed("345", c), RunLimit)
    [] OTHER         -> {}
Clean(m, c) == \A f \in Owed(m, c) : <<c, f>> \notin stale

\* Of the backfill: issuers that are behind it are clean, and so will be the
\* one it is at, once what it has fetched is committed.
Modes == {"warm", "refresh", "repair"}
Fetching(m, c) ==
  /\ job.fetched \subseteq FeedOf("345", c)
  /\ \A f \in Owed(m, c) : <<c, f>> \in stale => f \in job.fetched
Covered ==
  /\ job.pc \in {"fetched", "writing"} => job.todo # {}
  /\ job.pc = "writing" /\ Replaces => job.new = job.fetched
  /\ job.pc # "writing" => job.new = {}
  /\ \A m \in Modes, c \in Ciks : m = job.mode =>
       /\ job.pc \in {"fetched", "writing"} /\ c = Candidate => Fetching(m, c)
       /\ job.pc # "off" /\ c \notin job.todo \cup job.missed => Clean(m, c)
       /\ job.pc = "off" /\ c <= job.resume /\ c \notin job.missed => Clean(m, c)

Asked == \A q \in ReqRecords : (\E r \in Requests : req[r] = q) => Sought(q)

IInv == TypeOK /\ Stored /\ Asked /\ Covered

\* What every step does: filings are added, the table grows, rows are renewed.
Grown ==
  /\ filed' \in {filed, filed + 1} /\ filed' \in {0} \cup Filings
  /\ cached \subseteq cached' /\ stale' \subseteq stale

----------------------------------------------------------------------------
(* Lemmas about sets of filings.                                           *)

(* A bounded set of numbers has a greatest one, and one of naturals has a  *)
(* least one.                                                              *)
LEMMA MinOf ==
  ASSUME NEW S, S \subseteq Nat, S # {}
  PROVE  Min(S) \in S /\ \A x \in S : Min(S) <= x
<1>1. PICK x \in S : \A y \in S : ~(<<y, x>> \in OpToRel(<, Nat))
  BY WFMin, NatLessThanWellFounded
<1>2. \A y \in S : ~(y < x)
  BY <1>1 DEF OpToRel
<1>3. \A y \in S : x \in Nat /\ y \in Nat
  OBVIOUS
<1>4. \A y \in S : x <= y
  BY <1>2, <1>3
<1> QED BY <1>4 DEF Min

LEMMA MaxOf ==
  ASSUME NEW n \in Nat, NEW S, S \subseteq 0..n, S # {}
  PROVE  Max(S) \in S /\ \A x \in S : Max(S) >= x
<1> DEFINE T == {n - x : x \in S}
<1>1. T \subseteq Nat /\ T # {}
  <2>1. PICK x \in S : TRUE
    OBVIOUS
  <2>2. \A y \in S : y \in Int /\ n - y \in Nat
    OBVIOUS
  <2> QED BY <2>1, <2>2
<1>2. Min(T) \in T /\ \A u \in T : Min(T) <= u
  BY <1>1, MinOf
<1>3. PICK x \in S : Min(T) = n - x
  BY <1>2
<1>4. \A y \in S : n - y \in T
  OBVIOUS
<1> HIDE DEF T
<1>5. \A y \in S : n - x <= n - y
  BY <1>2, <1>3, <1>4
<1>6. x \in Int /\ \A y \in S : y \in Int
  OBVIOUS
<1>7. \A y \in S : x >= y
  BY <1>5, <1>6
<1> QED BY <1>7 DEF Max

LEMMA LatestOf ==
  ASSUME NEW S, S \subseteq Filings
  PROVE  /\ Latest(S) \in S \cup {0} /\ \A f \in S : Latest(S) >= f
         /\ Latest(S) \in 0..N
<1>1. S \cup {0} \subseteq 0..N /\ S \cup {0} # {} /\ N \in Nat
  BY DEF Filings
<1>2. Max(S \cup {0}) \in S \cup {0} /\ \A x \in S \cup {0} : Max(S \cup {0}) >= x
  BY <1>1, MaxOf
<1> QED BY <1>1, <1>2 DEF Latest

\* The filings of S after f, which Newest counts.
LEMMA AfterFinite ==
  ASSUME NEW S, S \subseteq Filings, NEW f
  PROVE  /\ IsFiniteSet({g \in S : g > f})
         /\ Cardinality({g \in S : g > f}) \in Nat
<1>1. IsFiniteSet(1..N)
  BY FS_Interval
<1>2. {g \in S : g > f} \subseteq 1..N
  BY DEF Filings
<1>3. IsFiniteSet({g \in S : g > f})
  BY <1>1, <1>2, FS_Subset
<1> QED BY <1>3, FS_CardinalityType

(* With a filing, a list holds the later ones.                             *)
LEMMA NewestUp ==
  ASSUME NEW S, S \subseteq Filings, NEW n \in Nat,
         NEW f \in Newest(S, n), NEW g \in S, g > f
  PROVE  g \in Newest(S, n)
<1>0. f \in Int /\ g \in Int /\ \A h \in S : h \in Int
  BY DEF Newest, Filings
<1>1. {h \in S : h > g} \subseteq {h \in S : h > f}
  <2>1. \A h \in S : h > g => h > f
    BY <1>0
  <2> QED BY <2>1
<1>2. /\ IsFiniteSet({h \in S : h > f}) /\ Cardinality({h \in S : h > f}) \in Nat
      /\ Cardinality({h \in S : h > g}) \in Nat
  BY AfterFinite
<1>3. Cardinality({h \in S : h > g}) <= Cardinality({h \in S : h > f})
  BY <1>1, <1>2, FS_Subset
<1>4. Cardinality({h \in S : h > f}) < n
  BY DEF Newest
<1>5. Cardinality({h \in S : h > g}) < n
  BY <1>2, <1>3, <1>4
<1> QED BY <1>5 DEF Newest

(* What is among the newest of more was among the newest of less.          *)
LEMMA NewestKept ==
  ASSUME NEW S, NEW T, T \subseteq Filings, NEW n \in Nat,
         NEW f \in Newest(T, n), f \in S, {g \in S : g > f} \subseteq T
  PROVE  f \in Newest(S, n)
<1>1. {g \in S : g > f} \subseteq {g \in T : g > f}
  OBVIOUS
<1>2. /\ IsFiniteSet({g \in T : g > f}) /\ Cardinality({g \in T : g > f}) \in Nat
  BY AfterFinite
<1>3. IsFiniteSet({g \in S : g > f}) /\ Cardinality({g \in S : g > f}) <= Cardinality({g \in T : g > f})
  BY <1>1, <1>2, FS_Subset
<1>4. Cardinality({g \in S : g > f}) \in Nat
  BY <1>3, FS_CardinalityType
<1>5. Cardinality({g \in T : g > f}) < n
  BY DEF Newest
<1>6. Cardinality({g \in S : g > f}) < n
  BY <1>2, <1>3, <1>4, <1>5
<1> QED BY <1>6 DEF Newest

(* A list that may hold one holds the newest.                              *)
LEMMA NewestHasLatest ==
  ASSUME NEW S, S \subseteq Filings, S # {}, NEW n \in Nat \ {0}
  PROVE  Latest(S) \in Newest(S, n) /\ Latest(Newest(S, n)) = Latest(S)
<1>1. Latest(S) \in S \cup {0} /\ (\A f \in S : Latest(S) >= f) /\ Latest(S) \in 0..N
  BY LatestOf
<1>2. PICK g \in S : TRUE
  OBVIOUS
<1>3. g \in 1..N /\ Latest(S) >= g /\ N \in Nat
  BY <1>1 DEF Filings
<1>4. Latest(S) \in S
  BY <1>1, <1>3
<1>5. {h \in S : h > Latest(S)} = {}
  <2>1. Latest(S) \in Int /\ \A h \in S : h \in Int /\ Latest(S) >= h
    BY <1>1 DEF Filings
  <2> QED BY <2>1
<1>6. Cardinality({h \in S : h > Latest(S)}) = 0
  BY <1>5, FS_EmptySet
<1>7. Latest(S) \in Newest(S, n)
  BY <1>4, <1>6 DEF Newest
<1>8. Newest(S, n) \subseteq S
  BY DEF Newest
<1>9. /\ Latest(Newest(S, n)) \in S \cup {0} /\ Latest(Newest(S, n)) >= Latest(S)
      /\ Latest(Newest(S, n)) \in 0..N
  BY <1>7, <1>8, LatestOf
<1>10. Latest(S) >= Latest(Newest(S, n))
  BY <1>1, <1>9
<1> QED BY <1>1, <1>7, <1>9, <1>10

(* EDGAR's list holds a company's filings from some filing on.             *)
LEMMA RecentIsSuffix ==
  ASSUME NEW c, NEW f \in Recent(c), NEW g \in Feed(c), g > f
  PROVE  g \in Recent(c)
<1>1. Feed(c) \subseteq Filings /\ Recent(c) = Newest(Feed(c), Window) /\ Window \in Nat
  BY DEF Feed, Recent
<1> QED BY <1>1, NewestUp

LEMMA FeedGrows ==
  ASSUME TypeOK, Grown, NEW t, NEW c
  PROVE  /\ Feed(c) \subseteq Feed(c)' /\ FeedOf(t, c) \subseteq FeedOf(t, c)'
         /\ \A f \in Feed(c)' : f <= filed => f \in Feed(c)
         /\ CachedOf(t, c) \subseteq CachedOf(t, c)'
<1>1. filed \in Int /\ filed' \in Int /\ filed <= filed'
  BY DEF TypeOK, Grown, Filings
<1>2. Feed(c) \subseteq Feed(c)'
  BY <1>1 DEF Feed, Filings
<1>3. CachedOf(t, c) \subseteq CachedOf(t, c)'
  BY DEF CachedOf, Grown
<1> QED BY <1>2, <1>3 DEF FeedOf, Feed

(* A filing that has aged out of a list does not come back.                *)
LEMMA RecentKept ==
  ASSUME TypeOK, Grown, NEW c, NEW f \in Feed(c), f \in Recent(c)'
  PROVE  f \in Recent(c)
<1>1. /\ Feed(c) \subseteq Feed(c)' /\ Feed(c)' \subseteq Filings
      /\ Recent(c) = Newest(Feed(c), Window)
      /\ Recent(c)' = Newest(Feed(c)', Window) /\ Window \in Nat
  BY FeedGrows DEF Feed, Recent, Newest
<1> QED BY <1>1, NewestKept

(* Nor does a filing that is there come to be owed.                        *)
LEMMA OwedKept ==
  ASSUME TypeOK, Grown, NEW m, NEW c, NEW f \in Feed(c), f \in Owed(m, c)'
  PROVE  f \in Owed(m, c)
<1>1. ASSUME NEW g \in Feed(c), g \in Listed("345", c)' PROVE g \in Listed("345", c)
  BY <1>1, RecentKept DEF Listed
<1>2. CASE m = "repair"
  BY <1>1, <1>2 DEF Owed
<1>3. CASE m = "refresh"
  <2> DEFINE S == Listed("345", c)
             T == Listed("345", c)'
  <2>1. /\ f \in Newest(T, RunLimit) /\ f \in T /\ RunLimit \in Nat
        /\ T \subseteq Filings /\ T = {g \in Recent(c)' : Form[g] = "345"}
    BY <1>3 DEF Owed, Newest, Listed, Recent
  <2>2. f \in S
    BY <1>1, <2>1
  <2>3. ASSUME NEW g \in S, g > f PROVE g \in T
    <3>1. g \in Feed(c) /\ Form[g] = "345"
      BY DEF Listed, Recent, Newest, Feed
    <3>2. g \in Feed(c)' /\ f \in Recent(c)'
      BY <2>1, <3>1, FeedGrows
    <3>3. g \in Recent(c)'
      <4>1. /\ Feed(c)' \subseteq Filings /\ Recent(c)' = Newest(Feed(c)', Window)
            /\ Window \in Nat
        BY DEF Feed, Recent
      <4> QED BY <2>3, <3>2, <4>1, NewestUp
    <3> QED BY <2>1, <3>1, <3>3
  <2>4. {g \in S : g > f} \subseteq T
    BY <2>3
  <2>5. f \in Newest(S, RunLimit)
    <3> HIDE DEF S, T
    <3> QED BY <2>1, <2>2, <2>4, NewestKept
  <2> QED BY <1>3, <2>5 DEF Owed
<1>4. CASE m \notin {"repair", "refresh"}
  BY <1>4 DEF Owed
<1> QED BY <1>2, <1>3, <1>4

(* So an issuer that is clean stays so.                                    *)
LEMMA CleanKept ==
  ASSUME TypeOK, Stored, Grown, NEW m, NEW c, Clean(m, c)
  PROVE  Clean(m, c)'
<1>1. SUFFICES ASSUME NEW f \in Owed(m, c)', <<c, f>> \in stale'
               PROVE  FALSE
  BY DEF Clean
<1>2. <<c, f>> \in stale /\ f \in Feed(c)
  BY <1>1 DEF Grown, Stored
<1>3. f \in Owed(m, c)
  BY <1>1, <1>2, OwedKept
<1> QED BY <1>2, <1>3 DEF Clean

(* What is right of a request stays right whatever the others do.          *)
LEMMA SoughtKept ==
  ASSUME TypeOK, Grown, NEW q \in ReqRecords, Sought(q)
  PROVE  Sought(q)'
<1>1. /\ FeedOf("345", q.cik) \subseteq FeedOf("345", q.cik)'
      /\ FeedOf(q.kind, q.cik) \subseteq FeedOf(q.kind, q.cik)'
  BY FeedGrows
<1>2. ASSUME NEW S, S \subseteq Filings, q.floor \in {0} \cup FeedOf("345", q.cik),
             NotOlder(S, q.floor, q.cik)
      PROVE  NotOlder(S, q.floor, q.cik)'
  <2>1. CASE Latest(S) >= q.floor
    BY <2>1 DEF NotOlder, Latest
  <2>2. CASE q.floor = 0
    <3>1. Latest(S) >= 0
      BY <1>2, LatestOf
    <3> QED BY <2>2, <3>1 DEF NotOlder, Latest
  <2>3. CASE S = {} /\ q.floor \notin Recent(q.cik) /\ q.floor \in Feed(q.cik)
    BY <2>3, RecentKept DEF NotOlder
  <2> QED BY <1>2, <2>1, <2>2, <2>3 DEF NotOlder, FeedOf
<1>3. q.fetched \subseteq Filings /\ q.answer \subseteq Filings
  BY DEF ReqRecords
<1>4. cached \subseteq cached'
  BY DEF Grown
<1> QED BY <1>1, <1>2, <1>3, <1>4 DEF Sought

(* What the backfill owes and has, too, while it does nothing.             *)
LEMMA FetchingKept ==
  ASSUME TypeOK, Stored, Grown, NEW m, NEW c, Fetching(m, c), job'.fetched = job.fetched
  PROVE  Fetching(m, c)'
<1>1. FeedOf("345", c) \subseteq FeedOf("345", c)'
  BY FeedGrows
<1>2. ASSUME NEW f \in Owed(m, c)', <<c, f>> \in stale' PROVE f \in job.fetched
  <2>1. <<c, f>> \in stale /\ f \in Feed(c)
    BY <1>2 DEF Grown, Stored
  <2>2. f \in Owed(m, c)
    BY <1>2, <2>1, OwedKept
  <2> QED BY <2>1, <2>2 DEF Fetching
<1> QED BY <1>1, <1>2 DEF Fetching

LEMMA CoveredKept ==
  ASSUME TypeOK, Stored, Covered, Grown, job' = job
  PROVE  Covered'
<1>1. Candidate' = Candidate /\ Replaces' = Replaces
  BY DEF Candidate, Replaces
<1>2. ASSUME NEW m, NEW c PROVE /\ Clean(m, c) => Clean(m, c)'
                                /\ Fetching(m, c) => Fetching(m, c)'
  BY CleanKept, FetchingKept
<1> QED BY <1>1, <1>2 DEF Covered

LEMMA StoredKept ==
  ASSUME TypeOK, Stored, Grown, cached' = cached, seen' = seen
  PROVE  Stored'
<1>1. \A c : Feed(c) \subseteq Feed(c)' /\ CachedOf("345", c)' = CachedOf("345", c)
  BY FeedGrows DEF CachedOf
<1> QED BY <1>1 DEF Stored, Grown

\* One request moves.
LEMMA AskedKept ==
  ASSUME TypeOK, Asked, Grown, NEW r \in Requests, NEW q \in ReqRecords,
         req' = [req EXCEPT ![r] = q], Sought(q)'
  PROVE  Asked' /\ req' \in [Requests -> ReqRecords]
<1>1. req \in [Requests -> ReqRecords]
  BY DEF TypeOK
<1>2. ASSUME NEW x \in ReqRecords, NEW p \in Requests, req'[p] = x PROVE Sought(x)'
  <2>1. CASE p = r
    BY <1>1, <1>2, <2>1
  <2>2. CASE p # r
    BY <1>1, <1>2, <2>2, SoughtKept DEF Asked
  <2> QED BY <2>1, <2>2
<1> QED BY <1>1, <1>2 DEF Asked

LEMMA AskedStays ==
  ASSUME Asked, TypeOK, Grown, req' = req
  PROVE  Asked'
BY SoughtKept DEF Asked

(* Reading the table shows the newest filing it has.                       *)
LEMMA ReadNotOlder ==
  ASSUME TypeOK, Stored, NEW c \in Ciks, NEW l \in Limits, Hit("345", c, l)
  PROVE  /\ NotOlder(Read("345", c, l), seen[c], c)
         /\ Read("345", c, l) \subseteq CachedOf("345", c)
<1> DEFINE S == CachedOf("345", c)
<1>1. S \subseteq Filings /\ l \in Nat \ {0} /\ Read("345", c, l) = Newest(S, l)
  BY DEF CachedOf, Read, Newest
<1>2. S # {}
  <2>1. Cardinality(S) >= l
    BY DEF Hit
  <2> QED BY <1>1, <2>1, FS_EmptySet
<1>3. Latest(Newest(S, l)) = Latest(S) /\ Newest(S, l) \subseteq S
  BY <1>1, <1>2, NewestHasLatest DEF Newest
<1>4. Latest(S) >= seen[c]
  <2>1. seen[c] \in {0} \cup S
    BY DEF Stored
  <2>2. Latest(S) \in 0..N /\ \A f \in S : Latest(S) >= f
    BY <1>1, LatestOf
  <2> QED BY <2>1, <2>2
<1> QED BY <1>1, <1>3, <1>4 DEF NotOlder

(* Fetching shows the newest filing of the list, and none before the list. *)
LEMMA FetchNotOlder ==
  ASSUME TypeOK, NEW c \in Ciks, NEW l \in Limits, NEW n \in {0} \cup FeedOf("345", c)
  PROVE  NotOlder(Newest(Listed("345", c), l), n, c)
<1> DEFINE S == Listed("345", c)
<1>1. S \subseteq Filings /\ S \subseteq Recent(c) /\ l \in Nat \ {0}
  BY DEF Listed, Recent, Newest
<1>2. Newest(S, l) \subseteq S
  BY DEF Newest
<1>3. CASE n = 0
  <2>1. Latest(Newest(S, l)) \in 0..N
    BY <1>1, <1>2, LatestOf
  <2>2. Latest(Newest(S, l)) >= n
    BY <1>3, <2>1
  <2> QED BY <2>2 DEF NotOlder
<1>4. CASE n \in Recent(c) /\ n \in FeedOf("345", c)
  <2>1. n \in S
    BY <1>4 DEF Listed, FeedOf
  <2>2. Latest(Newest(S, l)) = Latest(S) /\ Latest(S) >= n
    BY <1>1, <2>1, NewestHasLatest, LatestOf
  <2> QED BY <2>2 DEF NotOlder
<1>5. CASE n \notin Recent(c) /\ n \in FeedOf("345", c) /\ S # {}
  <2>1. Latest(Newest(S, l)) = Latest(S) /\ Latest(S) \in Newest(S, l)
    BY <1>1, <1>5, NewestHasLatest
  <2>2. Latest(S) \in Recent(c) /\ Latest(S) \in Filings
    BY <1>1, <1>2, <2>1
  <2>3. n \in Feed(c) /\ n \in Filings
    BY <1>5 DEF FeedOf, Feed
  <2>4. ~(n > Latest(S))
    BY <1>5, <2>2, <2>3, RecentIsSuffix
  <2>5. Latest(S) # n
    BY <1>5, <2>2
  <2>6. Latest(S) >= n
    BY <2>2, <2>3, <2>4 DEF Filings
  <2> QED BY <2>1, <2>6 DEF NotOlder
<1>6. CASE n \notin Recent(c) /\ S = {}
  BY <1>2, <1>6 DEF NotOlder
<1> QED BY <1>3, <1>4, <1>5, <1>6

(* What an answer showed is in the table.                                  *)
LEMMA ShownIsCached ==
  ASSUME TypeOK, Stored, Grown, NEW q, q.cik \in Ciks,
         NEW S, q.kind = "345" => S \subseteq CachedOf("345", q.cik)', S \subseteq Filings,
         seen' = Shown(q, S), \A p \in cached' : p[2] \in Feed(p[1])', stale' \subseteq cached'
  PROVE  Stored' /\ seen' \in [Ciks -> {0} \cup Filings]
<1>1. seen \in [Ciks -> {0} \cup Filings]
  BY DEF TypeOK
<1>2. \A c \in Ciks : seen[c] \in {0} \cup CachedOf("345", c)'
  BY FeedGrows DEF Stored
<1>3. CASE q.kind # "345"
  BY <1>1, <1>2, <1>3 DEF Shown, Stored
<1>4. CASE q.kind = "345"
  <2> DEFINE a == seen[q.cik]
             b == Latest(S)
  <2>1. a \in {0} \cup CachedOf("345", q.cik)' /\ b \in {0} \cup CachedOf("345", q.cik)'
    BY <1>2, <1>4, LatestOf
  <2>2. {a, b} \subseteq 0..N /\ {a, b} # {} /\ N \in Nat
    <3>1. a \in {0} \cup Filings
      BY <1>1
    <3>2. a \in 0..N
      BY <3>1 DEF Filings
    <3>3. b \in 0..N
      BY LatestOf
    <3> HIDE DEF a, b
    <3> QED BY <3>2, <3>3
  <2>3. Max({a, b}) \in {a, b}
    BY <2>2, MaxOf
  <2>4. seen' = [seen EXCEPT ![q.cik] = Max({a, b})]
    BY <1>4 DEF Shown
  <2>5. CachedOf("345", q.cik)' \subseteq Filings
    BY DEF CachedOf
  <2> HIDE DEF a, b
  <2>6. Max({a, b}) \in {0} \cup CachedOf("345", q.cik)' /\ Max({a, b}) \in {0} \cup Filings
    BY <2>1, <2>3, <2>5
  <2>7. seen' \in [Ciks -> {0} \cup Filings]
    BY <1>1, <2>4, <2>6
  <2>8. \A c \in Ciks : seen'[c] \in {0} \cup CachedOf("345", c)'
    BY <1>1, <1>2, <2>4, <2>6
  <2> QED BY <2>7, <2>8 DEF Stored
<1> QED BY <1>3, <1>4

----------------------------------------------------------------------------
(* The steps of requests.                                                  *)

LEMMA InitIInv == Init => IInv
<1> SUFFICES ASSUME Init PROVE IInv
  OBVIOUS
<1>0. PICK l \in {0} \cup Limits :
        cached = {p \in Pairs : p[2] \in Newest(Listed("345", p[1]), l)}
  BY DEF Init
<1>1. ASSUME NEW p \in cached
      PROVE  p \in Pairs /\ p[2] \in Feed(p[1])
  BY <1>0 DEF Newest, Listed, Recent, Feed
<1>2. Idle \in ReqRecords /\ NoJob \in JobRecords
  BY DEF Idle, ReqRecords, NoJob, JobRecords
<1>3. TypeOK
  <2>1. rows \in [Pairs -> Nat] /\ seen \in [Ciks -> {0} \cup Filings]
    BY DEF Init
  <2>2. req \in [Requests -> ReqRecords] /\ \A r \in Requests : req[r].new \subseteq req[r].fetched
    BY <1>2 DEF Init, Idle
  <2>3. job \in JobRecords /\ job.new \subseteq job.fetched
    BY <1>2 DEF Init, NoJob
  <2>4. cached \subseteq Pairs /\ stale \subseteq Pairs
    BY <1>1 DEF Init
  <2> QED BY <2>1, <2>2, <2>3, <2>4 DEF Init, TypeOK
<1>4. Stored
  BY <1>1 DEF Init, Stored
<1>5. Asked
  BY DEF Init, Asked, Sought, Idle
<1>6. Covered
  <2>1. job.pc = "off" /\ job.mode = "warm" /\ job.new = {}
    BY DEF Init, NoJob
  <2>2. \A c : Clean("warm", c)
    BY DEF Clean, Owed
  <2> QED BY <2>1, <2>2 DEF Covered
<1> QED BY <1>3, <1>4, <1>5, <1>6 DEF IInv

LEMMA FileKeeps ==
  ASSUME IInv, File
  PROVE  IInv' /\ Grown
<1>1. TypeOK /\ Stored /\ Asked /\ Covered
  BY DEF IInv
<1>2. Grown
  BY <1>1 DEF File, Grown, table, TypeOK
<1>3. TypeOK'
  BY <1>1 DEF File, TypeOK, table
<1>4. Stored' /\ Asked' /\ Covered'
  BY <1>1, <1>2, StoredKept, AskedStays, CoveredKept DEF File, table
<1> QED BY <1>2, <1>3, <1>4 DEF IInv

LEMMA CachedIsFiled ==
  ASSUME Stored, NEW t, NEW c
  PROVE  CachedOf(t, c) \subseteq FeedOf(t, c)
<1>1. ASSUME NEW f \in CachedOf(t, c) PROVE f \in FeedOf(t, c)
  <2>1. <<c, f>> \in cached /\ Form[f] = t
    BY DEF CachedOf
  <2>2. <<c, f>>[2] \in Feed(<<c, f>>[1])
    BY <2>1 DEF Stored
  <2>3. f \in Feed(c)
    BY <2>2
  <2> QED BY <2>1, <2>3 DEF FeedOf
<1> QED BY <1>1

\* The parts of a step that moves one request and leaves the job alone.
LEMMA RequestMoves ==
  ASSUME IInv, Grown, NEW r \in Requests, NEW q \in ReqRecords, NEW S \in SUBSET Filings,
         req' = [req EXCEPT ![r] = q], Sought(q)', q.new \subseteq q.fetched,
         \/ seen' = seen
         \/ /\ seen' = Shown(q, S) /\ q.cik \in Ciks
            /\ q.kind = "345" => S \subseteq CachedOf("345", q.cik)',
         job' = job, filed' = filed, stale' = stale, rows' \in [Pairs -> Nat],
         cached' \subseteq Pairs, \A p \in cached' : p[2] \in Feed(p[1])',
         faults' \in Nat, runs' \in Nat, asks' \in Nat
  PROVE  IInv'
<1>1. TypeOK /\ Stored /\ Asked /\ Covered
  BY DEF IInv
<1>2. Asked' /\ req' \in [Requests -> ReqRecords]
  BY <1>1, AskedKept
<1>3. Covered'
  BY <1>1, CoveredKept
<1>4. stale' \subseteq cached'
  BY <1>1 DEF Stored, Grown
<1>5. Stored' /\ seen' \in [Ciks -> {0} \cup Filings]
  <2>1. CASE seen' = seen
    <3>1. \A c \in Ciks : seen[c] \in {0} \cup CachedOf("345", c)'
      BY <1>1, FeedGrows DEF Stored
    <3> QED BY <1>1, <1>4, <2>1, <3>1 DEF Stored, TypeOK
  <2>2. CASE /\ seen' = Shown(q, S) /\ q.cik \in Ciks
             /\ q.kind = "345" => S \subseteq CachedOf("345", q.cik)'
    BY <1>1, <1>4, <2>2, ShownIsCached
  <2> QED BY <2>1, <2>2
<1>6. \A p \in Requests : req'[p].new \subseteq req'[p].fetched
  BY <1>1 DEF TypeOK
<1>7. TypeOK'
  BY <1>1, <1>2, <1>5, <1>6 DEF TypeOK
<1> QED BY <1>2, <1>3, <1>5, <1>7 DEF IInv

LEMMA AnswerIs ==
  ASSUME NEW x, NEW S, NEW a, a = Answered(x, S)
  PROVE  /\ a = [pc |-> "answered", kind |-> x.kind, cik |-> x.cik, limit |-> 0,
                 floor |-> x.floor, fetched |-> {}, new |-> {}, answer |-> S]
         /\ Shown(a, S) = Shown(x, S)
<1>1. a = [pc |-> "answered", kind |-> x.kind, cik |-> x.cik, limit |-> 0,
           floor |-> x.floor, fetched |-> {}, new |-> {}, answer |-> S]
  BY DEF Answered, Idle
<1> QED BY <1>1 DEF Shown

LEMMA AskKeeps ==
  ASSUME IInv, NEW r \in Requests, NEW t \in {"345", "13DG"}, NEW c \in Ciks,
         NEW l \in Limits, Ask(r, t, c, l)
  PROVE  IInv' /\ Grown
<1>1. TypeOK /\ Stored
  BY DEF IInv
<1>2. /\ filed' = filed /\ cached' = cached /\ stale' = stale /\ rows' = rows
      /\ job' = job /\ faults' = faults /\ runs' = runs /\ asks' \in Nat
  BY <1>1 DEF Ask, table, TypeOK
<1>3. Grown
  BY <1>1, <1>2 DEF Grown, TypeOK
<1>4. /\ rows' \in [Pairs -> Nat] /\ cached' \subseteq Pairs
      /\ (\A p \in cached' : p[2] \in Feed(p[1])') /\ faults' \in Nat /\ runs' \in Nat
  BY <1>1, <1>2 DEF TypeOK, Stored, Feed
<1>5. PICK n \in {0} \cup Filings : n = IF t = "345" THEN seen[c] ELSE 0
  BY <1>1 DEF TypeOK
<1>6. PICK S \in SUBSET Filings : S = Read(t, c, l)
  BY DEF Read, Newest, CachedOf
<1>7. t = "345" => n \in {0} \cup FeedOf("345", c)'
  <2>1. t = "345" => n \in {0} \cup FeedOf("345", c)
    BY <1>1, <1>5, CachedIsFiled DEF Stored
  <2> QED BY <1>2, <2>1 DEF FeedOf, Feed
<1>8. CASE Hit(t, c, l)
  <2> DEFINE q == [pc |-> "answered", kind |-> t, cik |-> c, limit |-> 0, floor |-> n,
                   fetched |-> {}, new |-> {}, answer |-> S]
  <2>1. q \in ReqRecords
    BY DEF ReqRecords
  <2>2. req' = [req EXCEPT ![r] = q] /\ seen' = Shown(q, S)
    <3>1. PICK a : a = [Idle EXCEPT !.pc = "fetching", !.kind = t, !.cik = c, !.limit = l,
                                    !.floor = n]
      OBVIOUS
    <3>2. PICK b : b = Answered(a, S)
      OBVIOUS
    <3>3. a.kind = t /\ a.cik = c /\ a.floor = n
      BY <3>1 DEF Idle
    <3>4. b = q /\ Shown(b, S) = Shown(a, S)
      BY <3>2, <3>3, AnswerIs
    <3>5. req' = [req EXCEPT ![r] = Answered(a, S)] /\ seen' = Shown(a, S)
      BY <1>5, <1>6, <1>8, <3>1 DEF Ask
    <3> QED BY <3>2, <3>4, <3>5
  <2>3. t = "345" => NotOlder(S, n, c) /\ S \subseteq CachedOf("345", c)
    BY <1>1, <1>5, <1>6, <1>8, ReadNotOlder
  <2>4. t = "345" => NotOlder(S, n, c)' /\ S \subseteq CachedOf("345", c)'
    BY <1>2, <2>3 DEF NotOlder, Latest, Recent, CachedOf
  <2>5. Sought(q)'
    BY <1>7, <2>4 DEF Sought
  <2>6. q.cik = c /\ q.kind = t /\ q.new = {} /\ q.fetched = {}
    OBVIOUS
  <2> HIDE DEF q
  <2> QED BY <1>2, <1>3, <1>4, <2>1, <2>2, <2>4, <2>5, <2>6, RequestMoves
<1>9. CASE ~Hit(t, c, l)
  <2> DEFINE q == [pc |-> "fetching", kind |-> t, cik |-> c, limit |-> l, floor |-> n,
                   fetched |-> {}, new |-> {}, answer |-> {}]
  <2>1. q \in ReqRecords
    BY DEF ReqRecords
  <2>2. req' = [req EXCEPT ![r] = q] /\ seen' = seen
    BY <1>5, <1>9 DEF Ask, Idle
  <2>3. Sought(q)'
    BY <1>7 DEF Sought
  <2>4. q.new \subseteq q.fetched
    OBVIOUS
  <2> HIDE DEF q
  <2> QED BY <1>2, <1>3, <1>4, <2>1, <2>2, <2>3, <2>4, RequestMoves
<1> QED BY <1>3, <1>8, <1>9

LEMMA FetchKeeps ==
  ASSUME IInv, NEW r \in Requests, Fetch(r)
  PROVE  IInv' /\ Grown
<1>1. TypeOK /\ Stored /\ Asked
  BY DEF IInv
<1>2. /\ filed' = filed /\ cached' = cached /\ stale' = stale /\ rows' = rows
      /\ job' = job /\ seen' = seen /\ faults' = faults /\ runs' = runs /\ asks' = asks
  BY DEF Fetch, table
<1>3. Grown
  BY <1>1, <1>2 DEF Grown, TypeOK
<1>4. /\ rows' \in [Pairs -> Nat] /\ cached' \subseteq Pairs
      /\ (\A p \in cached' : p[2] \in Feed(p[1])')
      /\ faults' \in Nat /\ runs' \in Nat /\ asks' \in Nat
  BY <1>1, <1>2 DEF TypeOK, Stored, Feed
<1>5. PICK x \in ReqRecords : x = req[r]
  BY <1>1 DEF TypeOK
<1>6. x.pc = "fetching" /\ Sought(x)
  BY <1>1, <1>5 DEF Asked, Fetch
<1>7. PICK S \in SUBSET Filings : S = Newest(Listed(x.kind, x.cik), x.limit)
  BY DEF Newest, Listed, Recent
<1> DEFINE q == [x EXCEPT !.pc = "fetched", !.fetched = S]
<1>8. req' = [req EXCEPT ![r] = q]
  BY <1>1, <1>5, <1>7 DEF Fetch, TypeOK
<1>9. /\ q \in ReqRecords /\ q.pc = "fetched" /\ q.kind = x.kind /\ q.cik = x.cik
      /\ q.limit = x.limit /\ q.floor = x.floor /\ q.fetched = S /\ q.new = x.new
  BY DEF ReqRecords
<1>10. x.new = {} /\ x.cik \in Ciks /\ x.limit \in Limits
  BY <1>6 DEF Sought
<1>11. S \subseteq FeedOf(x.kind, x.cik)
  BY <1>7 DEF Newest, Listed, Recent, FeedOf, Feed
<1>41. x.kind = "345" => /\ x.floor \in {0} \cup FeedOf("345", x.cik)
                         /\ NotOlder(S, x.floor, x.cik)
  BY <1>1, <1>6, <1>7, <1>10, FetchNotOlder DEF Sought
<1> HIDE DEF q
<1>13. Sought(q)
  BY <1>9, <1>10, <1>11, <1>41 DEF Sought
<1>14. Sought(q)'
  BY <1>1, <1>3, <1>9, <1>13, SoughtKept
<1> QED BY <1>2, <1>3, <1>4, <1>8, <1>9, <1>10, <1>14, RequestMoves

LEMMA PlanKeeps ==
  ASSUME IInv, NEW r \in Requests, Plan(r)
  PROVE  IInv' /\ Grown
<1>1. TypeOK /\ Stored /\ Asked
  BY DEF IInv
<1>2. /\ filed' = filed /\ cached' = cached /\ stale' = stale /\ rows' = rows
      /\ job' = job /\ faults' = faults /\ runs' = runs /\ asks' = asks
  BY DEF Plan, table
<1>3. Grown
  BY <1>1, <1>2 DEF Grown, TypeOK
<1>4. /\ rows' \in [Pairs -> Nat] /\ cached' \subseteq Pairs
      /\ (\A p \in cached' : p[2] \in Feed(p[1])')
      /\ faults' \in Nat /\ runs' \in Nat /\ asks' \in Nat
  BY <1>1, <1>2 DEF TypeOK, Stored, Feed
<1>5. PICK x \in ReqRecords : x = req[r]
  BY <1>1 DEF TypeOK
<1>6. x.pc = "fetched" /\ Sought(x)
  BY <1>1, <1>5 DEF Asked, Plan
<1>7. PICK W \in SUBSET Filings : W = ToWrite(x.cik, x.fetched)
  BY DEF ToWrite, ReqRecords
<1>8. PICK y : y = [x EXCEPT !.pc = "writing", !.new = W]
  OBVIOUS
<1>9. /\ y \in ReqRecords /\ y.pc = "writing" /\ y.kind = x.kind /\ y.cik = x.cik
      /\ y.limit = x.limit /\ y.floor = x.floor /\ y.fetched = x.fetched /\ y.new = W
  BY <1>8 DEF ReqRecords
<1>10. IF W = {}
       THEN req' = [req EXCEPT ![r] = Answered(y, MissAnswer(y))] /\ seen' = Shown(y, MissAnswer(y))
       ELSE req' = [req EXCEPT ![r] = y] /\ seen' = seen
  BY <1>5, <1>7, <1>8, <1>9 DEF Plan
<1>11. W \subseteq x.fetched /\ \A f \in x.fetched \ W : <<x.cik, f>> \in cached
  BY <1>7 DEF ToWrite
<1>41. /\ x.cik \in Ciks /\ x.fetched \subseteq FeedOf(x.kind, x.cik)
       /\ x.kind = "345" => /\ x.floor \in {0} \cup FeedOf("345", x.cik)
                            /\ NotOlder(x.fetched, x.floor, x.cik)
       /\ x.limit \in Limits
  BY <1>6 DEF Sought
<1>13. CASE W = {}
  <2>1. PICK S \in SUBSET Filings : S = MissAnswer(y)
    BY <1>9 DEF MissAnswer, Newest, ReqRecords
  <2>2. PICK q : q = Answered(y, S)
    OBVIOUS
  <2>3. /\ q = [pc |-> "answered", kind |-> x.kind, cik |-> x.cik, limit |-> 0,
                floor |-> x.floor, fetched |-> {}, new |-> {}, answer |-> S]
        /\ Shown(q, S) = Shown(y, S)
    BY <1>9, <2>2, AnswerIs
  <2>4. req' = [req EXCEPT ![r] = q] /\ seen' = Shown(q, S)
    BY <1>10, <1>13, <2>1, <2>2, <2>3
  <2>5. q \in ReqRecords
    BY <2>3 DEF ReqRecords
  <2>6. x.kind = "345" => S = x.fetched
    BY <1>9, <2>1 DEF MissAnswer
  <2>7. Sought(q)
    BY <1>41, <2>3, <2>6 DEF Sought
  <2>8. Sought(q)'
    BY <1>1, <1>3, <2>5, <2>7, SoughtKept
  <2>9. x.kind = "345" => S \subseteq CachedOf("345", x.cik)'
    BY <1>2, <1>11, <1>41, <1>13, <2>6 DEF CachedOf, FeedOf
  <2>10. q.cik = x.cik /\ q.kind = x.kind /\ q.new = {} /\ q.fetched = {}
    BY <2>3
  <2> QED
    BY <1>2, <1>3, <1>4, <1>41, <2>4, <2>5, <2>8, <2>9, <2>10, RequestMoves
<1>14. CASE W # {}
  <2>1. Sought(y)
    BY <1>9, <1>11, <1>41 DEF Sought
  <2>2. Sought(y)'
    BY <1>1, <1>3, <1>9, <2>1, SoughtKept
  <2> QED BY <1>2, <1>3, <1>4, <1>9, <1>10, <1>11, <1>14, <2>2, RequestMoves
<1> QED BY <1>3, <1>13, <1>14

LEMMA CommitKeeps ==
  ASSUME IInv, NEW r \in Requests, Commit(r)
  PROVE  IInv' /\ Grown /\ \A p \in Pairs : rows[p] >= 1 => rows'[p] >= 1
<1>1. TypeOK /\ Stored /\ Asked
  BY DEF IInv
<1>2. PICK x \in ReqRecords : x = req[r]
  BY <1>1 DEF TypeOK
<1>3. x.pc = "writing" /\ Sought(x) /\ x.new \subseteq x.fetched
  BY <1>1, <1>2 DEF Asked, Commit, TypeOK
<1>4. /\ filed' = filed /\ cached' = cached \cup ({x.cik} \X x.new) /\ stale' = stale
      /\ rows' = [p \in Pairs |-> IF \E f \in x.new : RowOf(x.cik, f) = p
                                  THEN rows[p] + 1 ELSE rows[p]]
      /\ job' = job /\ faults' = faults /\ runs' = runs /\ asks' = asks
  BY <1>2 DEF Commit, Insert
<1>5. Grown
  BY <1>1, <1>4 DEF Grown, TypeOK
<1>6. /\ x.cik \in Ciks /\ x.fetched \subseteq FeedOf(x.kind, x.cik)
      /\ x.kind = "345" => /\ x.floor \in {0} \cup FeedOf("345", x.cik)
                           /\ NotOlder(x.fetched, x.floor, x.cik)
      /\ \A f \in x.fetched \ x.new : <<x.cik, f>> \in cached
      /\ x.fetched \subseteq Filings /\ x.new \subseteq Filings
  BY <1>3 DEF Sought, ReqRecords
<1>7. rows' \in [Pairs -> Nat] /\ \A p \in Pairs : rows[p] >= 1 => rows'[p] >= 1
  BY <1>1, <1>4 DEF TypeOK
<1>8. /\ cached' \subseteq Pairs /\ faults' \in Nat /\ runs' \in Nat /\ asks' \in Nat
  BY <1>1, <1>4, <1>6 DEF TypeOK, Pairs
<1>9. ASSUME NEW p \in cached' PROVE p[2] \in Feed(p[1])'
  <2>1. CASE p \in cached
    BY <1>1, <1>4, <2>1 DEF Stored, Feed
  <2>2. CASE p \in {x.cik} \X x.new
    BY <1>3, <1>4, <1>6, <2>2 DEF FeedOf, Feed
  <2> QED BY <1>4, <2>1, <2>2
<1>10. PICK S \in SUBSET Filings : S = MissAnswer(x)
  BY <1>6 DEF MissAnswer, Newest
<1>11. PICK q : q = Answered(x, S)
  OBVIOUS
<1>41. /\ q = [pc |-> "answered", kind |-> x.kind, cik |-> x.cik, limit |-> 0,
               floor |-> x.floor, fetched |-> {}, new |-> {}, answer |-> S]
       /\ Shown(q, S) = Shown(x, S)
  BY <1>11, AnswerIs
<1>13. req' = [req EXCEPT ![r] = q] /\ seen' = Shown(q, S)
  BY <1>1, <1>2, <1>10, <1>11, <1>41 DEF Commit, TypeOK
<1>14. q \in ReqRecords
  BY <1>41 DEF ReqRecords
<1>15. x.kind = "345" => S = x.fetched
  BY <1>10 DEF MissAnswer
<1>16. Sought(q)
  BY <1>6, <1>41, <1>15 DEF Sought
<1>17. Sought(q)'
  BY <1>1, <1>5, <1>14, <1>16, SoughtKept
<1>18. x.kind = "345" => S \subseteq CachedOf("345", x.cik)'
  BY <1>4, <1>6, <1>15 DEF CachedOf, FeedOf
<1>19. q.cik = x.cik /\ q.kind = x.kind /\ q.new = {} /\ q.fetched = {}
  BY <1>41
<1>20. IInv'
  BY <1>4, <1>5, <1>6, <1>7, <1>8, <1>9, <1>13, <1>14, <1>17, <1>18, <1>19, RequestMoves
<1> QED BY <1>5, <1>7, <1>20

LEMMA RequestFailsKeeps ==
  ASSUME IInv, NEW r \in Requests, RequestFails(r)
  PROVE  IInv' /\ Grown
<1>1. TypeOK /\ Stored
  BY DEF IInv
<1>2. /\ filed' = filed /\ cached' = cached /\ stale' = stale /\ rows' = rows
      /\ job' = job /\ seen' = seen /\ faults' \in Nat /\ runs' = runs /\ asks' = asks
      /\ req' = [req EXCEPT ![r] = Idle]
  BY <1>1 DEF RequestFails, table, TypeOK
<1>3. Grown
  BY <1>1, <1>2 DEF Grown, TypeOK
<1>4. /\ rows' \in [Pairs -> Nat] /\ cached' \subseteq Pairs
      /\ (\A p \in cached' : p[2] \in Feed(p[1])') /\ runs' \in Nat /\ asks' \in Nat
  BY <1>1, <1>2 DEF TypeOK, Stored, Feed
<1>5. Idle \in ReqRecords /\ Sought(Idle)' /\ Idle.new \subseteq Idle.fetched
  BY DEF Idle, ReqRecords, Sought
<1>6. PICK q : q = Idle
  OBVIOUS
<1> QED BY <1>2, <1>3, <1>4, <1>5, <1>6, RequestMoves

----------------------------------------------------------------------------
(* The steps of the backfill.                                              *)

\* The parts of a step that moves the job and leaves the requests alone.
LEMMA JobMoves ==
  ASSUME IInv, Grown, Covered', job' \in JobRecords, job'.new \subseteq job'.fetched,
         req' = req, seen' = seen, filed' = filed, rows' \in [Pairs -> Nat],
         cached' \subseteq Pairs, \A p \in cached' : p[2] \in Feed(p[1])',
         faults' \in Nat, runs' \in Nat, asks' = asks
  PROVE  IInv'
<1>1. TypeOK /\ Stored /\ Asked
  BY DEF IInv
<1>2. Asked'
  BY <1>1, AskedStays
<1>3. stale' \subseteq cached'
  BY <1>1 DEF Stored, Grown
<1>4. \A c \in Ciks : seen'[c] \in {0} \cup CachedOf("345", c)'
  BY <1>1, FeedGrows DEF Stored
<1>5. Stored'
  BY <1>3, <1>4 DEF Stored
<1>6. TypeOK'
  BY <1>1, <1>3 DEF TypeOK
<1> QED BY <1>2, <1>5, <1>6 DEF IInv

\* Those that leave the table alone, too.
LEMMA JobMovesAlone ==
  ASSUME IInv, Covered', job' \in JobRecords, job'.new \subseteq job'.fetched,
         req' = req, seen' = seen, filed' = filed, table' = table,
         faults' \in Nat, runs' \in Nat, asks' = asks
  PROVE  IInv' /\ Grown
<1>1. TypeOK /\ Stored
  BY DEF IInv
<1>2. Grown /\ cached' = cached /\ rows' = rows
  BY <1>1 DEF Grown, TypeOK, table
<1>3. /\ rows' \in [Pairs -> Nat] /\ cached' \subseteq Pairs
      /\ (\A p \in cached' : p[2] \in Feed(p[1])')
  BY <1>1, <1>2 DEF TypeOK, Stored, Feed
<1> QED BY <1>2, <1>3, JobMoves

LEMMA CandidateOf ==
  ASSUME TypeOK, job.todo # {}
  PROVE  Candidate \in job.todo /\ Candidate \in Ciks /\ \A c \in job.todo : Candidate <= c
<1>1. job.todo \subseteq Ciks /\ Ciks \subseteq Nat
  BY DEF TypeOK, JobRecords
<1> QED BY <1>1, MinOf DEF Candidate

(* The walk leaves an issuer behind that is clean or noted as missed.      *)
LEMMA MovedKeeps ==
  ASSUME TypeOK, Stored, Covered, Grown, job.pc # "off", job.todo # {},
         NEW M \in SUBSET Ciks, job' = Moved(M),
         \A m \in Modes, c \in Ciks : m = job.mode /\ c = Candidate /\ c \notin M => Clean(m, c)'
  PROVE  Covered' /\ job' \in JobRecords /\ job'.new \subseteq job'.fetched
<1>1. job \in JobRecords
  BY DEF TypeOK
<1>2. PICK k \in Ciks : k = Candidate
  BY CandidateOf
<1>3. /\ job'.pc = "next" /\ job'.todo = job.todo \ {k} /\ job'.missed = job.missed \cup M
      /\ job'.mode = job.mode /\ job'.fetched = {} /\ job'.new = {}
      /\ job' \in JobRecords
  BY <1>1, <1>2 DEF Moved, JobRecords
<1>4. ASSUME NEW m \in Modes, NEW c \in Ciks, m = job.mode, c \notin (job.todo \ {k}) \cup (job.missed \cup M)
      PROVE  Clean(m, c)'
  <2>1. CASE c = k
    BY <1>2, <1>4, <2>1
  <2>2. CASE c # k
    BY <1>4, <2>2, CleanKept DEF Covered
  <2> QED BY <2>1, <2>2
<1> QED BY <1>3, <1>4 DEF Covered

LEMMA JobStartKeeps ==
  ASSUME IInv, NEW m \in Modes, NEW s \in {0} \cup Ciks, JobStart(m, s)
  PROVE  IInv' /\ Grown
<1>1. TypeOK /\ Stored /\ Covered /\ job \in JobRecords
  BY DEF IInv, TypeOK
<1>2. table' = table /\ filed' = filed /\ runs' \in Nat
  BY <1>1 DEF JobStart, TypeOK
<1>3. Grown
  BY <1>1, <1>2 DEF Grown, TypeOK, table
<1>4. PICK b \in {0} \cup Filings : b = IF s = 0 THEN filed ELSE job.base
  BY <1>1 DEF TypeOK, JobRecords
<1>5. job' = [pc |-> "next", mode |-> m, todo |-> Todo(m, s), fetched |-> {}, new |-> {},
              missed |-> {c \in job.missed : c <= s}, resume |-> 0, base |-> b]
  BY <1>4 DEF JobStart, NoJob
<1>6. job' \in JobRecords
  BY <1>1, <1>5 DEF JobRecords, Modes, Todo
<1>7. ASSUME NEW c \in Ciks, c \notin Todo(m, s), ~(c \in job.missed /\ c <= s)
      PROVE  Clean(m, c)'
  <2>1. CASE c > s
    <3>1. m = "repair" /\ \A f \in Filings : <<c, f>> \notin stale
      BY <1>7, <2>1 DEF Todo
    <3>2. Owed(m, c) \subseteq Filings
      BY <3>1 DEF Owed, Listed, Recent, Newest
    <3>3. Clean(m, c)
      BY <3>1, <3>2 DEF Clean
    <3> QED BY <1>1, <1>3, <3>3, CleanKept
  <2>2. CASE ~(c > s)
    <3>1. c \in Nat \ {0} /\ s \in Nat /\ c <= s /\ s # 0
      BY <2>2
    <3>2. s \in 0..job.resume /\ job.mode = m /\ job.pc = "off"
      BY <3>1 DEF JobStart, ResumePoints
    <3>3. c <= job.resume /\ c \notin job.missed
      BY <1>1, <1>7, <3>1, <3>2 DEF JobRecords
    <3>4. Clean(m, c)
      BY <1>1, <3>2, <3>3 DEF Covered
    <3> QED BY <1>1, <1>3, <3>4, CleanKept
  <2> QED BY <2>1, <2>2
<1>8. Covered'
  BY <1>5, <1>7 DEF Covered
<1>9. job'.new \subseteq job'.fetched
  BY <1>5
<1> QED BY <1>1, <1>2, <1>6, <1>8, <1>9, JobMovesAlone DEF JobStart, TypeOK

LEMMA JobSkipKeeps ==
  ASSUME IInv, JobSkip \/ JobFetchFails
  PROVE  IInv' /\ Grown
<1>1. TypeOK /\ Stored /\ Covered
  BY DEF IInv
<1>2. table' = table /\ filed' = filed /\ faults' \in Nat /\ runs' \in Nat
  BY <1>1 DEF JobSkip, JobFetchFails, TypeOK
<1>3. Grown
  BY <1>1, <1>2 DEF Grown, TypeOK, table
<1>4. job.pc = "next" /\ job.todo # {} /\ Candidate \in Ciks
  BY <1>1, CandidateOf DEF JobSkip, JobFetchFails
<1>5. CASE JobSkip
  <2>1. \A c : Clean("warm", c)'
    BY DEF Clean, Owed
  <2>2. job' = Moved({}) /\ job.mode = "warm"
    BY <1>5 DEF JobSkip, WarmEnough
  <2>3. Covered' /\ job' \in JobRecords /\ job'.new \subseteq job'.fetched
    BY <1>1, <1>3, <1>4, <2>1, <2>2, MovedKeeps
  <2> QED BY <1>2, <1>5, <2>3, JobMovesAlone DEF JobSkip
<1>6. CASE JobFetchFails
  <2>1. PICK k \in Ciks : k = Candidate
    BY <1>4
  <2>2. job' = Moved({k})
    BY <1>6, <2>1 DEF JobFetchFails
  <2>3. Covered' /\ job' \in JobRecords /\ job'.new \subseteq job'.fetched
    BY <1>1, <1>3, <1>4, <2>1, <2>2, MovedKeeps
  <2> QED BY <1>2, <1>6, <2>3, JobMovesAlone DEF JobFetchFails
<1> QED BY <1>5, <1>6

LEMMA JobFetchKeeps ==
  ASSUME IInv, JobFetch
  PROVE  IInv' /\ Grown
<1>1. TypeOK /\ Stored /\ Covered /\ job \in JobRecords
  BY DEF IInv, TypeOK
<1>2. table' = table /\ filed' = filed /\ stale' = stale
  BY DEF JobFetch, table
<1>3. Grown
  BY <1>1, <1>2 DEF Grown, TypeOK, table
<1>4. PICK k \in Ciks : k = Candidate
  BY <1>1, CandidateOf DEF JobFetch
<1>5. PICK S \in SUBSET Filings :
        S = IF job.mode = "repair" THEN {f \in Listed("345", k) : <<k, f>> \in stale}
            ELSE Newest(Listed("345", k), RunLimit)
  BY DEF Listed, Recent, Newest
<1>6. /\ job.pc = "next" /\ job.todo # {}
      /\ job' = [job EXCEPT !.pc = "fetched", !.fetched = S]
  BY <1>4, <1>5 DEF JobFetch
<1>7. /\ job' \in JobRecords /\ job'.pc = "fetched" /\ job'.todo = job.todo
      /\ job'.fetched = S /\ job'.new = {} /\ job'.mode = job.mode
      /\ job'.missed = job.missed /\ Candidate' = Candidate
  BY <1>1, <1>6 DEF JobRecords, Covered, Candidate
<1>8. S \subseteq FeedOf("345", k)'
  BY <1>2, <1>5 DEF Listed, Recent, Newest, FeedOf, Feed
<1>9. ASSUME NEW m \in Modes, m = job.mode PROVE Fetching(m, k)'
  <2>1. ASSUME NEW f \in Owed(m, k), <<k, f>> \in stale PROVE f \in S
    <3>1. CASE m = "repair"
      BY <1>5, <1>9, <2>1, <3>1 DEF Owed
    <3>2. CASE m = "refresh"
      BY <1>5, <1>9, <2>1, <3>2 DEF Owed
    <3>3. CASE m = "warm"
      BY <2>1, <3>3 DEF Owed
    <3> QED BY <3>1, <3>2, <3>3 DEF Modes
  <2>2. ASSUME NEW f \in Owed(m, k)', <<k, f>> \in stale' PROVE f \in S
    <3>1. <<k, f>> \in stale /\ f \in Feed(k)
      BY <1>1, <1>2, <2>2 DEF Stored
    <3> QED BY <1>1, <1>3, <2>1, <2>2, <3>1, OwedKept
  <2> QED BY <1>7, <1>8, <2>2 DEF Fetching
<1>10. ASSUME NEW m \in Modes, NEW c \in Ciks, m = job.mode, c \notin job.todo \cup job.missed
       PROVE  Clean(m, c)'
  BY <1>1, <1>3, <1>6, <1>10, CleanKept DEF Covered
<1>11. Covered'
  BY <1>4, <1>6, <1>7, <1>9, <1>10 DEF Covered
<1>41. job'.new \subseteq job'.fetched
  BY <1>7
<1> QED BY <1>1, <1>2, <1>7, <1>11, <1>41, JobMovesAlone DEF JobFetch, TypeOK

LEMMA JobPlanKeeps ==
  ASSUME IInv, JobPlan
  PROVE  IInv' /\ Grown
<1>1. TypeOK /\ Stored /\ Covered /\ job \in JobRecords
  BY DEF IInv, TypeOK
<1>2. table' = table /\ filed' = filed
  BY DEF JobPlan
<1>3. Grown
  BY <1>1, <1>2 DEF Grown, TypeOK, table
<1>4. job.pc = "fetched" /\ job.todo # {}
  BY <1>1 DEF JobPlan, Covered
<1>5. PICK k \in Ciks : k = Candidate
  BY <1>1, <1>4, CandidateOf
<1>6. PICK W \in SUBSET Filings : W = IF Replaces THEN job.fetched ELSE ToWrite(k, job.fetched)
  BY <1>1 DEF JobRecords, ToWrite
<1>7. W \subseteq job.fetched
  BY <1>6 DEF ToWrite
<1>8. job' = IF W = {} THEN Moved({}) ELSE [job EXCEPT !.pc = "writing", !.new = W]
  BY <1>5, <1>6 DEF JobPlan
<1>9. ASSUME NEW m \in Modes, m = job.mode PROVE Fetching(m, k)
  BY <1>1, <1>4, <1>5, <1>9 DEF Covered
<1>10. CASE W = {}
  <2>1. ASSUME NEW m \in Modes, m = job.mode PROVE Clean(m, k)'
    <3>1. Clean(m, k)
      <4>1. CASE m = "warm"
        BY <4>1 DEF Clean, Owed
      <4>2. CASE m # "warm"
        <5>1. job.fetched = {}
          BY <1>6, <1>10, <2>1, <4>2 DEF Replaces
        <5> QED BY <1>9, <2>1, <5>1 DEF Clean, Fetching
      <4> QED BY <4>1, <4>2
    <3> QED BY <1>1, <1>3, <3>1, CleanKept
  <2>2. job' = Moved({})
    BY <1>8, <1>10
  <2>3. Covered' /\ job' \in JobRecords /\ job'.new \subseteq job'.fetched
    BY <1>1, <1>3, <1>4, <1>5, <2>1, <2>2, MovedKeeps
  <2> QED BY <1>1, <1>2, <2>3, JobMovesAlone DEF JobPlan, TypeOK
<1>11. CASE W # {}
  <2>1. job' = [job EXCEPT !.pc = "writing", !.new = W]
    BY <1>8, <1>11
  <2>2. /\ job' \in JobRecords /\ job'.pc = "writing" /\ job'.todo = job.todo
        /\ job'.fetched = job.fetched /\ job'.new = W /\ job'.mode = job.mode
        /\ job'.missed = job.missed /\ Candidate' = Candidate
    BY <1>1, <2>1 DEF JobRecords, Candidate
  <2>3. ASSUME NEW m \in Modes, m = job.mode PROVE Fetching(m, k)'
    BY <1>1, <1>3, <1>9, <2>2, <2>3, FetchingKept
  <2>4. ASSUME NEW m \in Modes, NEW c \in Ciks, m = job.mode, c \notin job.todo \cup job.missed
        PROVE  Clean(m, c)'
    BY <1>1, <1>3, <1>4, <2>4, CleanKept DEF Covered
  <2>5. Replaces' => W = job.fetched
    BY <1>6, <2>2 DEF Replaces
  <2>6. Covered'
    BY <1>4, <1>5, <2>2, <2>3, <2>4, <2>5 DEF Covered
  <2>7. job'.new \subseteq job'.fetched
    BY <1>7, <2>2
  <2> QED BY <1>1, <1>2, <2>2, <2>6, <2>7, JobMovesAlone DEF JobPlan, TypeOK
<1> QED BY <1>3, <1>10, <1>11

LEMMA JobCommitKeeps ==
  ASSUME IInv, JobCommit
  PROVE  IInv' /\ Grown /\ \A p \in Pairs : rows[p] >= 1 => rows'[p] >= 1
<1>1. TypeOK /\ Stored /\ Covered /\ job \in JobRecords
  BY DEF IInv, TypeOK
<1>2. job.pc = "writing" /\ job.todo # {}
  BY <1>1 DEF JobCommit, Covered
<1>3. PICK k \in Ciks : k = Candidate
  BY <1>1, <1>2, CandidateOf
<1>4. PICK W \in SUBSET Filings : W = job.new
  BY <1>1 DEF JobRecords
<1>5. /\ filed' = filed /\ req' = req /\ seen' = seen /\ faults' = faults /\ runs' = runs
      /\ asks' = asks /\ job' = Moved({})
      /\ IF Replaces THEN Replace(k, W) ELSE Insert(k, W)
  BY <1>3, <1>4 DEF JobCommit
<1>6. /\ cached' = cached \cup ({k} \X W)
      /\ IF Replaces THEN stale' = stale \ ({k} \X W) ELSE stale' = stale
  BY <1>5 DEF Replace, Insert
<1>7. Grown
  BY <1>1, <1>5, <1>6 DEF Grown, TypeOK
<1>8. rows' \in [Pairs -> Nat] /\ \A p \in Pairs : rows[p] >= 1 => rows'[p] >= 1
  <2>1. rows \in [Pairs -> Nat]
    BY <1>1 DEF TypeOK
  <2>2. CASE Replaces
    <3>1. rows' = [p \in Pairs |-> IF p \in {k} \X W THEN 1 ELSE rows[p]]
      BY <1>5, <2>2 DEF Replace
    <3> QED BY <2>1, <3>1
  <2>3. CASE ~Replaces
    <3>1. rows' = [p \in Pairs |-> IF \E f \in W : RowOf(k, f) = p THEN rows[p] + 1
                                  ELSE rows[p]]
      BY <1>5, <2>3 DEF Insert
    <3> QED BY <2>1, <3>1
  <2> QED BY <2>2, <2>3
<1>9. \A m \in Modes : m = job.mode => Fetching(m, k)
  BY <1>1, <1>2, <1>3 DEF Covered
<1>10. W \subseteq FeedOf("345", k)
  <2>1. job.mode \in Modes /\ W \subseteq job.fetched
    BY <1>1, <1>4 DEF TypeOK, JobRecords, Modes
  <2> QED BY <1>9, <2>1 DEF Fetching
<1>11. cached' \subseteq Pairs
  BY <1>1, <1>6 DEF TypeOK, Pairs
<1>41. ASSUME NEW p \in cached' PROVE p[2] \in Feed(p[1])'
  <2>1. CASE p \in cached
    BY <1>1, <1>5, <2>1 DEF Stored, Feed
  <2>2. CASE p \in {k} \X W
    BY <1>5, <1>10, <2>2 DEF FeedOf, Feed
  <2> QED BY <1>6, <2>1, <2>2
<1>13. ASSUME NEW m \in Modes, m = job.mode PROVE Clean(m, k)'
  <2>1. CASE m = "warm"
    BY <2>1 DEF Clean, Owed
  <2>2. CASE m # "warm"
    <3>1. Replaces /\ W = job.fetched
      BY <1>1, <1>2, <1>4, <1>13, <2>2 DEF Replaces, Covered
    <3>2. SUFFICES ASSUME NEW f \in Owed(m, k)', <<k, f>> \in stale'
                   PROVE  FALSE
      BY DEF Clean
    <3>3. <<k, f>> \in stale /\ f \notin W
      BY <1>6, <3>1, <3>2
    <3>4. f \in Feed(k)
      BY <1>1, <3>3 DEF Stored
    <3>5. f \in Owed(m, k)
      BY <1>1, <1>7, <3>2, <3>4, OwedKept
    <3> QED BY <1>9, <1>13, <3>1, <3>3, <3>5 DEF Fetching
  <2> QED BY <2>1, <2>2
<1>14. Covered' /\ job' \in JobRecords /\ job'.new \subseteq job'.fetched
  BY <1>1, <1>2, <1>3, <1>5, <1>7, <1>13, MovedKeeps
<1>15. IInv'
  BY <1>1, <1>5, <1>7, <1>8, <1>11, <1>41, <1>14, JobMoves DEF TypeOK
<1> QED BY <1>7, <1>8, <1>15

(* A run that breaks has dealt with the issuers before the one it is at.   *)
LEMMA JobStopsKeeps ==
  ASSUME IInv, JobBreaks \/ JobEnds
  PROVE  IInv' /\ Grown
<1>1. TypeOK /\ Stored /\ Covered /\ job \in JobRecords
  BY DEF IInv, TypeOK
<1>2. /\ table' = table /\ filed' = filed /\ req' = req /\ seen' = seen
      /\ faults' \in Nat /\ runs' \in Nat /\ asks' = asks
  BY <1>1 DEF JobBreaks, JobEnds, TypeOK
<1>3. Grown
  BY <1>1, <1>2 DEF Grown, TypeOK, table
<1>4. CASE JobBreaks
  <2>1. PICK k \in Ciks : k = Candidate /\ \A c \in job.todo : k <= c
    BY <1>1, <1>4, CandidateOf DEF JobBreaks
  <2>2. job' = [pc |-> "off", mode |-> job.mode, todo |-> {}, fetched |-> {}, new |-> {},
                missed |-> job.missed, resume |-> k - 1, base |-> job.base]
    BY <1>4, <2>1 DEF JobBreaks, NoJob
  <2>3. k - 1 \in Nat /\ k \in Nat
    OBVIOUS
  <2>4. job' \in JobRecords
    BY <1>1, <2>2, <2>3 DEF JobRecords
  <2>5. ASSUME NEW m \in Modes, NEW c \in Ciks, m = job.mode, c <= k - 1, c \notin job.missed
        PROVE  Clean(m, c)'
    <3>1. c \notin job.todo
      <4>0. c \in Nat /\ k \in Nat /\ c <= k - 1
        BY <2>3, <2>5
      <4>1. ~(k <= c)
        BY <4>0
      <4> QED BY <2>1, <4>1
    <3>2. Clean(m, c)
      BY <1>1, <1>4, <2>5, <3>1 DEF Covered, JobBreaks
    <3> QED BY <1>1, <1>3, <3>2, CleanKept
  <2>6. Covered'
    BY <2>2, <2>5 DEF Covered
  <2>7. job'.new \subseteq job'.fetched
    BY <2>2
  <2> QED BY <1>2, <2>4, <2>6, <2>7, JobMovesAlone
<1>5. CASE JobEnds
  <2>1. job' = [pc |-> "off", mode |-> "warm", todo |-> {}, fetched |-> {}, new |-> {},
                missed |-> {}, resume |-> 0, base |-> 0]
    BY <1>5 DEF JobEnds, NoJob
  <2>2. job' \in JobRecords
    BY <2>1 DEF JobRecords
  <2>3. \A c : Clean("warm", c)'
    BY DEF Clean, Owed
  <2>4. Covered' /\ job'.new \subseteq job'.fetched
    BY <2>1, <2>3 DEF Covered
  <2> QED BY <1>2, <2>2, <2>4, JobMovesAlone
<1> QED BY <1>4, <1>5

----------------------------------------------------------------------------
(* The theorems about forms 3/4/5 and schedules 13D/13G.                   *)

LEMMA NextKeeps ==
  IInv /\ [Next]_vars =>
    IInv' /\ cached \subseteq cached' /\ \A p \in Pairs : rows[p] >= 1 => rows'[p] >= 1
<1> SUFFICES ASSUME IInv, [Next]_vars
             PROVE  /\ IInv' /\ cached \subseteq cached'
                    /\ \A p \in Pairs : rows[p] >= 1 => rows'[p] >= 1
  OBVIOUS
<1> DEFINE Goal == /\ IInv' /\ cached \subseteq cached'
                   /\ \A p \in Pairs : rows[p] >= 1 => rows'[p] >= 1
<1>1. ASSUME IInv', Grown, rows' = rows PROVE Goal
  BY <1>1 DEF Grown
<1>2. CASE File
  BY <1>1, <1>2, FileKeeps DEF File, table
<1>3. ASSUME NEW r \in Requests, NEW t \in {"345", "13DG"}, NEW c \in Ciks, NEW l \in Limits,
             Ask(r, t, c, l)
      PROVE  Goal
  BY <1>1, <1>3, AskKeeps DEF Ask, table
<1>4. ASSUME NEW r \in Requests, Fetch(r) \/ Plan(r) \/ RequestFails(r) PROVE Goal
  BY <1>1, <1>4, FetchKeeps, PlanKeeps, RequestFailsKeeps DEF Fetch, Plan, RequestFails, table
<1>5. ASSUME NEW r \in Requests, Commit(r) PROVE Goal
  BY <1>5, CommitKeeps DEF Grown
<1>6. ASSUME NEW m \in Modes, NEW s \in {0} \cup Ciks, JobStart(m, s) PROVE Goal
  BY <1>1, <1>6, JobStartKeeps DEF JobStart, table
<1>7. CASE JobSkip \/ JobFetchFails
  BY <1>1, <1>7, JobSkipKeeps DEF JobSkip, JobFetchFails, table
<1>8. CASE JobFetch \/ JobPlan
  BY <1>1, <1>8, JobFetchKeeps, JobPlanKeeps DEF JobFetch, JobPlan, table
<1>9. CASE JobCommit
  BY <1>9, JobCommitKeeps DEF Grown
<1>10. CASE JobBreaks \/ JobEnds
  BY <1>1, <1>10, JobStopsKeeps DEF JobBreaks, JobEnds, table
<1>11. CASE UNCHANGED vars
  <2>1. TypeOK /\ Stored /\ Asked /\ Covered
    BY DEF IInv
  <2>2. Grown /\ rows' = rows
    BY <1>11, <2>1 DEF vars, table, Grown, TypeOK
  <2>3. TypeOK'
    BY <1>11, <2>1 DEF vars, table, TypeOK
  <2>4. IInv'
    BY <1>11, <2>1, <2>2, <2>3, StoredKept, AskedStays, CoveredKept DEF IInv, vars, table
  <2> QED BY <1>1, <2>2, <2>4
<1> QED BY <1>2, <1>3, <1>4, <1>5, <1>6, <1>7, <1>8, <1>9, <1>10, <1>11 DEF Next, Modes

LEMMA Invariance == Spec => []IInv
BY InitIInv, NextKeeps, PTL DEF Spec

(* Tables, requests and the job keep their shapes. *)
THEOREM FilingTypes == Spec => []TypeOK
<1>1. IInv => TypeOK
  BY DEF IInv
<1> QED BY <1>1, Invariance, PTL

(* No write of any process, a refresh included, costs the table a filing   *)
(* or the rows of one.                                                     *)
THEOREM FilingsKept == Spec => NothingDropped
<1>1. IInv /\ [Next]_vars =>
        [/\ cached \subseteq cached'
         /\ \A p \in Pairs : rows[p] >= 1 => rows'[p] >= 1]_vars
  BY NextKeeps
<1> QED BY <1>1, Invariance, PTL DEF Spec, NothingDropped

(* An answer is at least as new as any given before it was asked for, or   *)
(* empty because that one has aged out of EDGAR's list.                    *)
THEOREM AnswersNotOlder == Spec => []NeverOlder
<1>1. ASSUME IInv PROVE NeverOlder
  <2>1. SUFFICES ASSUME NEW r \in Requests, req[r].pc = "answered", req[r].kind = "345"
                 PROVE  NotOlder(req[r].answer, req[r].floor, req[r].cik)
    BY DEF NeverOlder, NotOlder
  <2>2. Sought(req[r])
    BY <1>1 DEF IInv, TypeOK, Asked
  <2> QED BY <2>1, <2>2 DEF Sought
<1> QED BY <1>1, Invariance, PTL

(* A repair or a refresh that has come to its end, in one run or resumed,  *)
(* has renewed every row it owed, except those of issuers it has tallied.  *)
THEOREM ReparseIsComplete == Spec => []ReparseCovers
<1>1. ASSUME IInv PROVE ReparseCovers
  <2>1. ASSUME NEW m \in Modes, AtTheEnd(m), NEW c \in Ciks \ job.missed PROVE Clean(m, c)
    BY <1>1, <2>1 DEF IInv, Covered, AtTheEnd
  <2>2. AtTheEnd("repair") =>
          \A c \in Ciks \ job.missed : \A f \in Listed("345", c) : <<c, f>> \notin stale
    BY <2>1 DEF Clean, Owed, Modes
  <2>3. AtTheEnd("refresh") =>
          \A c \in Ciks \ job.missed :
            \A f \in Newest(Listed("345", c), RunLimit) : <<c, f>> \notin stale
    BY <2>1 DEF Clean, Owed, Modes
  <2> QED BY <2>2, <2>3 DEF ReparseCovers
<1> QED BY <1>1, Invariance, PTL

----------------------------------------------------------------------------
(* The 13F snapshots and the CUSIP map, whose processes are others.        *)

HIDE FilingCacheAssumption
USE HoldingsAssumption


\* Of a request: what it is about to store or look up is the manager's.
AskedHoldings ==
  /\ req13F.pc # "idle" => req13F.manager \in Managers
  /\ req13F.pc = "storing" =>
       /\ req13F.got.accession \in Filings13F /\ req13F.got = Snapshot(req13F.got.accession)
       /\ Of[req13F.got.accession] = req13F.manager
  /\ req13F.pc = "resolving" => req13F.got.holdings \in Filings13F

\* Of the backfills: what is behind them and what they are at.
WalkedHoldings ==
  /\ job13F.pc \in {"resolving", "storing"} => job13F.todo # {}
  /\ \A m \in job13F.todo : NewestOf(m, job13F.zip) # 0
  /\ job13F.pc # "off" =>
       \A m \in Managers \ (job13F.todo \cup job13F.failed) :
         NewestOf(m, job13F.zip) # 0 =>
           snapshots[m].accession = NewestOf(m, job13F.zip) \/ m \in overwritten
  /\ loc.pc = "storing" => loc.todo # {}

HInv == TypeOK13F /\ AskedHoldings /\ WalkedHoldings

(* The last of a manager's filings is one of them.                         *)
LEMMA NewestOfIs ==
  ASSUME NEW m, NEW n \in Numbers
  PROVE  /\ NewestOf(m, n) \in Numbers
         /\ NewestOf(m, n) # 0 => NewestOf(m, n) \in Filings13F /\ Of[NewestOf(m, n)] = m
<1> DEFINE S == {f \in 1..n : Of[f] = m}
<1>1. N13F \in Nat /\ n \in Nat /\ n <= N13F
  BY DEF Numbers, Filings13F
<1>2. S \subseteq 0..N13F /\ S \subseteq Filings13F
  BY <1>1 DEF Filings13F
<1>3. CASE S = {}
  BY <1>3 DEF NewestOf, Numbers
<1>4. CASE S # {}
  <2>1. Max(S) \in S /\ \A g \in S : Max(S) >= g
    BY <1>1, <1>2, <1>4, MaxOf
  <2>2. \A g \in S : g \in Int
    BY <1>2
  <2>3. \A g \in S : g <= Max(S)
    BY <2>1, <2>2
  <2>4. NewestOf(m, n) = CHOOSE f \in S : \A g \in S : g <= f
    BY <1>4 DEF NewestOf
  <2> HIDE DEF S
  <2>5. NewestOf(m, n) \in S
    BY <2>1, <2>3, <2>4
  <2> QED BY <1>2, <2>5 DEF Numbers, S
<1> QED BY <1>3, <1>4

LEMMA FirstOf ==
  ASSUME NEW S, S \subseteq Nat, S # {}
  PROVE  First(S) \in S
<1>1. Min(S) \in S /\ \A k \in S : Min(S) <= k
  BY MinOf
<1> QED BY <1>1 DEF First

LEMMA SnapshotIs ==
  ASSUME NEW f \in Filings13F
  PROVE  /\ Snapshot(f) \in Snapshots
         /\ Snapshot(f).accession = f /\ Snapshot(f).holdings = f
         /\ Snapshot(f).location \in {0, f}
BY DEF Snapshot, Snapshots, Numbers

(* Storing a filing for its manager keeps the table in shape.              *)
LEMMA UpsertKeeps ==
  ASSUME TypeOK13F, NEW m \in Managers, NEW f \in Filings13F, Of[f] = m,
         Upsert(m, f)
  PROVE  /\ snapshots' \in [Managers -> Snapshots]
         /\ snapshots'[m].accession = f
         /\ \A k \in Managers \ {m} : snapshots'[k] = snapshots[k]
         /\ \A k \in Managers, g \in Filings13F :
              g \in {snapshots'[k].accession, snapshots'[k].holdings, snapshots'[k].location}
                => Of[g] = k
<1>1. /\ snapshots \in [Managers -> Snapshots]
      /\ \A k \in Managers, g \in Filings13F :
           g \in {snapshots[k].accession, snapshots[k].holdings, snapshots[k].location}
             => Of[g] = k
  BY DEF TypeOK13F
<1>2. PICK s \in Snapshots : s = Snapshot(f) /\ s.accession = f /\ s.holdings = f /\ s.location \in {0, f}
  BY SnapshotIs
<1>3. snapshots' = [snapshots EXCEPT ![m] = s]
  BY <1>2 DEF Upsert
<1>4. 0 \notin Filings13F
  BY DEF Filings13F
<1>5. \A g \in Filings13F : g \in {s.accession, s.holdings, s.location} => Of[g] = m
  BY <1>2, <1>4
<1> QED BY <1>1, <1>2, <1>3, <1>5

(* Recording the outcome of a lookup keeps the map in shape, and adds.     *)
LEMMA RecordKeeps ==
  ASSUME TypeOK13F, NEW p \in {"api", "job"}, NEW c \in Cusips, Record(p, c)
  PROVE  /\ index' \in [{"api", "job"} -> [loaded : BOOLEAN, names : SUBSET Cusips]]
         /\ resolved' \subseteq Cusips /\ resolved \subseteq resolved'
<1>1. /\ index \in [{"api", "job"} -> [loaded : BOOLEAN, names : SUBSET Cusips]]
      /\ names \subseteq Cusips /\ resolved \subseteq Cusips
  BY DEF TypeOK13F
<1>2. PICK i \in SUBSET Cusips :
        /\ index' = [index EXCEPT ![p] = [loaded |-> TRUE, names |-> i]]
        /\ resolved' = IF c \in i THEN resolved \cup {c} ELSE RecordUnresolved(c)
  <2>1. index[p].names \in SUBSET Cusips
    BY <1>1
  <2>2. PICK fresh \in BOOLEAN :
          LET i == IF fresh /\ index[p].loaded THEN index[p].names ELSE names
          IN /\ index' = [index EXCEPT ![p] = [loaded |-> TRUE, names |-> i]]
             /\ resolved' = IF c \in i THEN resolved \cup {c} ELSE RecordUnresolved(c)
    BY DEF Record
  <2>3. CASE fresh /\ index[p].loaded
    BY <2>1, <2>2, <2>3
  <2>4. CASE ~(fresh /\ index[p].loaded)
    BY <1>1, <2>2, <2>4
  <2> QED BY <2>3, <2>4
<1>3. [loaded |-> TRUE, names |-> i] \in [loaded : BOOLEAN, names : SUBSET Cusips]
  OBVIOUS
<1>4. index' \in [{"api", "job"} -> [loaded : BOOLEAN, names : SUBSET Cusips]]
  BY <1>1, <1>2, <1>3
<1>5. resolved' \subseteq Cusips /\ resolved \subseteq resolved'
  BY <1>1, <1>2 DEF RecordUnresolved
<1> QED BY <1>4, <1>5

LEMMA HoldingsInit == Init13F => HInv
<1> SUFFICES ASSUME Init13F PROVE HInv
  OBVIOUS
<1>1. PICK old \in SUBSET Managers :
        snapshots = [m \in Managers |->
          IF m \in old /\ NewestOf(m, filed13F) # 0 /\ NewestOf(m, filed13F) \notin Bad
          THEN [Snapshot(NewestOf(m, filed13F)) EXCEPT !.location = 0] ELSE None]
  BY DEF Init13F
<1>2. filed13F \in Numbers
  BY DEF Init13F, Numbers
<1>3. ASSUME NEW m \in Managers
      PROVE  /\ snapshots[m] \in Snapshots
             /\ \A f \in Filings13F :
                  f \in {snapshots[m].accession, snapshots[m].holdings, snapshots[m].location}
                    => Of[f] = m
  <2>0. 0 \notin Filings13F
    BY DEF Filings13F
  <2>1. CASE snapshots[m] = None
    BY <2>0, <2>1 DEF None, Snapshots, Numbers
  <2>2. CASE /\ NewestOf(m, filed13F) # 0
             /\ snapshots[m] = [Snapshot(NewestOf(m, filed13F)) EXCEPT !.location = 0]
    <3>1. PICK f \in Filings13F : f = NewestOf(m, filed13F) /\ Of[f] = m
      BY <1>2, <2>2, NewestOfIs
    <3>2. snapshots[m] = [accession |-> f, holdings |-> f, location |-> 0]
      BY <2>2, <3>1 DEF Snapshot
    <3> QED BY <2>0, <3>1, <3>2 DEF Snapshots, Numbers
  <2> QED BY <1>1, <2>1, <2>2
<1>4. snapshots \in [Managers -> Snapshots]
  BY <1>1, <1>3
<1>5. index \in [{"api", "job"} -> [loaded : BOOLEAN, names : SUBSET Cusips]]
  <2>1. [loaded |-> FALSE, names |-> {}] \in [loaded : BOOLEAN, names : SUBSET Cusips]
    OBVIOUS
  <2> QED BY <2>1 DEF Init13F
<1>6. TypeOK13F
  BY <1>2, <1>3, <1>4, <1>5
  DEF Init13F, TypeOK13F, NoReq, NoJob13F, NoLoc, None, Snapshots, Numbers
<1>7. AskedHoldings /\ WalkedHoldings
  BY DEF Init13F, NoReq, NoJob13F, NoLoc, AskedHoldings, WalkedHoldings
<1> QED BY <1>6, <1>7 DEF HInv

\* What the other actors rely on, while they do not move.
JobStands ==
  /\ job13F' = job13F
  /\ overwritten \subseteq overwritten'
  /\ \A m \in Managers \ overwritten' : snapshots'[m].accession = snapshots[m].accession

LEMMA WalkedKept ==
  ASSUME TypeOK13F, WalkedHoldings, JobStands, loc' = loc
  PROVE  WalkedHoldings'
<1>1. \A m \in Managers \ (job13F.todo \cup job13F.failed) :
        job13F.pc # "off" /\ NewestOf(m, job13F.zip) # 0 =>
          snapshots'[m].accession = NewestOf(m, job13F.zip) \/ m \in overwritten'
  BY DEF WalkedHoldings, JobStands
<1> QED BY <1>1 DEF WalkedHoldings, JobStands

LEMMA RequestStep ==
  ASSUME HInv,
         \/ \E m \in Managers : Ask13F(m)
         \/ ReadHoldings \/ Fetch13F \/ Store \/ Look \/ Resolve \/ RequestFails13F
  PROVE  HInv' /\ resolved \subseteq resolved'
<1>0. TypeOK13F /\ AskedHoldings /\ WalkedHoldings
  BY DEF HInv
<1> DEFINE Pcs == {"idle", "missing", "holdings", "storing", "look", "resolving", "answered"}
           Reqs == [pc : Pcs, manager : {0} \cup Managers, got : Snapshots]
<1>1. req13F \in Reqs
  BY <1>0 DEF TypeOK13F
<1>2. ASSUME req13F' \in Reqs, AskedHoldings', job13F' = job13F, loc' = loc,
             overwritten' = overwritten, snapshots' = snapshots, filed13F' = filed13F,
             names' = names, index' = index, resolved' = resolved
      PROVE  HInv' /\ resolved \subseteq resolved'
  <2>1. TypeOK13F'
    BY <1>0, <1>2 DEF TypeOK13F
  <2>2. WalkedHoldings'
    BY <1>0, <1>2, WalkedKept DEF JobStands
  <2> QED BY <1>2, <2>1, <2>2 DEF HInv
<1>3. ASSUME NEW m \in Managers, Ask13F(m) PROVE HInv' /\ resolved \subseteq resolved'
  <2>1. PICK a \in Numbers, b \in Numbers : a = snapshots[m].accession /\ b = snapshots[m].location
    BY <1>0 DEF TypeOK13F, Snapshots
  <2>2. req13F' = [pc |-> IF a = 0 THEN "missing" ELSE "holdings", manager |-> m,
                   got |-> [accession |-> a, holdings |-> 0, location |-> b]]
    BY <1>3, <2>1 DEF Ask13F, NoReq, None
  <2>3. req13F' \in Reqs
    BY <2>2 DEF Snapshots, Numbers
  <2>4. AskedHoldings'
    BY <2>2 DEF AskedHoldings
  <2> QED BY <1>2, <1>3, <2>3, <2>4 DEF Ask13F, sec, store
<1>4. CASE ReadHoldings
  <2>1. PICK h \in Numbers : h = snapshots[req13F.manager].holdings
    BY <1>0, <1>4 DEF TypeOK13F, Snapshots, ReadHoldings, AskedHoldings
  <2>2. req13F' = [req13F EXCEPT !.pc = "look", !.got.holdings = h]
    BY <1>4, <2>1 DEF ReadHoldings
  <2>3. req13F' \in Reqs /\ req13F'.pc = "look" /\ req13F'.manager = req13F.manager
    BY <1>1, <2>2 DEF Snapshots
  <2>4. AskedHoldings'
    BY <1>0, <1>4, <2>3 DEF AskedHoldings, ReadHoldings
  <2> QED BY <1>2, <1>4, <2>3, <2>4 DEF ReadHoldings, sec, store, counts
<1>5. CASE Fetch13F
  <2>1. PICK f \in Numbers :
          /\ f = NewestOf(req13F.manager, filed13F)
          /\ f # 0 => f \in Filings13F /\ Of[f] = req13F.manager
    BY <1>0, NewestOfIs DEF TypeOK13F
  <2>2. req13F' = IF f = 0 \/ f \in Bad THEN NoReq
                  ELSE [req13F EXCEPT !.pc = "storing", !.got = Snapshot(f)]
    BY <1>5, <2>1 DEF Fetch13F
  <2>3. CASE f = 0 \/ f \in Bad
    <3>1. req13F' \in Reqs
      BY <2>2, <2>3 DEF NoReq, None, Snapshots, Numbers
    <3>2. AskedHoldings'
      BY <2>2, <2>3 DEF AskedHoldings, NoReq
    <3> QED BY <1>2, <1>5, <3>1, <3>2 DEF Fetch13F, sec, store, counts
  <2>4. CASE ~(f = 0 \/ f \in Bad)
    <3>1. PICK s \in Snapshots : s = Snapshot(f) /\ s.accession = f
      BY <2>1, <2>4, SnapshotIs
    <3>2. req13F' \in Reqs /\ req13F'.pc = "storing" /\ req13F'.got = s
          /\ req13F'.manager = req13F.manager
      BY <1>1, <2>2, <2>4, <3>1
    <3>3. AskedHoldings'
      BY <1>0, <1>5, <2>1, <2>4, <3>1, <3>2 DEF AskedHoldings, Fetch13F
    <3> QED BY <1>2, <1>5, <3>2, <3>3 DEF Fetch13F, sec, store, counts
  <2> QED BY <2>3, <2>4
<1>6. CASE Store
  <2>1. PICK m \in Managers, f \in Filings13F :
          m = req13F.manager /\ f = req13F.got.accession /\ Of[f] = m
    BY <1>0, <1>6 DEF Store, AskedHoldings
  <2>2. /\ Upsert(m, f) /\ overwritten' = overwritten \cup {m}
        /\ req13F' = [req13F EXCEPT !.pc = "look"]
        /\ filed13F' = filed13F /\ names' = names /\ index' = index /\ resolved' = resolved
        /\ job13F' = job13F /\ loc' = loc
    BY <1>6, <2>1 DEF Store, sec
  <2>3. /\ snapshots' \in [Managers -> Snapshots]
        /\ \A k \in Managers \ {m} : snapshots'[k] = snapshots[k]
        /\ \A k \in Managers, g \in Filings13F :
             g \in {snapshots'[k].accession, snapshots'[k].holdings, snapshots'[k].location}
               => Of[g] = k
    BY <1>0, <2>1, <2>2, UpsertKeeps
  <2>4. req13F' \in Reqs
    BY <1>1, <2>2
  <2>5. TypeOK13F'
    BY <1>0, <2>2, <2>3, <2>4 DEF TypeOK13F
  <2>6. AskedHoldings'
    BY <1>0, <1>1, <1>6, <2>2 DEF AskedHoldings, Store
  <2>7. WalkedHoldings'
    BY <1>0, <2>2, <2>3, WalkedKept DEF JobStands
  <2> QED BY <2>2, <2>5, <2>6, <2>7 DEF HInv
<1>7. CASE Look
  <2>1. /\ req13F' = [req13F EXCEPT !.pc = IF req13F.got.holdings # 0 /\ ~Known(Cusip[req13F.got.holdings])
                                           THEN "resolving" ELSE "answered"]
        /\ req13F.pc = "look"
    BY <1>7 DEF Look
  <2>2. /\ req13F' \in Reqs /\ req13F'.manager = req13F.manager /\ req13F'.got = req13F.got
        /\ req13F'.pc \in {"resolving", "answered"}
        /\ req13F'.pc = "resolving" => req13F.got.holdings # 0
    BY <1>1, <2>1
  <2>3. req13F.got.holdings \in Numbers
    BY <1>1 DEF Snapshots
  <2>4. AskedHoldings'
    BY <1>0, <2>1, <2>2, <2>3 DEF AskedHoldings, Numbers
  <2>5. /\ filed13F' = filed13F /\ names' = names /\ snapshots' = snapshots
        /\ resolved' = resolved /\ index' = index /\ job13F' = job13F /\ loc' = loc
        /\ overwritten' = overwritten
    BY <1>7 DEF Look, sec, store
  <2> QED BY <1>2, <2>2, <2>4, <2>5
<1>8. CASE Resolve
  <2>1. Cusip[req13F.got.holdings] \in Cusips
    BY <1>0, <1>8 DEF Resolve, AskedHoldings, Cusips
  <2>2. /\ Record("api", Cusip[req13F.got.holdings])
        /\ req13F' = [req13F EXCEPT !.pc = "answered"]
        /\ filed13F' = filed13F /\ names' = names /\ snapshots' = snapshots
        /\ job13F' = job13F /\ loc' = loc /\ overwritten' = overwritten
    BY <1>8 DEF Resolve, sec
  <2>3. /\ index' \in [{"api", "job"} -> [loaded : BOOLEAN, names : SUBSET Cusips]]
        /\ resolved' \subseteq Cusips /\ resolved \subseteq resolved'
    BY <1>0, <2>1, <2>2, RecordKeeps
  <2>4. req13F' \in Reqs /\ req13F'.pc = "answered" /\ req13F'.manager = req13F.manager
    BY <1>1, <2>2
  <2>5. TypeOK13F'
    BY <1>0, <2>2, <2>3, <2>4 DEF TypeOK13F
  <2>6. AskedHoldings' /\ WalkedHoldings'
    BY <1>0, <1>8, <2>2, <2>4, WalkedKept DEF AskedHoldings, Resolve, JobStands
  <2> QED BY <2>3, <2>5, <2>6 DEF HInv
<1>9. CASE RequestFails13F
  <2>1. req13F' = NoReq
    BY <1>9 DEF RequestFails13F
  <2>2. req13F' \in Reqs /\ AskedHoldings'
    BY <2>1 DEF NoReq, None, Snapshots, Numbers, AskedHoldings
  <2> QED BY <1>2, <1>9, <2>2 DEF RequestFails13F, sec, store
<1> QED BY <1>3, <1>4, <1>5, <1>6, <1>7, <1>8, <1>9

LEMMA BackfillStep ==
  ASSUME HInv,
         \/ \E z \in 0..filed13F : JobStart13F(z)
         \/ JobSkip13F \/ JobFetch13F \/ JobResolve13F \/ JobStore13F \/ JobFails13F \/ JobEnds13F
  PROVE  HInv' /\ resolved \subseteq resolved'
<1>0. TypeOK13F /\ AskedHoldings /\ WalkedHoldings
  BY DEF HInv
<1> DEFINE Jobs == [pc : {"off", "next", "resolving", "storing"}, todo : SUBSET Managers,
                    zip : Numbers, failed : SUBSET Managers]
           Cand(m) == NewestOf(m, job13F.zip)
<1>1. job13F \in Jobs
  BY <1>0 DEF TypeOK13F
<1>2. ASSUME req13F' = req13F, loc' = loc, filed13F' = filed13F, names' = names,
             snapshots' = snapshots, resolved' = resolved,
             index' \in [{"api", "job"} -> [loaded : BOOLEAN, names : SUBSET Cusips]],
             job13F' \in Jobs, overwritten' \subseteq Managers, WalkedHoldings'
      PROVE  HInv' /\ resolved \subseteq resolved'
  <2>1. TypeOK13F'
    BY <1>0, <1>2 DEF TypeOK13F
  <2>2. AskedHoldings'
    BY <1>0, <1>2 DEF AskedHoldings
  <2> QED BY <1>2, <2>1, <2>2 DEF HInv
<1>3. ASSUME NEW z \in 0..filed13F, JobStart13F(z) PROVE HInv' /\ resolved \subseteq resolved'
  <2>1. job13F' = [pc |-> "next", todo |-> {m \in Managers : NewestOf(m, z) # 0},
                   zip |-> z, failed |-> {}]
    BY <1>3 DEF JobStart13F, NoJob13F
  <2>2. z \in Numbers
    BY <1>0 DEF TypeOK13F, Numbers, Filings13F
  <2>3. job13F' \in Jobs
    BY <2>1, <2>2
  <2>4. loc' = loc
    BY <1>3 DEF JobStart13F
  <2>5. WalkedHoldings'
    BY <1>0, <2>1, <2>4 DEF WalkedHoldings
  <2> QED BY <1>0, <1>2, <1>3, <2>3, <2>5 DEF JobStart13F, sec, store, TypeOK13F
<1>4. ASSUME job13F.todo # {}
      PROVE  First(job13F.todo) \in job13F.todo
  <2>1. job13F.todo \subseteq Nat
    BY <1>1
  <2> QED BY <1>4, <2>1, FirstOf
<1>41. ASSUME NEW k \in job13F.todo, job13F' = Failed(k)
       PROVE  /\ job13F' \in Jobs /\ job13F'.pc = "next" /\ job13F'.todo = job13F.todo \ {k}
              /\ job13F'.zip = job13F.zip /\ job13F'.failed = job13F.failed \cup {k}
  <2>1. PICK d \in Jobs : d = Done(k)
    BY <1>1 DEF Done
  <2>2. /\ d.pc = "next" /\ d.todo = job13F.todo \ {k}
        /\ d.zip = job13F.zip /\ d.failed = job13F.failed
    BY <1>1, <2>1 DEF Done
  <2>3. job13F' = [d EXCEPT !.failed = @ \cup {k}]
    BY <1>41, <2>1 DEF Failed
  <2> QED BY <1>1, <2>2, <2>3
\* A manager is left behind that is current or has failed.
<1>5. ASSUME NEW k \in job13F.todo, job13F.pc # "off",
             job13F' \in Jobs, job13F'.pc = "next", job13F'.todo = job13F.todo \ {k},
             job13F'.zip = job13F.zip, job13F.failed \subseteq job13F'.failed,
             loc' = loc, overwritten' = overwritten,
             k \in job13F'.failed \/ snapshots'[k].accession = Cand(k),
             \A m \in Managers \ {k} : snapshots'[m] = snapshots[m]
      PROVE  WalkedHoldings'
  <2>2. ASSUME NEW m \in Managers \ (job13F'.todo \cup job13F'.failed), Cand(m) # 0
        PROVE  snapshots'[m].accession = Cand(m) \/ m \in overwritten'
    <3>1. CASE m = k
      BY <1>5, <2>2, <3>1
    <3>2. CASE m # k
      BY <1>0, <1>5, <2>2, <3>2 DEF WalkedHoldings
    <3> QED BY <3>1, <3>2
  <2> QED BY <1>0, <1>5, <2>2 DEF WalkedHoldings
<1>6. CASE JobSkip13F
  <2>1. PICK k \in job13F.todo : k = First(job13F.todo) /\ snapshots[k].accession = Cand(k)
    BY <1>4, <1>6 DEF JobSkip13F, Current, Candidate13F
  <2>2. /\ job13F' \in Jobs /\ job13F'.pc = "next" /\ job13F'.todo = job13F.todo \ {k}
        /\ job13F'.zip = job13F.zip /\ job13F'.failed = job13F.failed
    BY <1>1, <1>6, <2>1 DEF JobSkip13F, Done
  <2>3. WalkedHoldings'
    <3>1. snapshots' = snapshots /\ loc' = loc /\ overwritten' = overwritten /\ job13F.pc # "off"
      BY <1>6 DEF JobSkip13F, store
    <3> QED BY <1>5, <2>1, <2>2, <3>1
  <2> QED BY <1>0, <1>2, <1>6, <2>2, <2>3 DEF JobSkip13F, sec, store, TypeOK13F
<1>7. CASE JobFails13F
  <2>1. PICK k \in job13F.todo : k = First(job13F.todo)
    BY <1>4, <1>7 DEF JobFails13F
  <2>2. /\ job13F' \in Jobs /\ job13F'.pc = "next" /\ job13F'.todo = job13F.todo \ {k}
        /\ job13F'.zip = job13F.zip /\ job13F'.failed = job13F.failed \cup {k}
    BY <1>7, <1>41, <2>1 DEF JobFails13F
  <2>3. WalkedHoldings'
    <3>1. snapshots' = snapshots /\ loc' = loc /\ overwritten' = overwritten /\ job13F.pc # "off"
      BY <1>7 DEF JobFails13F, store
    <3> QED BY <1>5, <2>2, <3>1
  <2> QED BY <1>0, <1>2, <1>7, <2>2, <2>3 DEF JobFails13F, sec, store, TypeOK13F
<1>8. CASE JobFetch13F
  <2>1. PICK k \in job13F.todo : k = First(job13F.todo)
    BY <1>4, <1>8 DEF JobFetch13F
  <2>2. UNCHANGED <<filed13F, names, snapshots, resolved, index, req13F, loc, overwritten>>
    BY <1>8 DEF JobFetch13F, sec, store
  <2>3. CASE Cand(k) \in Bad
    <3>1. /\ job13F' \in Jobs /\ job13F'.pc = "next" /\ job13F'.todo = job13F.todo \ {k}
          /\ job13F'.zip = job13F.zip /\ job13F'.failed = job13F.failed \cup {k}
      BY <1>8, <1>41, <2>1, <2>3 DEF JobFetch13F, Candidate13F
    <3>2. job13F.pc # "off"
      BY <1>8 DEF JobFetch13F
    <3>3. WalkedHoldings'
      BY <1>5, <2>2, <3>1, <3>2
    <3> QED BY <1>0, <1>2, <2>2, <3>1, <3>3 DEF TypeOK13F
  <2>4. CASE Cand(k) \notin Bad
    <3>1. PICK pc \in {"storing", "resolving"} : job13F' = [job13F EXCEPT !.pc = pc]
      BY <1>8, <2>1, <2>4 DEF JobFetch13F, Candidate13F
    <3>2. /\ job13F' \in Jobs /\ job13F'.pc = pc /\ job13F'.todo = job13F.todo
          /\ job13F'.failed = job13F.failed /\ job13F'.zip = job13F.zip
      BY <1>1, <3>1
    <3>3. WalkedHoldings'
      BY <1>0, <1>8, <2>2, <3>2 DEF WalkedHoldings, JobFetch13F
    <3> QED BY <1>0, <1>2, <2>2, <3>2, <3>3 DEF TypeOK13F
  <2> QED BY <2>3, <2>4
<1>9. CASE JobResolve13F
  <2>1. PICK k \in job13F.todo : k = First(job13F.todo)
    BY <1>0, <1>4, <1>9 DEF JobResolve13F, WalkedHoldings
  <2>2. PICK f \in Filings13F : f = Cand(k)
    BY <1>0, <1>1, NewestOfIs DEF WalkedHoldings
  <2>3. Record("job", Cusip[f]) /\ job13F' = [job13F EXCEPT !.pc = "storing"]
    BY <1>9, <2>1, <2>2 DEF JobResolve13F, Candidate13F
  <2>4. UNCHANGED <<filed13F, names, snapshots, req13F, loc, overwritten>>
    BY <1>9 DEF JobResolve13F, sec
  <2>5. /\ index' \in [{"api", "job"} -> [loaded : BOOLEAN, names : SUBSET Cusips]]
        /\ resolved' \subseteq Cusips /\ resolved \subseteq resolved'
    <3>1. Cusip[f] \in Cusips
      BY DEF Cusips
    <3> QED BY <1>0, <2>3, <3>1, RecordKeeps
  <2>6. /\ job13F' \in Jobs /\ job13F'.pc = "storing" /\ job13F'.todo = job13F.todo
        /\ job13F'.failed = job13F.failed /\ job13F'.zip = job13F.zip
    BY <1>1, <2>3
  <2>7. WalkedHoldings' /\ AskedHoldings'
    BY <1>0, <1>9, <2>4, <2>6 DEF WalkedHoldings, AskedHoldings, JobResolve13F
  <2>8. TypeOK13F'
    BY <1>0, <2>4, <2>5, <2>6 DEF TypeOK13F
  <2> QED BY <2>5, <2>7, <2>8 DEF HInv
<1>10. CASE JobStore13F
  <2>1. PICK k \in job13F.todo : k = First(job13F.todo)
    BY <1>0, <1>4, <1>10 DEF JobStore13F, WalkedHoldings
  <2>2. PICK f \in Filings13F : f = Cand(k) /\ Of[f] = k
    BY <1>0, <1>1, NewestOfIs DEF WalkedHoldings
  <2>3. Upsert(k, f)
    BY <1>10, <2>1, <2>2 DEF JobStore13F, Candidate13F
  <2>4. UNCHANGED <<filed13F, names, resolved, index, req13F, loc, overwritten>>
    BY <1>10 DEF JobStore13F, sec
  <2>5. /\ job13F' \in Jobs /\ job13F'.pc = "next" /\ job13F'.todo = job13F.todo \ {k}
        /\ job13F'.zip = job13F.zip /\ job13F'.failed = job13F.failed /\ job13F.pc # "off"
    BY <1>1, <1>10, <2>1 DEF JobStore13F, Done
  <2>6. /\ snapshots' \in [Managers -> Snapshots]
        /\ snapshots'[k].accession = f
        /\ \A m \in Managers \ {k} : snapshots'[m] = snapshots[m]
        /\ \A m \in Managers, g \in Filings13F :
             g \in {snapshots'[m].accession, snapshots'[m].holdings, snapshots'[m].location}
               => Of[g] = m
    BY <1>0, <1>1, <2>2, <2>3, UpsertKeeps
  <2>7. WalkedHoldings'
    BY <1>5, <2>2, <2>4, <2>5, <2>6
  <2>8. TypeOK13F'
    BY <1>0, <2>4, <2>5, <2>6 DEF TypeOK13F
  <2>9. AskedHoldings'
    BY <1>0, <2>4 DEF AskedHoldings
  <2> QED BY <2>4, <2>7, <2>8, <2>9 DEF HInv
<1>11. CASE JobEnds13F
  <2>1. UNCHANGED <<filed13F, names, snapshots, resolved, req13F, loc, overwritten>>
    BY <1>11 DEF JobEnds13F, sec, store
  <2>2. job13F' = [pc |-> "off", todo |-> {}, zip |-> 0, failed |-> {}]
    BY <1>11 DEF JobEnds13F, NoJob13F
  <2>3. job13F' \in Jobs /\ WalkedHoldings'
    BY <1>0, <2>1, <2>2 DEF WalkedHoldings, Numbers
  <2>4. index' \in [{"api", "job"} -> [loaded : BOOLEAN, names : SUBSET Cusips]]
    <3>1. [loaded |-> FALSE, names |-> {}] \in [loaded : BOOLEAN, names : SUBSET Cusips]
      OBVIOUS
    <3> QED BY <1>0, <1>11, <3>1 DEF TypeOK13F, JobEnds13F
  <2> QED BY <1>0, <1>2, <2>1, <2>3, <2>4 DEF TypeOK13F
<1> QED BY <1>3, <1>6, <1>7, <1>8, <1>9, <1>10, <1>11

LEMMA LocationStep ==
  ASSUME HInv,
         LocStart \/ LocFetch \/ LocStore \/ LocFails \/ LocEnds
  PROVE  HInv' /\ resolved \subseteq resolved'
<1>0. TypeOK13F /\ AskedHoldings /\ WalkedHoldings
  BY DEF HInv
<1> DEFINE Locs == [pc : {"off", "next", "storing"}, todo : SUBSET Filings13F,
                    failed : SUBSET Filings13F]
<1>1. loc \in Locs
  BY <1>0 DEF TypeOK13F
<1>2. ASSUME loc' \in Locs, loc'.pc = "storing" => loc'.todo # {}, snapshots' = snapshots
      PROVE  HInv' /\ resolved \subseteq resolved'
  <2>1. /\ filed13F' = filed13F /\ names' = names /\ resolved' = resolved /\ index' = index
        /\ req13F' = req13F /\ job13F' = job13F /\ overwritten' = overwritten
    <3>1. LocStart => UNCHANGED <<filed13F, names, resolved, index, req13F, job13F, overwritten>>
      BY DEF LocStart, sec, store
    <3>2. LocFetch => UNCHANGED <<filed13F, names, resolved, index, req13F, job13F, overwritten>>
      BY DEF LocFetch, sec, store
    <3>3. LocStore => UNCHANGED <<filed13F, names, resolved, index, req13F, job13F, overwritten>>
      BY DEF LocStore, sec
    <3>4. LocFails => UNCHANGED <<filed13F, names, resolved, index, req13F, job13F, overwritten>>
      BY DEF LocFails, sec, store
    <3>5. LocEnds => UNCHANGED <<filed13F, names, resolved, index, req13F, job13F, overwritten>>
      BY DEF LocEnds, sec, store
    <3> QED BY <3>1, <3>2, <3>3, <3>4, <3>5
  <2>2. TypeOK13F'
    BY <1>0, <1>2, <2>1 DEF TypeOK13F
  <2>3. AskedHoldings'
    BY <1>0, <2>1 DEF AskedHoldings
  <2>4. WalkedHoldings'
    BY <1>0, <1>2, <2>1 DEF WalkedHoldings
  <2> QED BY <2>1, <2>2, <2>3, <2>4 DEF HInv
<1>3. CASE LocStart
  <2>1. PICK missing \in SUBSET Filings13F : loc' = [pc |-> "next", todo |-> missing, failed |-> {}]
    BY <1>3 DEF LocStart, NoLoc
  <2>2. loc' \in Locs /\ loc'.pc = "next"
    BY <2>1
  <2>3. snapshots' = snapshots
    BY <1>3 DEF LocStart, store
  <2> QED BY <1>2, <2>2, <2>3
<1>4. ASSUME loc.todo # {}
      PROVE  First(loc.todo) \in loc.todo
  <2>1. loc.todo \subseteq Nat
    BY <1>1 DEF Filings13F
  <2> QED BY <1>4, <2>1, FirstOf
<1>5. ASSUME NEW f \in loc.todo
      PROVE  /\ LocDone(f) \in Locs /\ LocDone(f).pc = "next"
             /\ LocFailed(f) \in Locs /\ LocFailed(f).pc = "next"
  <2>1. loc.todo \ {f} \in SUBSET Filings13F /\ loc.failed \cup {f} \in SUBSET Filings13F
    BY <1>1
  <2>2. PICK d \in Locs : d = [loc EXCEPT !.pc = "next", !.todo = @ \ {f}]
    BY <1>1, <2>1
  <2>3. d.pc = "next" /\ d.failed = loc.failed
    BY <1>1, <2>2
  <2>4. PICK e \in Locs : e = [d EXCEPT !.failed = @ \cup {f}]
    BY <2>1, <2>2, <2>3
  <2>5. e.pc = "next"
    BY <2>3, <2>4
  <2>6. LocDone(f) = d /\ LocFailed(f) = e
    BY <2>2, <2>4 DEF LocDone, LocFailed
  <2> QED BY <2>2, <2>3, <2>4, <2>5, <2>6
<1>6. CASE LocFetch
  <2>1. snapshots' = snapshots
    BY <1>6 DEF LocFetch, store
  <2>2. PICK f \in loc.todo : f = First(loc.todo)
    BY <1>4, <1>6 DEF LocFetch
  <2>3. \/ loc' = LocFailed(f) \/ loc' = LocDone(f)
        \/ loc' = [loc EXCEPT !.pc = "storing"]
    BY <1>6, <2>2 DEF LocFetch
  <2>4. loc' \in Locs /\ loc'.pc \in {"next", "storing"} /\ (loc'.pc = "storing" => loc'.todo # {})
    <3>1. CASE loc' = [loc EXCEPT !.pc = "storing"]
      BY <1>1, <2>2, <3>1
    <3> QED BY <1>5, <2>3, <3>1
  <2> QED BY <1>2, <2>1, <2>4
<1>7. CASE LocFails
  <2>1. snapshots' = snapshots
    BY <1>7 DEF LocFails, store
  <2>2. PICK f \in loc.todo : f = First(loc.todo)
    BY <1>4, <1>7 DEF LocFails
  <2>3. loc' \in Locs /\ loc'.pc = "next"
    BY <1>5, <1>7, <2>2 DEF LocFails
  <2> QED BY <1>2, <2>1, <2>3
<1>8. CASE LocEnds
  <2>1. snapshots' = snapshots
    BY <1>8 DEF LocEnds, store
  <2>2. loc' \in Locs /\ loc'.pc = "off"
    BY <1>8 DEF LocEnds, NoLoc
  <2> QED BY <1>2, <2>1, <2>2
<1>9. CASE LocStore
  <2>1. PICK f \in loc.todo : f = First(loc.todo)
    BY <1>0, <1>4, <1>9 DEF LocStore, WalkedHoldings
  <2>2. f \in Filings13F /\ Of[f] \in Managers
    BY <1>1
  <2>3. loc' \in Locs /\ loc'.pc = "next"
    BY <1>5, <1>9, <2>1 DEF LocStore
  <2>4. /\ filed13F' = filed13F /\ names' = names /\ resolved' = resolved /\ index' = index
        /\ req13F' = req13F /\ job13F' = job13F /\ overwritten' = overwritten
    BY <1>9 DEF LocStore, sec
  <2>5. PICK r \in Snapshots : r = snapshots[Of[f]]
    BY <1>0, <2>2 DEF TypeOK13F
  <2>51. PICK s \in Snapshots : s = [r EXCEPT !.location = f]
    BY <2>2, <2>5 DEF Snapshots, Numbers
  <2>52. s.accession = r.accession /\ s.holdings = r.holdings /\ s.location = f
    BY <2>5, <2>51 DEF Snapshots
  <2>6. snapshots' = [snapshots EXCEPT ![Of[f]] = s]
    BY <1>9, <2>1, <2>5, <2>51 DEF LocStore
  <2>7. /\ snapshots' \in [Managers -> Snapshots]
        /\ \A m \in Managers : snapshots'[m].accession = snapshots[m].accession
        /\ \A m \in Managers, g \in Filings13F :
             g \in {snapshots'[m].accession, snapshots'[m].holdings, snapshots'[m].location}
               => Of[g] = m
    BY <1>0, <2>2, <2>5, <2>52, <2>6 DEF TypeOK13F
  <2>8. TypeOK13F'
    BY <1>0, <2>3, <2>4, <2>7 DEF TypeOK13F
  <2>9. AskedHoldings'
    BY <1>0, <2>4 DEF AskedHoldings
  <2>10. WalkedHoldings'
    BY <1>0, <2>3, <2>4, <2>7 DEF WalkedHoldings
  <2> QED BY <2>4, <2>8, <2>9, <2>10 DEF HInv
<1> QED BY <1>3, <1>6, <1>7, <1>8, <1>9

LEMMA HoldingsStep ==
  ASSUME HInv, [Next13F]_(vars13F)
  PROVE  HInv' /\ resolved \subseteq resolved'
<1>0. TypeOK13F /\ AskedHoldings /\ WalkedHoldings
  BY DEF HInv
<1>1. ASSUME filed13F' \in Numbers, names' \subseteq Cusips,
             snapshots' = snapshots, resolved' = resolved, index' = index,
             req13F' = req13F, job13F' = job13F, loc' = loc, overwritten' = overwritten
      PROVE  HInv' /\ resolved \subseteq resolved'
  <2>1. TypeOK13F'
    BY <1>0, <1>1 DEF TypeOK13F
  <2>2. AskedHoldings'
    BY <1>0, <1>1 DEF AskedHoldings
  <2>3. WalkedHoldings'
    BY <1>0, <1>1, WalkedKept DEF JobStands
  <2> QED BY <1>1, <2>1, <2>2, <2>3 DEF HInv
<1>2. CASE File13F
  <2>1. filed13F' \in Numbers
    BY <1>0, <1>2 DEF File13F, TypeOK13F, Numbers, Filings13F
  <2> QED BY <1>0, <1>1, <1>2, <2>1 DEF File13F, store, TypeOK13F
<1>3. ASSUME NEW f \in Filings13F, Relist(Cusip[f])
      PROVE  HInv' /\ resolved \subseteq resolved'
  <2>1. names' \subseteq Cusips
    BY <1>0, <1>3 DEF Relist, TypeOK13F, Cusips
  <2> QED BY <1>0, <1>1, <1>3, <2>1 DEF Relist, store, TypeOK13F
<1>4. CASE UNCHANGED vars13F
  BY <1>0, <1>1, <1>4 DEF vars13F, sec, store, TypeOK13F
<1>5. CASE Next13F
  BY <1>2, <1>3, <1>5, RequestStep, BackfillStep, LocationStep DEF Next13F
<1> QED BY <1>4, <1>5

LEMMA HoldingsInvariant == Spec13F => []HInv
<1>1. Init13F => HInv
  BY HoldingsInit
<1>2. HInv /\ [Next13F]_(vars13F) => HInv'
  BY HoldingsStep
<1> QED BY <1>1, <1>2, PTL DEF Spec13F

(* Whatever is stored of a manager's quarter was read from filings of that *)
(* manager, and every row, request and run keeps its shape, for any number *)
(* of managers and filings (sqlite_holdings_repository.py).                *)
THEOREM HoldingsTypes == Spec13F => []TypeOK13F
BY HoldingsInvariant, PTL DEF HInv

(* A backfill of 13F holdings leaves every candidate it has passed, except *)
(* those that failed, at the filing its zip names, or at what a request    *)
(* stored meanwhile: one bad manager costs no other                        *)
(* (institutional_backfill.py:151).                                        *)
THEOREM BackfillCoversManagers == Spec13F => []RunCovers
<1>1. HInv => RunCovers
  BY DEF HInv, WalkedHoldings, RunCovers
<1> QED BY <1>1, HoldingsInvariant, PTL

(* A CUSIP that has been resolved stays so, whichever process resolves     *)
(* holdings with whatever index of names (cusip_repository.py).            *)
THEOREM ResolutionsKept == Spec13F => ResolutionKept
<1>1. HInv /\ [Next13F]_(vars13F) => [resolved \subseteq resolved']_(vars13F)
  BY HoldingsStep
<1> QED BY <1>1, HoldingsInvariant, PTL DEF Spec13F, ResolutionKept

----------------------------------------------------------------------------
(* The filing index, the cover pages and the sections.                     *)

HIDE HoldingsAssumption
USE DocsAssumption

\* Some of a company's filings, none of those between them left out.
Solid(S, c) ==
  \A f \in 1..onEdgar : \A i, j \in S :
    CompanyOf[f] = c /\ i <= f /\ f <= j => f \in S

\* A list of a company's filings yet to be written, newest first.
ToFollow(L, c) ==
  /\ \A f \in L, g \in Indexed(c) : f < g
  /\ Solid(L \cup Indexed(c), c)

\* Of a company that was written to once at most: by one writer, newest first.
IndexedOnce(c) ==
  /\ builds[c] = 0 => Indexed(c) = {}
  /\ Solid(Indexed(c), c)
  /\ \A r \in Viewers :
       view[r].stage = "rows" /\ view[r].cik = c =>
         /\ builds[c] # 0 /\ ToFollow(view[r].left, c)
         /\ \A s \in Viewers \ {r} : ~(view[s].stage = "rows" /\ view[s].cik = c)
         /\ ~(walk.cik = c /\ walk.left # {})
  /\ walk.cik = c /\ walk.left # {} => builds[c] # 0 /\ ToFollow(walk.left, c)

\* No company has more of them than the endpoint reads.
FewEvents ==
  \A c \in Companies :
    Cardinality({f \in Docs : CompanyOf[f] = c /\ FormOf[f] = "8-K"}) <= EventLimit

\* A claim about company c, unless it is made from a cut-off list.
Honest(claim, k, c) ==
  /\ claim.to <= onEdgar
  /\ FewEvents /\ k # "supply" /\ c # NoDoc /\ builds[c] < 2 =>
       \A f \in 1..onEdgar :
         CompanyOf[f] = c /\ FormOf[f] \in claim.of /\ claim.from <= f /\ f <= claim.to
           => f \in claim.shows

\* What a request is at.
Viewed(q) ==
  /\ q.stage # "idle" => q.cik # NoDoc
  /\ q.stage # "rows" => q.left = {}
  /\ q.stage \in {"instance", "plans"} => q.filing # NoDoc
  /\ \A f \in q.left : f <= onEdgar /\ CompanyOf[f] = q.cik
  /\ Honest(q.claim, q.kind, q.cik)

DocsShown ==
  /\ tables.index \subseteq 1..onEdgar
  /\ \A r \in Viewers : Viewed(view[r])
  /\ \A f \in walk.left : f <= onEdgar /\ CompanyOf[f] = walk.cik
  /\ \A c \in Companies : builds[c] < 2 => IndexedOnce(c)

\* Cover facts are of versions there were, those shown of the one that runs.
CoverFresh ==
  /\ \A f \in Docs : tables.cover[f] <= version.cover
  /\ \A r \in Viewers :
       view[r].cover # NoDoc => tables.cover[view[r].cover] = version.cover

\* A filing is compared with the one before it, if both are parsed.
Settled(f, q) == Parsed(FindPrior(f)) => q = FindPrior(f)

Compared ==
  /\ \A f \in Docs : tables.sections[f] # NoDoc => f \in tables.index
  /\ backfill.left \subseteq tables.index
  /\ \A f \in backfill.left \cup backfill.done : CompanyOf[f] \notin backfill.ciks
  /\ \A f, g \in backfill.left : CompanyOf[f] = CompanyOf[g]
  /\ \A f \in backfill.done : \A g \in backfill.left : CompanyOf[f] = CompanyOf[g] => f < g
  /\ backfill.stage \in {"idle", "company"} => backfill.left = {}
  /\ backfill.stage \in {"score", "compare"} => backfill.left # {}
  /\ backfill.stage = "compare" => Settled(NextFiling, backfill.prior)
  /\ \A f \in backfill.done :
       {f, FindPrior(f)} \subseteq Prose => Settled(f, tables.similar[f])

DInv == DocsTypeOK /\ DocsShown /\ CoverFresh /\ Compared

----------------------------------------------------------------------------
(* What has been written of an index, and what is claimed of it.           *)

LEMMA DocsFinite ==
  ASSUME NEW S, S \subseteq Docs
  PROVE  IsFiniteSet(S) /\ Cardinality(S) \in Nat /\ Cardinality(S) <= NDocs
<1>1. IsFiniteSet(Docs) /\ Cardinality(Docs) = NDocs
  <2>1. 1 \in Int /\ NDocs \in Int /\ NDocs >= 0
    OBVIOUS
  <2>2. /\ IsFiniteSet(1..NDocs)
        /\ Cardinality(1..NDocs) = IF 1 > NDocs THEN 0 ELSE NDocs - 1 + 1
    BY <2>1, FS_Interval
  <2> QED BY <2>1, <2>2 DEF Docs
<1>2. IsFiniteSet(S) /\ Cardinality(S) <= Cardinality(Docs)
  BY <1>1, FS_Subset
<1> QED BY <1>1, <1>2, FS_CardinalityType

(* The newest n of n at most are all of them.                              *)
LEMMA NewestOfFew ==
  ASSUME NEW S, S \subseteq Docs, NEW n \in Nat, Cardinality(S) <= n
  PROVE  Newest(S, n) = S
<1>1. ASSUME NEW f \in S PROVE Cardinality({g \in S : g > f}) < n
  <2>1. {g \in S : g > f} \subseteq S \ {f}
    BY DEF Docs
  <2>2. IsFiniteSet(S) /\ Cardinality(S) \in Nat
    BY DocsFinite
  <2>3. IsFiniteSet(S \ {f}) /\ Cardinality(S \ {f}) = Cardinality(S) - 1
    BY <2>2, FS_RemoveElement
  <2>4. Cardinality({g \in S : g > f}) <= Cardinality(S \ {f})
    BY <2>1, <2>3, FS_Subset
  <2>5. Cardinality({g \in S : g > f}) \in Nat
    BY DocsFinite
  <2> QED BY <2>2, <2>3, <2>4, <2>5
<1> QED BY <1>1 DEF Newest

(* Fewer than asked for are all there are.                                 *)
LEMMA NewestAreAll ==
  ASSUME NEW S, S \subseteq Docs, NEW n \in Nat, Cardinality(Newest(S, n)) < n
  PROVE  Newest(S, n) = S
<1>1. SUFFICES ASSUME S \ Newest(S, n) # {} PROVE FALSE
  BY DEF Newest
<1>2. S \ Newest(S, n) \subseteq 0..NDocs
  <2>1. Docs \subseteq 0..NDocs
    BY DEF Docs
  <2> QED BY <2>1
<1>3. PICK f \in S \ Newest(S, n) : \A g \in S \ Newest(S, n) : f >= g
  BY <1>1, <1>2, MaxOf
<1>4. \A g \in S : g > f => g \in Newest(S, n)
  BY <1>3 DEF Docs
<1>5. {g \in S : g > f} \subseteq Newest(S, n) /\ Newest(S, n) \subseteq Docs
  BY <1>4 DEF Newest
<1>6. Cardinality({g \in S : g > f}) <= Cardinality(Newest(S, n))
  BY <1>5, DocsFinite, FS_Subset
<1>7. Cardinality({g \in S : g > f}) \in Nat /\ Cardinality(Newest(S, n)) \in Nat
  BY <1>5, DocsFinite
<1>8. ~(Cardinality({g \in S : g > f}) < n)
  BY <1>3 DEF Newest
<1> QED BY <1>6, <1>7, <1>8

(* With a filing of EDGAR's list, the later ones are in it.                *)
LEMMA NewestDocsUp ==
  ASSUME NEW S, S \subseteq Docs, NEW n \in Nat, NEW f \in Newest(S, n), NEW g \in S, g >= f
  PROVE  g \in Newest(S, n)
<1>1. {h \in S : h > g} \subseteq {h \in S : h > f}
  <2>1. f \in Int /\ g \in Int /\ \A h \in S : h \in Int
    BY DEF Docs, Newest
  <2>2. \A h \in S : h > g => h > f
    BY <2>1
  <2> QED BY <2>2
<1>2. {h \in S : h > f} \subseteq Docs
  OBVIOUS
<1>3. Cardinality({h \in S : h > g}) <= Cardinality({h \in S : h > f})
  BY <1>1, <1>2, DocsFinite, FS_Subset
<1>4. Cardinality({h \in S : h > g}) \in Nat /\ Cardinality({h \in S : h > f}) \in Nat
  BY DocsFinite
<1>5. Cardinality({h \in S : h > f}) < n
  BY DEF Newest
<1>6. Cardinality({h \in S : h > g}) < n
  BY <1>3, <1>4, <1>5
<1> QED BY <1>6 DEF Newest

(* EDGAR's list of a company leaves out none of its filings between.       *)
LEMMA ListIsSolid ==
  ASSUME DocsTypeOK, NEW c
  PROVE  /\ RecentlyFiled(c) \subseteq Docs /\ Solid(RecentlyFiled(c), c)
         /\ \A f \in RecentlyFiled(c) : f <= onEdgar /\ CompanyOf[f] = c
<1> DEFINE S == {f \in 1..onEdgar : CompanyOf[f] = c}
<1>1. S \subseteq Docs /\ RecentlyFiled(c) = Newest(S, RecentSize) /\ RecentSize \in Nat
  BY DEF DocsTypeOK, Docs, RecentlyFiled
<1>2. Newest(S, RecentSize) \subseteq S
  BY DEF Newest
<1> HIDE DEF S
<1>3. ASSUME NEW f \in S, NEW i \in Newest(S, RecentSize), i <= f
      PROVE  f \in Newest(S, RecentSize)
  <2>1. i \in Docs /\ f \in Docs
    BY <1>1, <1>2
  <2>2. f >= i
    BY <1>3, <2>1 DEF Docs
  <2> QED BY <1>1, <2>2, NewestDocsUp
<1>4. Solid(RecentlyFiled(c), c)
  BY <1>1, <1>3 DEF Solid, S
<1>5. \A f \in RecentlyFiled(c) : f \in 1..onEdgar /\ CompanyOf[f] = c
  BY <1>1, <1>2 DEF S
<1> QED BY <1>1, <1>2, <1>4, <1>5 DEF DocsTypeOK

(* One more row of such a list leaves the index solid, and a list.         *)
LEMMA RowFollows ==
  ASSUME DocsTypeOK, NEW c, NEW L, L \subseteq Docs, L # {},
         \A f \in L : f <= onEdgar /\ CompanyOf[f] = c,
         Solid(Indexed(c), c), ToFollow(L, c),
         tables.index \subseteq 1..onEdgar,
         tables'.index = tables.index \cup {Max(L)}, onEdgar' = onEdgar
  PROVE  Solid(Indexed(c), c)' /\ ToFollow(L \ {Max(L)}, c)'
<1>1. L \subseteq 0..NDocs
  BY DEF Docs
<1>2. PICK x \in L : x = Max(L) /\ \A f \in L : x >= f
  BY <1>1, MaxOf
<1>3. PICK I \in SUBSET Docs : I = Indexed(c) /\ \A i \in I : i \in 1..onEdgar
  <2>1. tables.index \in SUBSET Docs
    BY DEF DocsTypeOK, TableRecords
  <2> QED BY <2>1 DEF Indexed
<1>4. Indexed(c)' = I \cup {x}
  BY <1>2, <1>3 DEF Indexed
<1>5. \A f \in 1..onEdgar, i, j \in L \cup I :
        CompanyOf[f] = c /\ i <= f /\ f <= j => f \in L \cup I
  BY <1>3 DEF ToFollow, Solid
<1>6. \A f \in L, g \in I : f < g
  BY <1>3 DEF ToFollow
<1>7. (\A f \in L : f \in Int) /\ (\A f \in I : f \in Int) /\ onEdgar \in Int
  BY DEF Docs, DocsTypeOK
<1>8. Solid(I \cup {x}, c)'
  <2>1. ASSUME NEW f \in 1..onEdgar, NEW i \in I \cup {x}, NEW j \in I \cup {x},
               CompanyOf[f] = c, i <= f, f <= j
        PROVE  f \in I \cup {x}
    <3>1. f \in L \cup I
      BY <1>5, <2>1
    <3>2. x <= i
      BY <1>2, <1>6, <1>7
    <3>3. f \in L => f = x
      BY <1>2, <1>7, <2>1, <3>2
    <3> QED BY <3>1, <3>3
  <2> QED BY <2>1 DEF Solid
<1>9. \A f \in L \ {x}, g \in I \cup {x} : f < g
  BY <1>2, <1>6, <1>7
<1>10. (L \ {x}) \cup (I \cup {x}) = L \cup I
  BY <1>2
<1>11. Solid(L \cup I, c)'
  BY <1>5 DEF Solid
<1> QED BY <1>2, <1>4, <1>8, <1>9, <1>10, <1>11 DEF ToFollow

(* What an endpoint shows of a solid index is all that there was in it.    *)
LEMMA ClaimIsHonest ==
  ASSUME DocsTypeOK, DocsShown, NEW c \in Companies,
         NEW forms \in SUBSET (Forms \cup {"8-K", "144"}), NEW shows \in SUBSET Docs, NEW k,
         FewEvents /\ k # "supply" =>
           \A f \in Indexed(c) : FormOf[f] \in forms => f \in shows
  PROVE  Claim(c, forms, shows) \in Claims /\ Honest(Claim(c, forms, shows), k, c)
<1>1. /\ Indexed(c) \subseteq Docs /\ Indexed(c) \subseteq 0..NDocs
      /\ Indexed(c) \subseteq Nat /\ \A i \in Indexed(c) : i <= onEdgar
  <2>1. tables.index \in SUBSET Docs /\ tables.index \subseteq 1..onEdgar
    BY DEF DocsTypeOK, TableRecords, DocsShown
  <2>2. Docs \subseteq 0..NDocs /\ Docs \subseteq Nat
    BY DEF Docs
  <2>3. Indexed(c) \subseteq tables.index
    BY DEF Indexed
  <2>4. \A i \in 1..onEdgar : i <= onEdgar
    OBVIOUS
  <2> QED BY <2>1, <2>2, <2>3, <2>4
<1>2. CASE Indexed(c) = {}
  BY <1>2 DEF Claim, NoClaim, Claims, Honest, DocsTypeOK
<1>3. CASE Indexed(c) # {}
  <2>1. PICK i \in Indexed(c) : i = Min(Indexed(c))
    BY <1>1, <1>3, MinOf
  <2>2. PICK j \in Indexed(c) : j = Max(Indexed(c))
    BY <1>1, <1>3, MaxOf
  <2>3. Claim(c, forms, shows) = [of |-> forms, shows |-> shows, from |-> i, to |-> j]
    BY <1>3, <2>1, <2>2 DEF Claim
  <2>4. builds[c] < 2 => Solid(Indexed(c), c)
    BY DEF DocsShown, IndexedOnce
  <2>5. [of |-> forms, shows |-> shows, from |-> i, to |-> j] \in Claims
    BY <1>1 DEF Claims
  <2> QED BY <1>1, <2>3, <2>4, <2>5 DEF Honest, Solid
<1> QED BY <1>2, <1>3
LEMMA IndexedIs ==
  ASSUME DocsTypeOK, NEW c, NEW forms, NEW n
  PROVE  /\ Indexed(c) \subseteq Docs /\ Indexed(c) \subseteq tables.index
         /\ \A f \in Indexed(c) : CompanyOf[f] = c
         /\ GetFilings(c, forms, n) \subseteq Indexed(c)
         /\ \A f \in GetFilings(c, forms, n) : FormOf[f] \in forms
         /\ Newest(Indexed(c), n) \subseteq Indexed(c)
BY DEF Indexed, GetFilings, Newest, DocsTypeOK, TableRecords

LEMMA BareClaim ==
  ASSUME DocsTypeOK, NEW S \in SUBSET Docs, NEW k, NEW c
  PROVE  /\ NoClaim \in Claims /\ Honest(NoClaim, k, c)
         /\ [NoClaim EXCEPT !.shows = S] \in Claims
         /\ Honest([NoClaim EXCEPT !.shows = S], k, c)
<1>1. [NoClaim EXCEPT !.shows = S] = [of |-> {}, shows |-> S, from |-> 0, to |-> 0]
  BY DEF NoClaim
<1>2. 0 \in 0..NDocs /\ 0 <= onEdgar
  BY DEF DocsTypeOK
<1> QED BY <1>1, <1>2 DEF NoClaim, Claims, Honest

(* Of the 8-Ks in the index, an answer about auditors names every one.     *)
LEMMA EventsAreHonest ==
  ASSUME DocsTypeOK, DocsShown, NEW c \in Companies, NEW k
  PROVE  AuditEvents(c) \in Claims /\ Honest(AuditEvents(c), k, c)
<1> DEFINE S == {f \in Indexed(c) : FormOf[f] \in {"8-K"}}
           T == {f \in Docs : CompanyOf[f] = c /\ FormOf[f] = "8-K"}
           E == GetFilings(c, {"8-K"}, EventLimit)
<1>1. S \subseteq T /\ T \subseteq Docs
  BY IndexedIs
<1>2. E \in SUBSET Docs /\ E = Newest(S, EventLimit)
  <2>1. Indexed(c) \subseteq Docs /\ GetFilings(c, {"8-K"}, EventLimit) \subseteq Indexed(c)
    BY IndexedIs
  <2> QED BY <2>1 DEF GetFilings
<1>3. ASSUME FewEvents PROVE E = S
  <2>1. Cardinality(S) <= Cardinality(T) /\ Cardinality(T) <= EventLimit
    BY <1>1, <1>3, DocsFinite, FS_Subset DEF FewEvents
  <2>2. Cardinality(S) \in Nat /\ Cardinality(T) \in Nat /\ EventLimit \in Nat
    BY <1>1, DocsFinite
  <2> QED BY <1>1, <1>2, <2>1, <2>2, NewestOfFew
<1>4. \A f \in Indexed(c) : FormOf[f] \in {"8-K"} => f \in S
  OBVIOUS
<1>5. AuditEvents(c) = Claim(c, {"8-K"}, E)
  BY DEF AuditEvents
<1>6. {"8-K"} \in SUBSET (Forms \cup {"8-K", "144"})
  OBVIOUS
<1> HIDE DEF S, E
<1>7. Claim(c, {"8-K"}, E) \in Claims /\ Honest(Claim(c, {"8-K"}, E), k, c)
  BY <1>2, <1>3, <1>4, <1>6, ClaimIsHonest
<1> QED BY <1>5, <1>7

LEMMA NoticesAreHonest ==
  ASSUME DocsTypeOK, DocsShown, NEW c \in Companies, NEW k
  PROVE  ProposedSaleNotices(c) \in Claims /\ Honest(ProposedSaleNotices(c), k, c)
<1> DEFINE S == {f \in Indexed(c) : FormOf[f] \in {"144"}}
           E == GetFilings(c, {"144"}, EventLimit)
<1>1. S \in SUBSET Docs /\ E = Newest(S, EventLimit) /\ EventLimit \in Nat
  BY IndexedIs DEF GetFilings
<1>2. E \subseteq Docs /\ Cardinality(E) \in Nat
  BY <1>1, IndexedIs, DocsFinite
<1>3. CASE Cardinality(E) >= EventLimit
  BY <1>3, BareClaim DEF ProposedSaleNotices
<1>4. CASE Cardinality(E) < EventLimit
  <2>1. E = S
    BY <1>1, <1>4, NewestAreAll
  <2>2. \A f \in Indexed(c) : FormOf[f] \in {"144"} => f \in S
    OBVIOUS
  <2>3. ProposedSaleNotices(c) = Claim(c, {"144"}, S)
    BY <1>1, <1>2, <1>4, <2>1 DEF ProposedSaleNotices
  <2>4. S \in SUBSET Docs /\ {"144"} \in SUBSET (Forms \cup {"8-K", "144"})
    BY <1>1
  <2> HIDE DEF S, E
  <2>5. Claim(c, {"144"}, S) \in Claims /\ Honest(Claim(c, {"144"}, S), k, c)
    BY <2>2, <2>4, ClaimIsHonest
  <2> QED BY <2>3, <2>5
<1> HIDE DEF E
<1> QED BY <1>1, <1>2, <1>3, <1>4

LEMMA ActivityIsHonest ==
  ASSUME DocsTypeOK, DocsShown, NEW c \in Companies, NEW k
  PROVE  FilingActivity(c) \in Claims /\ Honest(FilingActivity(c), k, c)
<1>1. \A f \in Indexed(c) : FormOf[f] \in Forms
  BY IndexedIs DEF Forms
<1>2. GetFilings(c, Forms, NDocs) = Newest(Indexed(c), NDocs)
  <2>1. {f \in Indexed(c) : FormOf[f] \in Forms} = Indexed(c)
    BY <1>1
  <2> QED BY <2>1 DEF GetFilings
<1>3. Indexed(c) \in SUBSET Docs /\ Cardinality(Indexed(c)) <= NDocs
  BY IndexedIs, DocsFinite
<1>4. GetFilings(c, Forms, NDocs) = Indexed(c)
  BY <1>2, <1>3, NewestOfFew
<1>5. Forms \in SUBSET (Forms \cup {"8-K", "144"})
  OBVIOUS
<1> QED BY <1>3, <1>4, <1>5, ClaimIsHonest DEF FilingActivity

(* Every endpoint's claim is honest at the moment it is made.              *)
LEMMA ClaimOfIsHonest ==
  ASSUME DocsTypeOK, DocsShown, NEW q \in ViewRecords, q.cik \in Companies,
         Honest(q.claim, q.kind, q.cik)
  PROVE  ClaimOf(q) \in Claims /\ Honest(ClaimOf(q), q.kind, q.cik)
<1>0. PICK c \in Companies : c = q.cik
  OBVIOUS
<1>1. CASE q.kind = "audit"
  BY <1>1 DEF ClaimOf, ViewRecords
<1>2. CASE q.kind = "officers"
  BY <1>0, <1>2, EventsAreHonest DEF ClaimOf
<1>3. CASE q.kind = "notices"
  BY <1>0, <1>3, NoticesAreHonest DEF ClaimOf
<1>4. CASE q.kind = "activity"
  BY <1>0, <1>4, ActivityIsHonest DEF ClaimOf
<1>5. CASE q.kind = "supply"
  <2>1. PICK S \in SUBSET Docs : S = {f \in Newest(Indexed(c), Lookback) : FormOf[f] = "144"}
    BY IndexedIs
  <2>2. SupplyEvents(c) = Claim(c, {"144"}, S)
    BY <2>1 DEF SupplyEvents
  <2>3. SupplyEvents(c) \in Claims /\ Honest(SupplyEvents(c), "supply", c)
    BY <2>2, ClaimIsHonest
  <2> QED BY <1>0, <1>5, <2>3 DEF ClaimOf
<1>6. CASE q.kind = "changes"
  <2>1. GetFilings(c, {"8-K"}, EventLimit) \in SUBSET Docs
    BY IndexedIs
  <2> QED BY <1>0, <1>6, <2>1, BareClaim DEF ClaimOf, FilingChanges
<1>7. CASE q.kind = "filings"
  <2>1. Newest(Indexed(c), Limit) \in SUBSET Docs
    BY IndexedIs
  <2> QED BY <1>0, <1>7, <2>1, BareClaim DEF ClaimOf, CompanyFilings
<1>8. CASE q.kind = "subsidiaries"
  <2>1. GetFilings(c, Annual, 1) \in SUBSET Docs
    BY IndexedIs
  <2> QED BY <1>0, <1>8, <2>1, BareClaim DEF ClaimOf, Subsidiaries
<1>9. CASE q.kind = "similarity"
  <2>1. {f \in GetFilings(c, SectionForms, 1) : Parsed(f) /\ tables.similar[f] # NoDoc}
          \in SUBSET Docs
    BY IndexedIs
  <2> QED BY <1>0, <1>9, <2>1, BareClaim DEF ClaimOf, SectionSimilarity
<1>10. CASE q.kind \notin {"audit", "officers", "notices", "activity", "supply",
                           "changes", "filings", "subsidiaries", "similarity"}
  <2>1. ClaimOf(q) = NoClaim
    BY <1>10 DEF ClaimOf
  <2> QED BY <2>1, BareClaim
<1> QED BY <1>1, <1>2, <1>3, <1>4, <1>5, <1>6, <1>7, <1>8, <1>9, <1>10

----------------------------------------------------------------------------
(* The cover page and the filing before.                                   *)

LEMMA CoverOf ==
  ASSUME DocsTypeOK, CoverFresh, NEW c
  PROVE  /\ GetCover(c) \in {NoDoc} \cup Docs
         /\ GetCover(c) # NoDoc => tables.cover[GetCover(c)] = version.cover
<1> DEFINE Covering == {f \in Docs : CompanyOf[f] = c /\ tables.cover[f] # NoDoc}
<1>1. CASE Covering = {}
  BY <1>1 DEF GetCover
<1>2. CASE Covering # {}
  <2>1. Covering \subseteq 0..NDocs
    BY DEF Docs
  <2>2. PICK f \in Covering : f = Max(Covering)
    BY <1>2, <2>1, MaxOf
  <2>3. GetCover(c) = IF tables.cover[f] < version.cover THEN NoDoc ELSE f
    BY <1>2, <2>2 DEF GetCover
  <2>4. tables.cover[f] \in Nat /\ version.cover \in Nat /\ tables.cover[f] <= version.cover
    BY DEF DocsTypeOK, TableRecords, CoverFresh
  <2> QED BY <2>3, <2>4
<1> QED BY <1>1, <1>2

LEMMA AnnualOf ==
  ASSUME DocsTypeOK, NEW c
  PROVE  PreferredAnnualReport(c) \in {NoDoc} \cup Docs
<1> DEFINE candidates == GetFilings(c, Annual, 8)
           originals == {f \in candidates : FormOf[f] # "10-K/A"}
           best == IF originals # {} THEN originals ELSE candidates
<1>1. CASE candidates = {}
  BY <1>1 DEF PreferredAnnualReport
<1>2. CASE candidates # {}
  <2>1. best # {} /\ best \subseteq Docs
    BY <1>2, IndexedIs
  <2>2. best \subseteq 0..NDocs
    BY <2>1 DEF Docs
  <2>3. Max(best) \in best
    BY <2>1, <2>2, MaxOf
  <2>4. PreferredAnnualReport(c) = Max(best)
    BY <1>2 DEF PreferredAnnualReport
  <2> QED BY <2>1, <2>3, <2>4
<1> QED BY <1>1, <1>2

(* Up to the await, a request only looks.                                  *)
LEMMA CoverLookIs ==
  ASSUME DocsTypeOK, CoverFresh, NEW q \in ViewRecords, q.cik \in Companies
  PROVE  /\ CoverLook(q) \in ViewRecords
         /\ CoverLook(q).stage \in {"reply", "instance"}
         /\ CoverLook(q).stage = "instance" => CoverLook(q).filing # NoDoc
         /\ CoverLook(q).kind = q.kind /\ CoverLook(q).cik = q.cik
         /\ CoverLook(q).left = q.left /\ CoverLook(q).claim = q.claim
         /\ \/ CoverLook(q).cover = q.cover
            \/ tables.cover[CoverLook(q).cover] = version.cover
<1>1. PICK v \in {NoDoc} \cup Docs :
        v = GetCover(q.cik) /\ (v # NoDoc => tables.cover[v] = version.cover)
  BY CoverOf
<1>2. PICK a \in {NoDoc} \cup Docs : a = PreferredAnnualReport(q.cik)
  BY AnnualOf
<1>3. \/ CoverLook(q) = [q EXCEPT !.stage = "reply"]
      \/ v # NoDoc /\ CoverLook(q) = [q EXCEPT !.stage = "reply", !.cover = v]
      \/ a # NoDoc /\ CoverLook(q) = [q EXCEPT !.stage = "instance", !.filing = a]
  BY <1>1, <1>2 DEF CoverLook
<1>4. CASE CoverLook(q) = [q EXCEPT !.stage = "reply"]
  BY <1>4 DEF ViewRecords
<1>5. CASE v # NoDoc /\ CoverLook(q) = [q EXCEPT !.stage = "reply", !.cover = v]
  BY <1>1, <1>5 DEF ViewRecords
<1>6. CASE a # NoDoc /\ CoverLook(q) = [q EXCEPT !.stage = "instance", !.filing = a]
  BY <1>2, <1>6 DEF ViewRecords
<1> QED BY <1>3, <1>4, <1>5, <1>6

LastIn(G, f) == IF {x \in G : x < f} = {} THEN NoDoc ELSE Max({x \in G : x < f})

LEMMA LastBefore ==
  ASSUME NEW G \in SUBSET Docs, NEW f, NEW p, p = LastIn(G, f)
  PROVE  /\ p \in {NoDoc} \cup Docs
         /\ p # NoDoc => p \in G /\ p < f
         /\ \A x \in G : x < f => p # NoDoc /\ p >= x
<1> DEFINE older == {x \in G : x < f}
<1>0. NoDoc \notin Docs
  OBVIOUS
<1>1. CASE older = {}
  BY <1>1 DEF LastIn
<1>2. CASE older # {}
  <2>1. Docs \subseteq 0..NDocs
    BY DEF Docs
  <2>2. Max(older) \in older /\ \A x \in older : Max(older) >= x
    BY <1>2, <2>1, MaxOf
  <2> QED BY <1>0, <1>2, <2>2 DEF LastIn
<1> QED BY <1>1, <1>2

LEMMA PriorIs ==
  ASSUME DocsTypeOK, NEW f \in Docs
  PROVE  /\ FindPrior(f) \in {NoDoc} \cup Docs
         /\ FindPrior(f) # NoDoc =>
              /\ FindPrior(f) \in Indexed(CompanyOf[f]) /\ FindPrior(f) < f
              /\ CompanyOf[FindPrior(f)] = CompanyOf[f]
<1>1. PICK G \in SUBSET Docs : G = GetFilings(CompanyOf[f], {FormOf[f]}, 20)
  BY IndexedIs
<1>2. FindPrior(f) = LastIn(G, f)
  BY <1>1 DEF FindPrior, LastIn
<1>3. /\ FindPrior(f) \in {NoDoc} \cup Docs
      /\ FindPrior(f) # NoDoc => FindPrior(f) \in G /\ FindPrior(f) < f
  BY <1>2, LastBefore
<1> QED BY <1>1, <1>3, IndexedIs

(* What is written to an index later changes the filing before another     *)
(* only to one that was not there to be parsed.                            *)
LEMMA PriorKept ==
  ASSUME DocsTypeOK, DocsTypeOK', tables.index \subseteq tables'.index, NEW f \in Docs,
         FindPrior(f)' \in tables.index
  PROVE  FindPrior(f)' = FindPrior(f)
<1> DEFINE Alike(I) == {g \in {x \in I : CompanyOf[x] = CompanyOf[f]} : FormOf[g] \in {FormOf[f]}}
<1>1. tables.index \in SUBSET Docs /\ tables'.index \in SUBSET Docs
  BY DEF DocsTypeOK, TableRecords
<1>2. PICK A \in SUBSET Docs : A = Alike(tables.index)
  BY <1>1
<1>3. PICK B \in SUBSET Docs : B = Alike(tables'.index)
  BY <1>1
<1>4. A \subseteq B /\ (\A g \in B : g \in tables.index => g \in A)
  BY <1>2, <1>3
<1>5. GetFilings(CompanyOf[f], {FormOf[f]}, 20) = Newest(A, 20)
  BY <1>2 DEF GetFilings, Indexed
<1>6. GetFilings(CompanyOf[f], {FormOf[f]}, 20)' = Newest(B, 20)
  BY <1>3 DEF GetFilings, Indexed, Newest
<1>7. FindPrior(f) = LastIn(Newest(A, 20), f)
  BY <1>5 DEF FindPrior, LastIn
<1>8. FindPrior(f)' = LastIn(Newest(B, 20), f)
  BY <1>6 DEF FindPrior, LastIn
<1>9. Newest(A, 20) \in SUBSET Docs /\ Newest(A, 20) \subseteq A
      /\ Newest(B, 20) \in SUBSET Docs /\ Newest(B, 20) \subseteq B
  BY DEF Newest
<1>10. PICK p : p = FindPrior(f)'
  OBVIOUS
<1>11. PICK m : m = FindPrior(f)
  OBVIOUS
<1>12. p \in Docs /\ p # NoDoc
  BY <1>1, <1>10
<1>13. p \in Newest(B, 20) /\ p < f /\ \A x \in Newest(B, 20) : x < f => p >= x
  BY <1>8, <1>9, <1>10, <1>12, LastBefore
<1>14. p \in A
  BY <1>4, <1>9, <1>10, <1>13
<1>15. p \in Newest(A, 20)
  <2>1. {g \in A : g > p} \subseteq {g \in B : g > p} /\ {g \in B : g > p} \subseteq Docs
    BY <1>4
  <2>2. Cardinality({g \in A : g > p}) <= Cardinality({g \in B : g > p})
    BY <2>1, DocsFinite, FS_Subset
  <2>3. Cardinality({g \in A : g > p}) \in Nat /\ Cardinality({g \in B : g > p}) \in Nat
    BY DocsFinite
  <2>4. Cardinality({g \in B : g > p}) < 20
    BY <1>13 DEF Newest
  <2>5. Cardinality({g \in A : g > p}) < 20
    BY <2>2, <2>3, <2>4
  <2> QED BY <1>14, <2>5 DEF Newest
<1>16. m \in Newest(A, 20) /\ m < f /\ m >= p
  BY <1>7, <1>9, <1>11, <1>13, <1>15, LastBefore
<1>17. m \in Newest(B, 20)
  BY <1>4, <1>9, <1>13, <1>16, NewestDocsUp
<1>18. p >= m /\ m \in Docs
  BY <1>9, <1>13, <1>16, <1>17
<1>19. p = m
  BY <1>12, <1>16, <1>18 DEF Docs
<1> QED BY <1>10, <1>11, <1>19
LEMMA ParsedPriorKept ==
  ASSUME DocsTypeOK, DocsTypeOK', tables.index \subseteq tables'.index,
         tables'.sections = tables.sections, version' = version,
         \A g \in Docs : tables.sections[g] # NoDoc => g \in tables.index,
         NEW f \in Docs, Parsed(FindPrior(f))'
  PROVE  FindPrior(f)' = FindPrior(f) /\ Parsed(FindPrior(f))
<1>1. PICK p : p = FindPrior(f)'
  OBVIOUS
<1>2. p # NoDoc /\ tables.sections[p] = version.sections
  BY <1>1 DEF Parsed
<1>3. p \in {NoDoc} \cup Docs
  <2>1. PICK G \in SUBSET Docs : G = GetFilings(CompanyOf[f], {FormOf[f]}, 20)'
    <3>1. tables'.index \in SUBSET Docs
      BY DEF DocsTypeOK, TableRecords
    <3> QED BY <3>1 DEF GetFilings, Indexed, Newest
  <2>2. p = LastIn(G, f)
    BY <1>1, <2>1 DEF FindPrior, LastIn
  <2> QED BY <2>2, LastBefore
<1>4. version.sections \in Nat \ {0}
  BY DEF DocsTypeOK
<1>5. p \in tables.index
  BY <1>2, <1>3, <1>4 DEF NoDoc
<1>6. FindPrior(f)' = FindPrior(f)
  BY <1>1, <1>5, PriorKept
<1> QED BY <1>1, <1>2, <1>6 DEF Parsed

(* A growing index undoes no comparison.                                   *)
LEMMA ComparedKept ==
  ASSUME DocsTypeOK, DocsTypeOK', Compared, tables.index \subseteq tables'.index,
         tables'.sections = tables.sections, tables'.similar = tables.similar,
         version' = version, backfill' = backfill
  PROVE  Compared'
<1>1. \A f \in Docs : tables.sections[f] # NoDoc => f \in tables.index
  BY DEF Compared
<1>2. backfill.done \subseteq Docs /\ backfill.left \subseteq Docs
  BY DEF DocsTypeOK, BackfillRecords
<1>3. ASSUME NEW f \in backfill.done, {f, FindPrior(f)'} \subseteq Prose,
             Parsed(FindPrior(f))'
      PROVE  tables'.similar[f] = FindPrior(f)'
  <2>1. FindPrior(f)' = FindPrior(f) /\ Parsed(FindPrior(f))
    BY <1>1, <1>2, <1>3, ParsedPriorKept
  <2> QED BY <1>3, <2>1 DEF Compared, Settled
<1>4. NextFiling' = NextFiling
  BY DEF NextFiling
<1>5. ASSUME backfill.stage = "compare", Parsed(FindPrior(NextFiling))'
      PROVE  backfill.prior = FindPrior(NextFiling)'
  <2>1. backfill.left # {} /\ backfill.left \subseteq Nat
    BY <1>2, <1>5 DEF Compared, Docs
  <2>2. PICK x \in Docs : x = NextFiling
    BY <1>2, <2>1, MinOf DEF NextFiling, Oldest
  <2>3. x = NextFiling'
    BY <1>4, <2>2
  <2>4. Parsed(FindPrior(x))'
    BY <1>5, <2>3
  <2>5. FindPrior(x)' = FindPrior(x) /\ Parsed(FindPrior(x))
    BY <1>1, <2>4, ParsedPriorKept
  <2>6. backfill.prior = FindPrior(x)
    BY <1>5, <2>2, <2>5 DEF Compared, Settled
  <2> QED BY <2>3, <2>5, <2>6
<1> QED BY <1>3, <1>5 DEF Compared, Settled

----------------------------------------------------------------------------
(* What stays true of requests and of the writing of indexes.              *)

LEMMA HonestKept ==
  ASSUME DocsTypeOK, onEdgar' \in Int, onEdgar <= onEdgar',
         \A d \in Companies : builds'[d] < 2 => builds[d] < 2,
         NEW claim \in Claims, NEW k, NEW c \in {NoDoc} \cup Companies, Honest(claim, k, c)
  PROVE  Honest(claim, k, c)'
<1>1. claim.to \in Int /\ onEdgar \in Int /\ claim.to <= onEdgar
  BY DEF Claims, Honest, DocsTypeOK
<1>2. claim.to <= onEdgar'
  BY <1>1
<1>3. ASSUME FewEvents, k # "supply", c # NoDoc, builds'[c] < 2, NEW f \in 1..onEdgar',
             CompanyOf[f] = c, FormOf[f] \in claim.of, claim.from <= f, f <= claim.to
      PROVE  f \in claim.shows
  <2>1. f \in 1..onEdgar
    BY <1>1, <1>3
  <2> QED BY <1>3, <2>1 DEF Honest
<1> QED BY <1>2, <1>3 DEF Honest

LEMMA ViewedKept ==
  ASSUME DocsTypeOK, onEdgar' \in Int, onEdgar <= onEdgar',
         \A d \in Companies : builds'[d] < 2 => builds[d] < 2,
         NEW q \in ViewRecords, Viewed(q)
  PROVE  Viewed(q)'
<1>1. Honest(q.claim, q.kind, q.cik)'
  BY HonestKept DEF ViewRecords, Viewed
<1>2. \A f \in q.left : f \in Int /\ f <= onEdgar /\ onEdgar \in Int
  BY DEF ViewRecords, Docs, DocsTypeOK, Viewed
<1>3. \A f \in q.left : f <= onEdgar'
  BY <1>2
<1> QED BY <1>1, <1>3 DEF Viewed

(* An index nobody writes to stays solid, and those who were at it remain. *)
LEMMA OnceKept ==
  ASSUME NEW c \in Companies, IndexedOnce(c), onEdgar' = onEdgar, builds'[c] = builds[c],
         Indexed(c)' = Indexed(c),
         \A r \in Viewers : view'[r].stage = "rows" /\ view'[r].cik = c =>
           view[r].stage = "rows" /\ view[r].cik = c /\ view'[r].left = view[r].left,
         walk'.cik = c /\ walk'.left # {} => walk.cik = c /\ walk'.left = walk.left
  PROVE  IndexedOnce(c)'
<1>1. \A S : Solid(S, c) => Solid(S, c)'
  BY DEF Solid
<1>2. \A L : ToFollow(L, c) => ToFollow(L, c)'
  BY <1>1 DEF ToFollow
<1>3. Solid(Indexed(c), c)'
  BY DEF IndexedOnce, Solid
<1>4. ASSUME NEW r \in Viewers, view'[r].stage = "rows", view'[r].cik = c
      PROVE  /\ builds'[c] # 0 /\ ToFollow(view[r].left, c)' /\ view'[r].left = view[r].left
             /\ \A s \in Viewers \ {r} : ~(view'[s].stage = "rows" /\ view'[s].cik = c)
             /\ ~(walk'.cik = c /\ walk'.left # {})
  BY <1>2, <1>4 DEF IndexedOnce
<1> QED BY <1>2, <1>3, <1>4 DEF IndexedOnce
----------------------------------------------------------------------------
(* Requests.                                                               *)

Counts == [runs : Nat, asks : Nat, faults : Nat]

LEMMA NoViewIs ==
  ASSUME DocsTypeOK
  PROVE  NoView \in ViewRecords /\ Viewed(NoView) /\ NoView.cover = NoDoc
<1>1. NoClaim \in Claims /\ Honest(NoClaim, "none", NoDoc)
  BY BareClaim
<1> QED BY <1>1 DEF NoView, ViewRecords, Viewed

(* A request that writes no index moves, and may store a cover page.       *)
LEMMA RequestKeeps ==
  ASSUME DInv, NEW r \in Viewers, NEW q \in ViewRecords, Viewed(q), q.stage # "rows",
         view' = [view EXCEPT ![r] = q], tables' \in TableRecords,
         q.cover = NoDoc \/ q.cover = view[r].cover \/ tables'.cover[q.cover] = version.cover,
         \A f \in Docs : tables'.cover[f] \in {tables.cover[f], version.cover},
         tables'.index = tables.index, tables'.sections = tables.sections,
         tables'.similar = tables.similar, count' \in Counts,
         onEdgar' = onEdgar, version' = version, backfill' = backfill, walk' = walk,
         builds' = builds
  PROVE  DInv'
<1>0. DocsTypeOK /\ DocsShown /\ CoverFresh /\ Compared
  BY DEF DInv
<1>1. view' \in [Viewers -> ViewRecords]
  BY <1>0 DEF DocsTypeOK
<1>2. DocsTypeOK'
  BY <1>0, <1>1 DEF DocsTypeOK, Counts
<1>3. DocsShown'
  <2>1. \A s \in Viewers : view'[s] = IF s = r THEN q ELSE view[s]
    BY <1>0 DEF DocsTypeOK
  <2>2. \A p \in ViewRecords : Viewed(p) => Viewed(p)'
    BY DEF Viewed, Honest
  <2>3. ASSUME NEW s \in Viewers PROVE Viewed(view[s])'
    <3>1. PICK p \in ViewRecords : p = view'[s] /\ Viewed(p)
      BY <1>0, <2>1 DEF DocsTypeOK, DocsShown
    <3>2. Viewed(p)'
      BY <2>2, <3>1
    <3> QED BY <3>1, <3>2
  <2>4. ASSUME NEW c \in Companies, builds[c] < 2 PROVE IndexedOnce(c)'
    <3>1. Indexed(c)' = Indexed(c)
      BY DEF Indexed
    <3>2. IndexedOnce(c)
      BY <1>0, <2>4 DEF DocsShown
    <3>3. \A s \in Viewers : view'[s].stage = "rows" => view'[s] = view[s]
      BY <2>1
    <3> QED BY <3>1, <3>2, <3>3, OnceKept
  <2> QED BY <1>0, <2>3, <2>4 DEF DocsShown
<1>4. CoverFresh'
  <2>1. \A s \in Viewers : view'[s] = IF s = r THEN q ELSE view[s]
    BY <1>0 DEF DocsTypeOK
  <2>2. \A f \in Docs : tables.cover[f] \in Nat /\ version.cover \in Nat
    BY <1>0 DEF DocsTypeOK, TableRecords
  <2>3. \A s \in Viewers : view[s].cover \in {NoDoc} \cup Docs
    BY <1>0 DEF DocsTypeOK, ViewRecords
  <2>4. \A f \in Docs : tables'.cover[f] <= version.cover
    BY <1>0, <2>2 DEF CoverFresh
  <2>5. \A s \in Viewers :
          view[s].cover # NoDoc => tables'.cover[view[s].cover] = version.cover
    BY <1>0, <2>3 DEF CoverFresh
  <2> QED BY <2>1, <2>4, <2>5 DEF CoverFresh
<1>5. Compared'
  BY <1>0, <1>2, ComparedKept
<1> QED BY <1>2, <1>3, <1>4, <1>5 DEF DInv

(* Looking for the cover page, after whatever was awaited.                 *)
LEMMA LookKeeps ==
  ASSUME DInv, NEW r \in Viewers, NEW q \in ViewRecords, q.cik \in Companies, q.left = {},
         q.cover = view[r].cover \/ q.cover = NoDoc, Honest(q.claim, q.kind, q.cik),
         view' = [view EXCEPT ![r] = CoverLook(q)], count' \in Counts,
         onEdgar' = onEdgar, tables' = tables, version' = version, backfill' = backfill,
         walk' = walk, builds' = builds
  PROVE  DInv'
<1>0. DocsTypeOK /\ CoverFresh /\ NoDoc \notin Companies
  BY DEF DInv, NoDoc
<1>1. PICK p : p = CoverLook(q)
  OBVIOUS
<1>2. /\ p \in ViewRecords /\ p.stage \in {"reply", "instance"}
      /\ p.stage = "instance" => p.filing # NoDoc
      /\ p.kind = q.kind /\ p.cik = q.cik /\ p.left = q.left /\ p.claim = q.claim
      /\ p.cover = q.cover \/ tables.cover[p.cover] = version.cover
  BY <1>0, <1>1, CoverLookIs
<1>3. Viewed(p)
  BY <1>0, <1>2 DEF Viewed
<1>4. tables \in TableRecords /\ \A f \in Docs : tables'.cover[f] \in {tables.cover[f], version.cover}
  BY <1>0 DEF DocsTypeOK
<1> QED BY <1>1, <1>2, <1>3, <1>4, RequestKeeps

LEMMA AskedFor ==
  ASSUME DInv, NEW r \in Viewers, view[r].stage # "idle"
  PROVE  /\ view[r] \in ViewRecords /\ Viewed(view[r]) /\ view[r].cik \in Companies
         /\ Honest(view[r].claim, view[r].kind, view[r].cik)
BY DEF DInv, DocsTypeOK, DocsShown, Viewed, ViewRecords

LEMMA ViewKeeps ==
  ASSUME DInv, NEW r \in Viewers, NEW k \in Kinds, NEW c \in Companies, View(r, k, c)
  PROVE  DInv'
<1>0. DocsTypeOK /\ DocsShown /\ count' \in Counts /\ NoDoc \notin Companies
  BY DEF DInv, DocsTypeOK, Counts, View, NoDoc
<1>1. PICK claim \in Claims :
        claim = (IF k = "audit" THEN AuditEvents(c) ELSE NoClaim) /\ Honest(claim, k, c)
  BY <1>0, EventsAreHonest, BareClaim
<1>2. PICK q : q = [NoView EXCEPT !.kind = k, !.cik = c, !.claim = claim]
  OBVIOUS
<1>3. /\ q \in ViewRecords /\ q.cik = c /\ q.kind = k /\ q.claim = claim
      /\ q.left = {} /\ q.cover = NoDoc /\ q.stage = "idle"
  BY <1>2 DEF NoView, ViewRecords
<1>4. /\ view' = [view EXCEPT ![r] = IF k \in Ensures /\ Indexed(c) = {}
                                     THEN [q EXCEPT !.stage = "index"] ELSE CoverLook(q)]
      /\ UNCHANGED <<onEdgar, tables, version, backfill, walk, builds>>
  BY <1>1, <1>2 DEF View
<1>5. CASE view' = [view EXCEPT ![r] = CoverLook(q)]
  BY <1>0, <1>1, <1>3, <1>4, <1>5, LookKeeps
<1>6. CASE view' = [view EXCEPT ![r] = [q EXCEPT !.stage = "index"]]
  <2>1. PICK p \in ViewRecords :
          /\ p = [q EXCEPT !.stage = "index"] /\ p.stage = "index" /\ p.cik = c /\ p.kind = k
          /\ p.claim = claim /\ p.left = {} /\ p.cover = NoDoc
    <3>1. [q EXCEPT !.stage = "index"] \in ViewRecords
      BY <1>3 DEF ViewRecords
    <3>2. q \in [stage : {"idle"}, kind : {k}, cik : {c}, filing : {NoDoc} \cup Docs,
                cover : {NoDoc}, left : {{}}, claim : {claim}, plans : SUBSET Docs]
      BY <1>3 DEF ViewRecords
    <3> QED BY <3>1, <3>2
  <2>2. Viewed(p)
    BY <1>0, <1>1, <2>1 DEF Viewed
  <2>3. tables \in TableRecords
    BY <1>0 DEF DocsTypeOK
  <2> QED BY <1>0, <1>4, <1>6, <2>1, <2>2, <2>3, RequestKeeps
<1> QED BY <1>4, <1>5, <1>6
(* The first list that is fetched of a company is its index to be.         *)
LEMMA FirstFetch ==
  ASSUME DocsTypeOK, NEW c \in Companies, IndexedOnce(c), builds[c] = 0, onEdgar' = onEdgar,
         tables' = tables
  PROVE  /\ Solid(Indexed(c), c)' /\ ToFollow(RecentlyFiled(c), c)'
         /\ \A r \in Viewers : ~(view[r].stage = "rows" /\ view[r].cik = c)
         /\ ~(walk.cik = c /\ walk.left # {})
<1>1. Indexed(c)' = {}
  BY DEF IndexedOnce, Indexed
<1>2. Solid(RecentlyFiled(c), c)
  BY ListIsSolid
<1>3. RecentlyFiled(c)' = RecentlyFiled(c)
  BY DEF RecentlyFiled, Newest
<1>4. PICK L : L = RecentlyFiled(c)
  OBVIOUS
<1>5. L \cup Indexed(c)' = L
  BY <1>1
<1>6. Solid(L, c)'
  BY <1>2, <1>4 DEF Solid
<1>7. ToFollow(L, c)'
  BY <1>1, <1>5, <1>6 DEF ToFollow
<1>8. Solid({}, c)'
  BY DEF Solid
<1>9. Solid(Indexed(c), c)'
  BY <1>1 DEF Solid
<1> QED BY <1>3, <1>4, <1>7, <1>9 DEF IndexedOnce

(* builds counts up to 2.                                                  *)
LEMMA WrittenOnce ==
  ASSUME DocsTypeOK, NEW c \in Companies, Written(c)
  PROVE  /\ builds' \in [Companies -> 0..2]
         /\ \A d \in Companies : builds'[d] < 2 => builds[d] < 2
         /\ builds'[c] # 0 /\ (builds'[c] < 2 => builds[c] = 0)
         /\ \A d \in Companies \ {c} : builds'[d] = builds[d]
<1>1. builds \in [Companies -> 0..2] /\ builds[c] \in 0..2
  BY DEF DocsTypeOK
<1>2. builds' = [builds EXCEPT ![c] = IF builds[c] = 2 THEN 2 ELSE builds[c] + 1]
  BY DEF Written
<1>3. builds'[c] = IF builds[c] = 2 THEN 2 ELSE builds[c] + 1
  BY <1>1, <1>2
<1>4. \A d \in Companies \ {c} : builds'[d] = builds[d]
  BY <1>1, <1>2
<1>5. builds'[c] \in 0..2 /\ builds'[c] # 0 /\ (builds'[c] < 2 => builds[c] = 0)
  BY <1>1, <1>3
<1>6. builds' \in [Companies -> 0..2]
  BY <1>1, <1>2, <1>5
<1>7. \A d \in Companies : builds'[d] < 2 => builds[d] < 2
  BY <1>1, <1>4, <1>5
<1> QED BY <1>4, <1>5, <1>6, <1>7

LEMMA FetchIndexKeeps ==
  ASSUME DInv, NEW r \in Viewers, FetchIndex(r)
  PROVE  DInv'
<1>0. /\ DocsTypeOK /\ DocsShown /\ CoverFresh /\ Compared /\ NoDoc \notin Companies
      /\ view[r].stage = "index" /\ view[r].left = {}
      /\ UNCHANGED <<onEdgar, tables, version, backfill, walk, count>> /\ count' \in Counts
  BY DEF DInv, FetchIndex, DocsTypeOK, Counts, NoDoc, DocsShown, Viewed
<1>1. PICK q \in ViewRecords :
        q = view[r] /\ Viewed(q) /\ q.cik \in Companies /\ Honest(q.claim, q.kind, q.cik)
  BY <1>0, AskedFor
<1>2. CASE RecentlyFiled(q.cik) = {}
  <2>1. view' = [view EXCEPT ![r] = CoverLook(q)] /\ builds' = builds
    BY <1>1, <1>2 DEF FetchIndex
  <2> QED BY <1>0, <1>1, <2>1, LookKeeps
<1>3. CASE RecentlyFiled(q.cik) # {}
  <2>1. PICK c \in Companies : c = q.cik
    BY <1>1
  <2>2. PICK L \in SUBSET Docs :
          L = RecentlyFiled(c) /\ \A f \in L : f <= onEdgar /\ CompanyOf[f] = c
    BY <1>0, ListIsSolid
  <2>3. Written(c) /\ view' = [view EXCEPT ![r] = [q EXCEPT !.stage = "rows", !.left = L]]
    BY <1>0, <1>1, <1>3, <2>1, <2>2 DEF FetchIndex, DocsTypeOK
  <2>4. PICK p \in ViewRecords :
          /\ p = [q EXCEPT !.stage = "rows", !.left = L] /\ p.stage = "rows" /\ p.left = L
          /\ p.cik = c /\ p.kind = q.kind /\ p.claim = q.claim /\ p.cover = q.cover
    <3>1. [q EXCEPT !.stage = "rows", !.left = L] \in ViewRecords
      BY DEF ViewRecords
    <3>2. \A p \in ViewRecords : p = [q EXCEPT !.stage = "rows", !.left = L] =>
            /\ p.stage = "rows" /\ p.left = L /\ p.cik = q.cik /\ p.kind = q.kind
            /\ p.claim = q.claim /\ p.cover = q.cover
      BY DEF ViewRecords
    <3> QED BY <2>1, <3>1, <3>2
  <2>5. \A s \in Viewers : view'[s] = IF s = r THEN p ELSE view[s]
    BY <1>0, <2>3, <2>4 DEF DocsTypeOK
  <2>6. /\ builds' \in [Companies -> 0..2]
        /\ \A d \in Companies : builds'[d] < 2 => builds[d] < 2
        /\ builds'[c] # 0 /\ (builds'[c] < 2 => builds[c] = 0)
        /\ \A d \in Companies \ {c} : builds'[d] = builds[d]
    BY <1>0, <2>3, WrittenOnce
  <2>7. DocsTypeOK'
    <3>1. view' \in [Viewers -> ViewRecords]
      BY <1>0, <2>3, <2>4 DEF DocsTypeOK
    <3> QED BY <1>0, <2>6, <3>1 DEF DocsTypeOK
  <2>8. \A u \in ViewRecords : Viewed(u) => Viewed(u)'
    <3>1. onEdgar' \in Int /\ onEdgar <= onEdgar'
      BY <1>0 DEF DocsTypeOK
    <3> QED BY <1>0, <2>6, <3>1, ViewedKept
  <2>9. Viewed(p)
    BY <1>0, <1>1, <2>1, <2>2, <2>4 DEF Viewed
  <2>10. ASSUME NEW s \in Viewers PROVE Viewed(view[s])'
    <3>1. PICK u \in ViewRecords : u = view'[s] /\ Viewed(u)
      BY <1>0, <2>5, <2>9 DEF DocsTypeOK, DocsShown
    <3>2. Viewed(u)'
      BY <2>8, <3>1
    <3> QED BY <3>1, <3>2
  <2>11. ASSUME NEW d \in Companies, builds'[d] < 2 PROVE IndexedOnce(d)'
    <3>1. IndexedOnce(d)
      BY <1>0, <2>6, <2>11 DEF DocsShown
    <3>2. Indexed(d)' = Indexed(d)
      BY <1>0 DEF Indexed
    <3>3. CASE d # c
      <4>1. \A s \in Viewers : view'[s].stage = "rows" /\ view'[s].cik = d => view'[s] = view[s]
        BY <2>4, <2>5, <3>3
      <4> QED BY <1>0, <2>6, <3>1, <3>2, <3>3, <4>1, OnceKept
    <3>4. CASE d = c
      <4>1. /\ Solid(Indexed(c), c)' /\ ToFollow(RecentlyFiled(c), c)'
            /\ \A s \in Viewers : ~(view[s].stage = "rows" /\ view[s].cik = c)
            /\ ~(walk.cik = c /\ walk.left # {})
        BY <1>0, <2>6, <2>11, <3>1, <3>4, FirstFetch
      <4>2. RecentlyFiled(c)' = L
        BY <1>0, <2>2 DEF RecentlyFiled, Newest
      <4>3. ToFollow(L, c)'
        BY <4>1, <4>2
      <4>4. \A s \in Viewers : view'[s].stage = "rows" /\ view'[s].cik = c => s = r
        BY <2>5, <4>1
      <4>5. view'[r].left = L
        BY <2>4, <2>5
      <4>6. ~(walk'.cik = c /\ walk'.left # {})
        BY <1>0, <4>1
      <4>7. IndexedOnce(c)'
        BY <2>6, <4>1, <4>3, <4>4, <4>5, <4>6 DEF IndexedOnce
      <4> QED BY <3>4, <4>7
    <3> QED BY <3>3, <3>4
  <2>12. DocsShown'
    BY <1>0, <2>10, <2>11 DEF DocsShown
  <2>13. CoverFresh'
    <3>1. \A s \in Viewers : view'[s].cover = view[s].cover
      BY <1>1, <2>4, <2>5
    <3> QED BY <1>0, <3>1 DEF CoverFresh
  <2>14. Compared'
    <3>1. tables'.index = tables.index
      BY <1>0
    <3> QED BY <1>0, <2>7, <3>1, ComparedKept
  <2> QED BY <2>7, <2>12, <2>13, <2>14 DEF DInv
<1> QED BY <1>2, <1>3
(* A row of one company is none of another's.                              *)
LEMMA RowIsOfOne ==
  ASSUME NEW x \in Docs, tables'.index = tables.index \cup {x}, NEW d, CompanyOf[x] # d
  PROVE  Indexed(d)' = Indexed(d)
BY DEF Indexed

LEMMA WriteRowKeeps ==
  ASSUME DInv, NEW r \in Viewers, WriteRow(r)
  PROVE  DInv'
<1>0. /\ DocsTypeOK /\ DocsShown /\ CoverFresh /\ Compared
      /\ view[r].stage = "rows" /\ view[r].left # {}
      /\ UNCHANGED <<onEdgar, version, backfill, walk, builds, count>>
  BY DEF DInv, WriteRow
<1>1. PICK q \in ViewRecords : q = view[r] /\ Viewed(q) /\ q.cik \in Companies
  BY <1>0, AskedFor
<1>2. PICK c \in Companies, L \in SUBSET Docs :
        c = q.cik /\ L = q.left /\ \A f \in L : f <= onEdgar /\ CompanyOf[f] = c
  BY <1>1 DEF ViewRecords, Viewed
<1>3. PICK x \in L : x = Max(L)
  <2>1. L \subseteq 0..NDocs /\ L # {}
    BY <1>0, <1>1, <1>2 DEF Docs
  <2> QED BY <2>1, MaxOf
<1>4. /\ tables' = [tables EXCEPT !.index = @ \cup {x}]
      /\ view' = [view EXCEPT ![r] = [q EXCEPT !.left = L \ {x}]]
  BY <1>0, <1>1, <1>2, <1>3 DEF WriteRow, DocsTypeOK
<1>5. /\ tables' \in TableRecords /\ tables'.index = tables.index \cup {x}
      /\ tables'.cover = tables.cover /\ tables'.sections = tables.sections
      /\ tables'.similar = tables.similar
  BY <1>0, <1>2, <1>3, <1>4 DEF DocsTypeOK, TableRecords
<1>6. PICK p \in ViewRecords :
        /\ p = [q EXCEPT !.left = L \ {x}] /\ p.left = L \ {x} /\ p.stage = "rows" /\ p.cik = c
        /\ p.kind = q.kind /\ p.claim = q.claim /\ p.cover = q.cover
  <2>1. [q EXCEPT !.left = L \ {x}] \in ViewRecords
    BY DEF ViewRecords
  <2>2. \A p \in ViewRecords : p = [q EXCEPT !.left = L \ {x}] =>
          /\ p.left = L \ {x} /\ p.stage = q.stage /\ p.cik = q.cik
          /\ p.kind = q.kind /\ p.claim = q.claim /\ p.cover = q.cover
    BY DEF ViewRecords
  <2> QED BY <1>0, <1>1, <1>2, <2>1, <2>2
<1>7. \A s \in Viewers : view'[s] = IF s = r THEN p ELSE view[s]
  BY <1>0, <1>4, <1>6 DEF DocsTypeOK
<1>8. DocsTypeOK'
  <2>1. view' \in [Viewers -> ViewRecords]
    BY <1>0, <1>4, <1>6 DEF DocsTypeOK
  <2> QED BY <1>0, <1>5, <2>1 DEF DocsTypeOK
<1>9. \A s \in Viewers : Viewed(view[s])'
  <2>1. \A u \in ViewRecords : Viewed(u) => Viewed(u)'
    BY <1>0 DEF Viewed, Honest
  <2>2. Viewed(p)
    BY <1>0, <1>1, <1>2, <1>6 DEF Viewed
  <2>3. ASSUME NEW s \in Viewers PROVE Viewed(view[s])'
    <3>1. PICK u \in ViewRecords : u = view'[s] /\ Viewed(u)
      BY <1>0, <1>7, <2>2 DEF DocsTypeOK, DocsShown
    <3>2. Viewed(u)'
      BY <2>1, <3>1
    <3> QED BY <3>1, <3>2
  <2> QED BY <2>3
<1>10. ASSUME NEW d \in Companies, builds'[d] < 2 PROVE IndexedOnce(d)'
  <2>1. IndexedOnce(d)
    BY <1>0, <1>10 DEF DocsShown
  <2>2. CASE d # c
    <3>1. Indexed(d)' = Indexed(d)
      BY <1>2, <1>3, <1>5, <2>2, RowIsOfOne
    <3>2. \A s \in Viewers : view'[s].stage = "rows" /\ view'[s].cik = d => view'[s] = view[s]
      BY <1>6, <1>7, <2>2
    <3> QED BY <1>0, <2>1, <3>1, <3>2, OnceKept
  <2>3. CASE d = c
    <3>1. /\ builds[c] # 0 /\ ToFollow(L, c) /\ Solid(Indexed(c), c)
          /\ \A s \in Viewers \ {r} : ~(view[s].stage = "rows" /\ view[s].cik = c)
          /\ ~(walk.cik = c /\ walk.left # {})
      BY <1>0, <1>1, <1>2, <2>1, <2>3 DEF IndexedOnce
    <3>2. Solid(Indexed(c), c)' /\ ToFollow(L \ {Max(L)}, c)'
      BY <1>0, <1>1, <1>2, <1>3, <1>5, <3>1, RowFollows DEF DocsShown
    <3>3. ToFollow(p.left, c)'
      BY <1>3, <1>6, <3>2
    <3>4. view'[r] = p /\ \A s \in Viewers : view'[s].stage = "rows" /\ view'[s].cik = c => s = r
      BY <1>7, <3>1
    <3>5. ~(walk'.cik = c /\ walk'.left # {}) /\ builds'[c] # 0
      BY <1>0, <3>1
    <3>6. IndexedOnce(c)'
      BY <3>2, <3>3, <3>4, <3>5 DEF IndexedOnce
    <3> QED BY <2>3, <3>6
  <2> QED BY <2>2, <2>3
<1>11. tables'.index \subseteq 1..onEdgar
  <2>1. x \in Docs /\ x <= onEdgar /\ onEdgar \in Int
    BY <1>0, <1>2, <1>3 DEF DocsTypeOK
  <2>2. x \in 1..onEdgar
    BY <2>1 DEF Docs
  <2> QED BY <1>0, <1>5, <2>2 DEF DocsShown
<1>12. DocsShown'
  BY <1>0, <1>9, <1>10, <1>11 DEF DocsShown
<1>13. CoverFresh'
  <2>1. \A s \in Viewers : view'[s].cover = view[s].cover
    BY <1>1, <1>6, <1>7
  <2> QED BY <1>0, <1>5, <2>1 DEF CoverFresh
<1>14. Compared'
  BY <1>0, <1>5, <1>8, ComparedKept
<1> QED BY <1>8, <1>12, <1>13, <1>14 DEF DInv

LEMMA RowsWrittenKeeps ==
  ASSUME DInv, NEW r \in Viewers, RowsWritten(r) \/ IndexFails(r)
  PROVE  DInv'
<1>0. /\ DocsTypeOK /\ DocsShown /\ view[r].stage \in {"index", "rows"} /\ view[r].left = {}
      /\ UNCHANGED <<onEdgar, tables, version, backfill, walk, builds>> /\ count' \in Counts
  BY DEF DInv, RowsWritten, IndexFails, DocsTypeOK, Counts, DocsShown, Viewed
<1>1. PICK q \in ViewRecords :
        q = view[r] /\ Viewed(q) /\ q.cik \in Companies /\ Honest(q.claim, q.kind, q.cik)
  BY <1>0, AskedFor
<1>2. view' = [view EXCEPT ![r] = CoverLook(q)]
  BY <1>1 DEF RowsWritten, IndexFails
<1> QED BY <1>0, <1>1, <1>2, LookKeeps

LEMMA FetchInstanceKeeps ==
  ASSUME DInv, NEW r \in Viewers, FetchInstance(r)
  PROVE  DInv'
<1>0. /\ DocsTypeOK /\ DocsShown /\ view[r].stage = "instance"
      /\ UNCHANGED <<onEdgar, version, backfill, walk, builds, count>> /\ count' \in Counts
  BY DEF DInv, FetchInstance, DocsTypeOK, Counts
<1>1. PICK q \in ViewRecords : q = view[r] /\ Viewed(q) /\ q.stage = "instance" /\ q.left = {}
  BY <1>0, AskedFor DEF Viewed
<1>2. PICK f \in Docs : f = q.filing /\ f # NoDoc
  BY <1>1 DEF ViewRecords, Viewed
<1>3. CASE f \in Tagged
  <2>1. /\ tables' = [tables EXCEPT !.cover[f] = version.cover]
        /\ view' = [view EXCEPT ![r] = [q EXCEPT !.stage = "plans", !.cover = f]]
    BY <1>0, <1>1, <1>2, <1>3 DEF FetchInstance, DocsTypeOK
  <2>2. tables.cover \in [Docs -> Nat] /\ version.cover \in Nat
    BY <1>0 DEF DocsTypeOK, TableRecords
  <2>3. /\ tables' \in TableRecords /\ tables'.cover = [tables.cover EXCEPT ![f] = version.cover]
        /\ tables'.index = tables.index /\ tables'.sections = tables.sections
        /\ tables'.similar = tables.similar
    BY <1>0, <2>1, <2>2 DEF DocsTypeOK, TableRecords
  <2>4. /\ \A g \in Docs : tables'.cover[g] \in {tables.cover[g], version.cover}
        /\ tables'.cover[f] = version.cover
    BY <2>2, <2>3
  <2>5. PICK p \in ViewRecords :
          /\ p = [q EXCEPT !.stage = "plans", !.cover = f] /\ p.stage = "plans" /\ p.cover = f
          /\ p.cik = q.cik /\ p.left = q.left /\ p.filing = q.filing /\ p.kind = q.kind
          /\ p.claim = q.claim
    <3>1. [q EXCEPT !.stage = "plans", !.cover = f] \in ViewRecords
      BY DEF ViewRecords
    <3>2. \A p \in ViewRecords : p = [q EXCEPT !.stage = "plans", !.cover = f] =>
            /\ p.stage = "plans" /\ p.cover = f
            /\ p.cik = q.cik /\ p.left = q.left /\ p.filing = q.filing /\ p.kind = q.kind
            /\ p.claim = q.claim
      BY DEF ViewRecords
    <3> QED BY <3>1, <3>2
  <2>6. Viewed(p)
    BY <1>1, <1>2, <2>5 DEF Viewed
  <2> QED BY <1>0, <2>1, <2>3, <2>4, <2>5, <2>6, RequestKeeps
<1>4. CASE f \notin Tagged
  <2>1. tables' = tables /\ view' = [view EXCEPT ![r] = [q EXCEPT !.stage = "reply"]]
    BY <1>0, <1>1, <1>2, <1>4 DEF FetchInstance, DocsTypeOK
  <2>2. PICK p \in ViewRecords :
          /\ p = [q EXCEPT !.stage = "reply"] /\ p.stage = "reply" /\ p.cover = q.cover
          /\ p.cik = q.cik /\ p.left = q.left /\ p.kind = q.kind /\ p.claim = q.claim
    <3>1. [q EXCEPT !.stage = "reply"] \in ViewRecords
      BY DEF ViewRecords
    <3>2. \A p \in ViewRecords : p = [q EXCEPT !.stage = "reply"] =>
            /\ p.stage = "reply" /\ p.cover = q.cover
            /\ p.cik = q.cik /\ p.left = q.left /\ p.kind = q.kind /\ p.claim = q.claim
      BY DEF ViewRecords
    <3> QED BY <3>1, <3>2
  <2>3. Viewed(p)
    BY <1>1, <2>2 DEF Viewed
  <2>4. tables \in TableRecords
    BY <1>0 DEF DocsTypeOK
  <2> QED BY <1>0, <1>1, <2>1, <2>2, <2>3, <2>4, RequestKeeps
<1> QED BY <1>3, <1>4
LEMMA ReplacePlansKeeps ==
  ASSUME DInv, NEW r \in Viewers, ReplacePlans(r)
  PROVE  DInv'
<1>0. /\ DocsTypeOK /\ view[r].stage = "plans"
      /\ UNCHANGED <<onEdgar, version, backfill, walk, builds, count>> /\ count' \in Counts
  BY DEF DInv, ReplacePlans, DocsTypeOK, Counts
<1>1. PICK q \in ViewRecords : q = view[r] /\ Viewed(q) /\ q.stage = "plans" /\ q.left = {}
  BY <1>0, AskedFor DEF Viewed
<1>2. PICK S \in SUBSET Docs :
        tables' = [tables EXCEPT !.plans = (tables.plans \ {q.filing}) \cup S]
  BY <1>0, <1>1 DEF ReplacePlans
<1>3. view' = [view EXCEPT ![r] = [q EXCEPT !.stage = "reply"]]
  BY <1>0, <1>1 DEF ReplacePlans, DocsTypeOK
<1>4. /\ tables' \in TableRecords /\ tables'.cover = tables.cover
      /\ tables'.index = tables.index /\ tables'.sections = tables.sections
      /\ tables'.similar = tables.similar
  BY <1>0, <1>2 DEF DocsTypeOK, TableRecords
<1>5. PICK p \in ViewRecords :
        /\ p = [q EXCEPT !.stage = "reply"] /\ p.stage = "reply" /\ p.cover = q.cover
        /\ p.cik = q.cik /\ p.left = q.left /\ p.kind = q.kind /\ p.claim = q.claim
  <2>1. [q EXCEPT !.stage = "reply"] \in ViewRecords
    BY DEF ViewRecords
  <2>2. \A p \in ViewRecords : p = [q EXCEPT !.stage = "reply"] =>
          /\ p.stage = "reply" /\ p.cover = q.cover
          /\ p.cik = q.cik /\ p.left = q.left /\ p.kind = q.kind /\ p.claim = q.claim
    BY DEF ViewRecords
  <2> QED BY <2>1, <2>2
<1>6. Viewed(p)
  BY <1>1, <1>5 DEF Viewed
<1> QED BY <1>0, <1>1, <1>3, <1>4, <1>5, <1>6, RequestKeeps

LEMMA ReplyKeeps ==
  ASSUME DInv, NEW r \in Viewers, Reply(r)
  PROVE  DInv'
<1>0. /\ DocsTypeOK /\ DocsShown /\ view[r].stage = "reply" /\ tables \in TableRecords
      /\ UNCHANGED <<onEdgar, tables, version, backfill, walk, builds, count>>
      /\ count' \in Counts
  BY DEF DInv, Reply, DocsTypeOK, Counts
<1>1. PICK q \in ViewRecords :
        /\ q = view[r] /\ Viewed(q) /\ q.cik \in Companies /\ q.left = {}
        /\ Honest(q.claim, q.kind, q.cik)
  BY <1>0, AskedFor DEF Viewed
<1>2. PICK claim \in Claims : claim = ClaimOf(q) /\ Honest(claim, q.kind, q.cik)
  BY <1>0, <1>1, ClaimOfIsHonest DEF DInv
<1>3. PICK S \in SUBSET Docs : S = tables.plans \cap {q.cover}
  BY <1>0 DEF TableRecords
<1> DEFINE p0 == [q EXCEPT !.stage = "idle", !.claim = claim, !.filing = NoDoc, !.plans = S]
<1>4. view' = [view EXCEPT ![r] = p0]
  BY <1>0, <1>1, <1>2, <1>3 DEF Reply, DocsTypeOK
<1>5. PICK p \in ViewRecords :
        /\ p = p0 /\ p.stage = "idle" /\ p.cover = q.cover
        /\ p.cik = q.cik /\ p.left = q.left /\ p.kind = q.kind /\ p.claim = claim
  <2>1. p0 \in ViewRecords
    BY DEF ViewRecords
  <2>2. \A p \in ViewRecords : p = p0 =>
          /\ p.stage = "idle" /\ p.cover = q.cover
          /\ p.cik = q.cik /\ p.left = q.left /\ p.kind = q.kind /\ p.claim = claim
    BY DEF ViewRecords
  <2> QED BY <2>1, <2>2
<1>6. Viewed(p)
  BY <1>1, <1>2, <1>5 DEF Viewed
<1> QED BY <1>0, <1>1, <1>4, <1>5, <1>6, RequestKeeps

LEMMA ViewFailsKeeps ==
  ASSUME DInv, NEW r \in Viewers, ViewFails(r)
  PROVE  DInv'
<1>0. /\ DocsTypeOK /\ view' = [view EXCEPT ![r] = NoView] /\ tables \in TableRecords
      /\ UNCHANGED <<onEdgar, tables, version, backfill, walk, builds>> /\ count' \in Counts
  BY DEF DInv, ViewFails, DocsTypeOK, Counts
<1>1. PICK q \in ViewRecords : q = NoView /\ Viewed(q) /\ q.cover = NoDoc /\ q.stage # "rows"
  BY <1>0, NoViewIs DEF NoView
<1> QED BY <1>0, <1>1, RequestKeeps

(* When the server stops, its requests are gone and the rows stay.         *)
LEMMA ClearedKeeps ==
  ASSUME DInv, view' = [r \in Viewers |-> NoView], tables' = tables, count' \in Counts,
         onEdgar' = onEdgar, walk' = walk, builds' = builds
  PROVE  /\ view' \in [Viewers -> ViewRecords] /\ DocsShown'
         /\ \A r \in Viewers : view'[r].cover = NoDoc
<1>0. DocsTypeOK /\ DocsShown
  BY DEF DInv
<1>1. PICK q \in ViewRecords : q = NoView /\ Viewed(q) /\ q.cover = NoDoc /\ q.stage # "rows"
  BY <1>0, NoViewIs DEF NoView
<1>2. \A r \in Viewers : view'[r] = q
  BY <1>1
<1>3. Viewed(q)'
  BY <1>1 DEF Viewed, Honest
<1>4. \A r \in Viewers : Viewed(view[r])'
  BY <1>2, <1>3
<1>5. ASSUME NEW c \in Companies, builds[c] < 2 PROVE IndexedOnce(c)'
  <2>1. IndexedOnce(c)
    BY <1>0, <1>5 DEF DocsShown
  <2>2. Indexed(c)' = Indexed(c)
    BY DEF Indexed
  <2> QED BY <1>1, <1>2, <2>1, <2>2, OnceKept
<1> QED BY <1>0, <1>1, <1>2, <1>4, <1>5 DEF DocsShown

LEMMA ApiKilledKeeps == DInv /\ ApiKilled => DInv'
<1> SUFFICES ASSUME DInv, ApiKilled PROVE DInv'
  OBVIOUS
<1>0. /\ DocsTypeOK /\ CoverFresh /\ Compared /\ count' \in Counts
      /\ UNCHANGED <<onEdgar, tables, version, backfill, walk, builds>>
  BY DEF DInv, ApiKilled, DocsTypeOK, Counts
<1>1. /\ view' \in [Viewers -> ViewRecords] /\ DocsShown'
      /\ \A r \in Viewers : view'[r].cover = NoDoc
  BY <1>0, ClearedKeeps DEF ApiKilled
<1>2. DocsTypeOK'
  BY <1>0, <1>1 DEF DocsTypeOK, Counts
<1>3. CoverFresh'
  BY <1>0, <1>1 DEF CoverFresh
<1>4. Compared'
  BY <1>0, <1>2, ComparedKept
<1> QED BY <1>1, <1>2, <1>3, <1>4 DEF DInv

(* A backfill that is not running owes nothing.                            *)
LEMMA NothingCompared ==
  ASSUME Compared, backfill' = NoBackfill \/ (backfill'.stage = "company"
           /\ backfill'.left = {} /\ backfill'.done = {}),
         tables'.index = tables.index, tables'.sections = tables.sections
  PROVE  Compared'
<1>1. backfill'.stage \in {"idle", "company"} /\ backfill'.left = {} /\ backfill'.done = {}
  BY DEF NoBackfill
<1> QED BY <1>1 DEF Compared

LEMMA NoBackfillIs == NoBackfill \in BackfillRecords
BY DEF NoBackfill, BackfillRecords

LEMMA DeployKeeps == DInv /\ Deploy => DInv'
<1> SUFFICES ASSUME DInv, Deploy PROVE DInv'
  OBVIOUS
<1>0. /\ DocsTypeOK /\ CoverFresh /\ Compared /\ count' \in Counts
      /\ UNCHANGED <<onEdgar, tables, walk, builds>> /\ backfill' = NoBackfill
  BY DEF DInv, Deploy, DocsTypeOK, Counts
<1>1. /\ view' \in [Viewers -> ViewRecords] /\ DocsShown'
      /\ \A r \in Viewers : view'[r].cover = NoDoc
  BY <1>0, ClearedKeeps DEF Deploy
<1>2. version' \in [cover : Nat \ {0}, sections : Nat \ {0}] /\ version.cover <= version'.cover
  BY <1>0 DEF Deploy, DocsTypeOK
<1>3. DocsTypeOK'
  BY <1>0, <1>1, <1>2, NoBackfillIs DEF DocsTypeOK, Counts
<1>4. CoverFresh'
  <2>1. \A f \in Docs : tables.cover[f] \in Int /\ tables.cover[f] <= version.cover
    BY <1>0 DEF DocsTypeOK, TableRecords, CoverFresh
  <2>2. version.cover \in Int /\ version'.cover \in Int
    BY <1>0, <1>2 DEF DocsTypeOK
  <2>3. \A f \in Docs : tables'.cover[f] <= version'.cover
    BY <1>0, <1>2, <2>1, <2>2
  <2> QED BY <1>1, <2>3 DEF CoverFresh
<1>5. Compared'
  BY <1>0, NothingCompared
<1> QED BY <1>1, <1>3, <1>4, <1>5 DEF DInv

(* A new filing is later than all that is indexed.                         *)
LEMMA FilesKeeps == DInv /\ Files => DInv'
<1> SUFFICES ASSUME DInv, Files PROVE DInv'
  OBVIOUS
<1>0. /\ DocsTypeOK /\ DocsShown /\ CoverFresh /\ Compared
      /\ onEdgar' = onEdgar + 1 /\ onEdgar < NDocs
      /\ UNCHANGED <<tables, version, view, backfill, walk, builds, count>>
  BY DEF DInv, Files
<1>1. onEdgar \in Nat /\ onEdgar' \in 0..NDocs /\ onEdgar' \in Int /\ onEdgar <= onEdgar'
  BY <1>0 DEF DocsTypeOK
<1>2. DocsTypeOK'
  BY <1>0, <1>1 DEF DocsTypeOK
<1>3. \A r \in Viewers : Viewed(view[r])'
  <2>1. ASSUME NEW r \in Viewers PROVE Viewed(view[r])'
    <3>1. PICK q \in ViewRecords : q = view[r] /\ Viewed(q)
      BY <1>0 DEF DocsTypeOK, DocsShown
    <3>2. Viewed(q)'
      BY <1>0, <1>1, <3>1, ViewedKept
    <3> QED BY <1>0, <3>1, <3>2
  <2> QED BY <2>1
<1>4. ASSUME NEW S, \A f \in S : f \in Int /\ f <= onEdgar, NEW c, Solid(S, c)
      PROVE  Solid(S, c)'
  <2>1. ASSUME NEW f \in 1..onEdgar', NEW i \in S, NEW j \in S, CompanyOf[f] = c, i <= f, f <= j
        PROVE  f \in S
    <3>1. f \in 1..onEdgar
      BY <1>1, <1>4, <2>1
    <3> QED BY <1>4, <2>1, <3>1 DEF Solid
  <2> QED BY <2>1 DEF Solid
<1>5. ASSUME NEW c \in Companies PROVE \A f \in Indexed(c) : f \in Int /\ f <= onEdgar
  BY <1>0, <1>1 DEF Indexed, DocsShown
<1>6. ASSUME NEW c \in Companies, NEW L \in SUBSET Docs, \A f \in L : f <= onEdgar,
             ToFollow(L, c)
      PROVE  ToFollow(L, c)'
  <2>0. \A f \in L : f \in Int
    BY DEF Docs
  <2>1. \A f \in L \cup Indexed(c) : f \in Int /\ f <= onEdgar
    BY <1>5, <1>6, <2>0
  <2>2. PICK I : I = Indexed(c)
    OBVIOUS
  <2>3. Solid(L \cup I, c)'
    BY <1>4, <1>6, <2>1, <2>2 DEF ToFollow
  <2>4. Indexed(c)' = I
    BY <1>0, <2>2 DEF Indexed
  <2> QED BY <1>6, <2>2, <2>3, <2>4 DEF ToFollow
<1>7. ASSUME NEW c \in Companies, builds[c] < 2 PROVE IndexedOnce(c)'
  <2>0. IndexedOnce(c)
    BY <1>0, <1>7 DEF DocsShown
  <2>1. PICK I : I = Indexed(c) /\ I = Indexed(c)'
    BY <1>0 DEF Indexed
  <2>2. Solid(I, c)'
    BY <1>4, <1>5, <2>0, <2>1 DEF IndexedOnce
  <2>3. Solid(Indexed(c), c)'
    BY <2>1, <2>2 DEF Solid
  <2>4. ASSUME NEW r \in Viewers, view[r].stage = "rows", view[r].cik = c
        PROVE  ToFollow(view[r].left, c)'
    <3>1. PICK L \in SUBSET Docs :
            L = view[r].left /\ (\A f \in L : f <= onEdgar) /\ ToFollow(L, c)
      BY <1>0, <2>0, <2>4 DEF IndexedOnce, DocsTypeOK, ViewRecords, DocsShown, Viewed
    <3>2. ToFollow(L, c)'
      BY <1>6, <3>1
    <3> QED BY <1>0, <3>1, <3>2
  <2>5. ASSUME walk.cik = c, walk.left # {} PROVE ToFollow(walk.left, c)'
    <3>1. PICK L \in SUBSET Docs :
            L = walk.left /\ (\A f \in L : f <= onEdgar) /\ ToFollow(L, c)
      BY <1>0, <2>0, <2>5 DEF IndexedOnce, DocsTypeOK, DocsShown
    <3>2. ToFollow(L, c)'
      BY <1>6, <3>1
    <3> QED BY <1>0, <3>1, <3>2
  <2>6. Indexed(c)' = Indexed(c)
    BY <2>1
  <2> QED BY <1>0, <2>0, <2>3, <2>4, <2>5, <2>6 DEF IndexedOnce
<1>8. /\ tables'.index \subseteq 1..onEdgar'
      /\ \A f \in walk'.left : f <= onEdgar' /\ CompanyOf[f] = walk'.cik
  <2>1. \A f \in 1..onEdgar : f \in 1..onEdgar'
    BY <1>0, <1>1
  <2>2. \A f \in walk.left : f \in Int /\ f <= onEdgar
    BY <1>0 DEF DocsTypeOK, DocsShown, Docs
  <2> QED BY <1>0, <1>1, <2>1, <2>2 DEF DocsShown
<1>9. DocsShown'
  BY <1>0, <1>3, <1>7, <1>8 DEF DocsShown
<1>10. CoverFresh'
  BY <1>0 DEF CoverFresh
<1>11. Compared'
  BY <1>0, <1>2, ComparedKept
<1> QED BY <1>2, <1>9, <1>10, <1>11 DEF DInv
----------------------------------------------------------------------------
(* The backfill of the filing index.                                       *)

Walks == [ciks : SUBSET Companies, cik : {NoDoc} \cup Companies, left : SUBSET Docs]

LEMMA WalkIdles ==
  ASSUME DInv, walk' \in Walks, walk'.left = {}, count' \in Counts,
         onEdgar' = onEdgar, tables' = tables, version' = version, view' = view,
         backfill' = backfill, builds' = builds
  PROVE  DInv'
<1>0. DocsTypeOK /\ DocsShown /\ CoverFresh /\ Compared
  BY DEF DInv
<1>1. DocsTypeOK'
  BY <1>0 DEF DocsTypeOK, Walks, Counts
<1>2. ASSUME NEW r \in Viewers PROVE Viewed(view[r])'
  <2>1. Viewed(view[r])
    BY <1>0 DEF DocsShown
  <2> QED BY <2>1 DEF Viewed, Honest
<1>3. ASSUME NEW c \in Companies, builds[c] < 2 PROVE IndexedOnce(c)'
  <2>1. IndexedOnce(c) /\ Indexed(c)' = Indexed(c)
    BY <1>0, <1>3 DEF DocsShown, Indexed
  <2> QED BY <2>1, OnceKept
<1>4. DocsShown'
  BY <1>0, <1>2, <1>3 DEF DocsShown
<1>5. CoverFresh'
  BY <1>0 DEF CoverFresh
<1>6. Compared'
  BY <1>0, <1>1, ComparedKept
<1> QED BY <1>1, <1>4, <1>5, <1>6 DEF DInv

LEMMA WalkFetchKeeps == DInv /\ WalkFetch => DInv'
<1> SUFFICES ASSUME DInv, WalkFetch PROVE DInv'
  OBVIOUS
<1>0. /\ DocsTypeOK /\ DocsShown /\ CoverFresh /\ Compared
      /\ UNCHANGED <<onEdgar, tables, version, view, backfill, count>>
      /\ walk.ciks \in SUBSET Companies /\ walk.ciks # {}
  BY DEF DInv, WalkFetch, DocsTypeOK
<1>1. PICK c \in walk.ciks : c = Min(walk.ciks)
  <2>1. walk.ciks \subseteq Nat
    BY <1>0
  <2> QED BY <1>0, <2>1, MinOf
<1>2. c \in Companies
  BY <1>0, <1>1
<1>3. PICK L \in SUBSET Docs :
        L = RecentlyFiled(c) /\ \A f \in L : f <= onEdgar /\ CompanyOf[f] = c
  BY <1>0, ListIsSolid
<1>4. walk' = [ciks |-> walk.ciks \ {c}, cik |-> c, left |-> L] /\ Written(c)
  BY <1>1, <1>3 DEF WalkFetch
<1>5. walk' \in Walks /\ walk'.cik = c /\ walk'.left = L
  BY <1>0, <1>2, <1>4 DEF Walks
<1>6. /\ builds' \in [Companies -> 0..2]
      /\ \A d \in Companies : builds'[d] < 2 => builds[d] < 2
      /\ builds'[c] # 0 /\ (builds'[c] < 2 => builds[c] = 0)
      /\ \A d \in Companies \ {c} : builds'[d] = builds[d]
  BY <1>0, <1>2, <1>4, WrittenOnce
<1>7. DocsTypeOK'
  BY <1>0, <1>5, <1>6 DEF DocsTypeOK, Walks
<1>8. ASSUME NEW r \in Viewers PROVE Viewed(view[r])'
  <2>1. PICK q \in ViewRecords : q = view[r] /\ Viewed(q)
    BY <1>0 DEF DocsTypeOK, DocsShown
  <2>2. onEdgar' \in Int /\ onEdgar <= onEdgar'
    BY <1>0 DEF DocsTypeOK
  <2>3. Viewed(q)'
    BY <1>0, <1>6, <2>1, <2>2, ViewedKept
  <2> QED BY <1>0, <2>1, <2>3
<1>9. ASSUME NEW d \in Companies, builds'[d] < 2 PROVE IndexedOnce(d)'
  <2>1. IndexedOnce(d) /\ Indexed(d)' = Indexed(d)
    BY <1>0, <1>6, <1>9 DEF DocsShown, Indexed
  <2>2. CASE d # c
    BY <1>0, <1>5, <1>6, <2>1, <2>2, OnceKept
  <2>3. CASE d = c
    <3>1. /\ Solid(Indexed(c), c)' /\ ToFollow(RecentlyFiled(c), c)'
          /\ \A r \in Viewers : ~(view[r].stage = "rows" /\ view[r].cik = c)
      BY <1>0, <1>2, <1>6, <1>9, <2>1, <2>3, FirstFetch
    <3>2. RecentlyFiled(c)' = L
      BY <1>0, <1>3 DEF RecentlyFiled, Newest
    <3>3. ToFollow(L, c)'
      BY <3>1, <3>2
    <3>4. ToFollow(walk.left, c)'
      BY <1>5, <3>3
    <3>5. IndexedOnce(c)'
      BY <1>0, <1>6, <3>1, <3>4 DEF IndexedOnce
    <3> QED BY <2>3, <3>5
  <2> QED BY <2>2, <2>3
<1>10. DocsShown'
  BY <1>0, <1>3, <1>5, <1>8, <1>9 DEF DocsShown
<1>11. CoverFresh'
  BY <1>0 DEF CoverFresh
<1>12. Compared'
  BY <1>0, <1>7, ComparedKept
<1> QED BY <1>7, <1>10, <1>11, <1>12 DEF DInv

LEMMA WalkRowKeeps == DInv /\ WalkRow => DInv'
<1> SUFFICES ASSUME DInv, WalkRow PROVE DInv'
  OBVIOUS
<1>0. /\ DocsTypeOK /\ DocsShown /\ CoverFresh /\ Compared
      /\ UNCHANGED <<onEdgar, version, view, backfill, builds, count>>
  BY DEF DInv, WalkRow
<1>1. PICK L \in SUBSET Docs, c \in Companies :
        L = walk.left /\ L # {} /\ c = walk.cik /\ \A f \in L : f <= onEdgar /\ CompanyOf[f] = c
  <2>1. PICK L \in SUBSET Docs : L = walk.left /\ L # {}
    BY <1>0 DEF DocsTypeOK, WalkRow
  <2>2. \A f \in L : f <= onEdgar /\ CompanyOf[f] = walk.cik
    BY <1>0, <2>1 DEF DocsShown
  <2>3. walk.cik \in Companies
    BY <2>1, <2>2
  <2> QED BY <2>1, <2>2, <2>3
<1>2. PICK x \in L : x = Max(L)
  <2>1. Docs \subseteq 0..NDocs
    BY DEF Docs
  <2> QED BY <1>1, <2>1, MaxOf
<1>3. /\ tables' = [tables EXCEPT !.index = @ \cup {x}]
      /\ walk' = [walk EXCEPT !.left = L \ {x}]
  BY <1>0, <1>1, <1>2 DEF WalkRow
<1>4. /\ tables' \in TableRecords /\ tables'.index = tables.index \cup {x}
      /\ tables'.cover = tables.cover /\ tables'.sections = tables.sections
      /\ tables'.similar = tables.similar
  BY <1>0, <1>1, <1>2, <1>3 DEF DocsTypeOK, TableRecords
<1>5. walk' \in Walks /\ walk'.cik = c /\ walk'.left = L \ {x}
  BY <1>0, <1>1, <1>3 DEF DocsTypeOK, Walks
<1>6. DocsTypeOK'
  BY <1>0, <1>4, <1>5 DEF DocsTypeOK, Walks
<1>7. ASSUME NEW r \in Viewers PROVE Viewed(view[r])'
  <2>1. Viewed(view[r])
    BY <1>0 DEF DocsShown
  <2> QED BY <1>0, <2>1 DEF Viewed, Honest
<1>8. ASSUME NEW d \in Companies, builds'[d] < 2 PROVE IndexedOnce(d)'
  <2>1. IndexedOnce(d)
    BY <1>0, <1>8 DEF DocsShown
  <2>2. CASE d # c
    <3>1. Indexed(d)' = Indexed(d)
      BY <1>1, <1>2, <1>4, <2>2, RowIsOfOne
    <3> QED BY <1>0, <1>5, <2>1, <2>2, <3>1, OnceKept
  <2>3. CASE d = c
    <3>1. /\ builds[c] # 0 /\ ToFollow(L, c) /\ Solid(Indexed(c), c)
          /\ \A s \in Viewers : ~(view[s].stage = "rows" /\ view[s].cik = c)
      BY <1>1, <2>1, <2>3 DEF IndexedOnce
    <3>2. Solid(Indexed(c), c)' /\ ToFollow(L \ {Max(L)}, c)'
      BY <1>0, <1>1, <1>2, <1>4, <3>1, RowFollows DEF DocsShown
    <3>3. ToFollow(walk.left, c)'
      BY <1>2, <1>5, <3>2
    <3>4. IndexedOnce(c)'
      BY <1>0, <3>1, <3>2, <3>3 DEF IndexedOnce
    <3> QED BY <2>3, <3>4
  <2> QED BY <2>2, <2>3
<1>9. tables'.index \subseteq 1..onEdgar
  <2>1. x \in Docs /\ x <= onEdgar /\ onEdgar \in Int
    BY <1>0, <1>1, <1>2 DEF DocsTypeOK
  <2>2. x \in 1..onEdgar
    BY <2>1 DEF Docs
  <2> QED BY <1>0, <1>4, <2>2 DEF DocsShown
<1>10. DocsShown'
  BY <1>0, <1>1, <1>5, <1>7, <1>8, <1>9 DEF DocsShown
<1>11. CoverFresh'
  BY <1>0, <1>4 DEF CoverFresh
<1>12. Compared'
  BY <1>0, <1>4, <1>6, ComparedKept
<1> QED BY <1>6, <1>10, <1>11, <1>12 DEF DInv

LEMMA WalkKeeps == DInv /\ Walk => DInv'
<1> SUFFICES ASSUME DInv, Walk PROVE DInv'
  OBVIOUS
<1>0. DocsTypeOK /\ NoWalk \in Walks /\ NoWalk.left = {}
  BY DEF DInv, NoWalk, Walks
<1>1. CASE WalkStart
  <2>1. walk' \in Walks /\ walk'.left = {}
    BY <1>0, <1>1 DEF WalkStart, NoWalk, Walks
  <2>2. count' \in Counts
    BY <1>0, <1>1 DEF WalkStart, DocsTypeOK, Counts
  <2> QED BY <1>1, <2>1, <2>2, WalkIdles DEF WalkStart
<1>2. CASE WalkFails
  <2>1. walk' = [walk EXCEPT !.ciks = walk.ciks \ {Min(walk.ciks)}] /\ walk.left = {}
    BY <1>0, <1>2 DEF WalkFails, DocsTypeOK
  <2>2. walk' \in Walks /\ walk'.left = {}
    BY <1>0, <2>1 DEF Walks, DocsTypeOK
  <2>3. count' \in Counts
    BY <1>0, <1>2 DEF WalkFails, DocsTypeOK, Counts
  <2> QED BY <1>2, <2>2, <2>3, WalkIdles DEF WalkFails
<1>3. CASE WalkEnds
  <2>1. count' \in Counts
    BY <1>0, <1>3 DEF WalkEnds, DocsTypeOK, Counts
  <2> QED BY <1>0, <1>3, <2>1, WalkIdles DEF WalkEnds
<1> QED BY <1>1, <1>2, <1>3, WalkFetchKeeps, WalkRowKeeps DEF Walk
----------------------------------------------------------------------------
(* The backfill of sections.                                               *)

LEMMA BackfillKeeps ==
  ASSUME DInv, backfill' \in BackfillRecords, tables' \in TableRecords, count' \in Counts,
         tables'.index = tables.index, tables'.cover = tables.cover, Compared',
         onEdgar' = onEdgar, version' = version, view' = view, walk' = walk, builds' = builds
  PROVE  DInv'
<1>0. DocsTypeOK /\ DocsShown /\ CoverFresh
  BY DEF DInv
<1>1. DocsTypeOK'
  BY <1>0 DEF DocsTypeOK, Counts
<1>2. ASSUME NEW r \in Viewers PROVE Viewed(view[r])'
  <2>1. Viewed(view[r])
    BY <1>0 DEF DocsShown
  <2> QED BY <2>1 DEF Viewed, Honest
<1>3. ASSUME NEW c \in Companies, builds[c] < 2 PROVE IndexedOnce(c)'
  <2>1. IndexedOnce(c) /\ Indexed(c)' = Indexed(c)
    BY <1>0, <1>3 DEF DocsShown, Indexed
  <2> QED BY <2>1, OnceKept
<1>4. DocsShown'
  BY <1>0, <1>2, <1>3 DEF DocsShown
<1>5. CoverFresh'
  BY <1>0 DEF CoverFresh
<1> QED BY <1>1, <1>4, <1>5 DEF DInv

LEMMA PriorSame ==
  ASSUME tables'.index = tables.index, NEW f
  PROVE  FindPrior(f)' = FindPrior(f)
BY DEF FindPrior, GetFilings, Indexed, Newest

LEMMA NextFilingIs ==
  ASSUME DocsTypeOK, backfill.left # {}
  PROVE  NextFiling \in backfill.left /\ \A g \in backfill.left : NextFiling <= g
<1>1. backfill.left \in SUBSET Docs /\ Docs \subseteq Nat
  BY DEF DocsTypeOK, BackfillRecords, Docs
<1> QED BY <1>1, MinOf DEF NextFiling, Oldest

(* The parts of what a run owes, while no filing is between two steps.     *)
LEMMA ComparedStays ==
  ASSUME DocsTypeOK, Compared, tables' = tables, version' = version,
         backfill' \in BackfillRecords, backfill'.stage \in {"idle", "company", "filing"},
         backfill'.done = backfill.done, backfill'.ciks \subseteq backfill.ciks,
         backfill'.left \subseteq tables.index,
         \A f \in backfill'.left : CompanyOf[f] \notin backfill'.ciks,
         \A f, g \in backfill'.left : CompanyOf[f] = CompanyOf[g],
         \A f \in backfill.done : \A g \in backfill'.left : CompanyOf[f] = CompanyOf[g] => f < g,
         backfill'.stage # "filing" => backfill'.left = {}
  PROVE  Compared'
<1>1. \A f : FindPrior(f)' = FindPrior(f) /\ Parsed(FindPrior(f))' = Parsed(FindPrior(f))
  BY PriorSame DEF Parsed
<1>2. ASSUME NEW f \in backfill.done, {f, FindPrior(f)'} \subseteq Prose,
             Parsed(FindPrior(f))'
      PROVE  tables'.similar[f] = FindPrior(f)'
  BY <1>1, <1>2 DEF Compared, Settled
<1> QED BY <1>2 DEF Compared, Settled

LEMMA TalliedKeeps ==
  ASSUME DInv, backfill.stage = "filing", backfill.left # {}, backfill' = Tallied(backfill),
         tables' = tables, version' = version, onEdgar' = onEdgar, view' = view,
         walk' = walk, builds' = builds, count' \in Counts
  PROVE  DInv'
<1>0. DocsTypeOK /\ Compared /\ tables \in TableRecords
  BY DEF DInv, DocsTypeOK
<1>1. PICK x \in backfill.left : x = NextFiling
  BY <1>0, NextFilingIs
<1>2. backfill' = [backfill EXCEPT !.stage = "filing", !.left = backfill.left \ {x}, !.prior = NoDoc]
  BY <1>0, <1>1 DEF Tallied, DocsTypeOK, BackfillRecords
<1>3. /\ backfill' \in BackfillRecords /\ backfill'.stage = "filing"
      /\ backfill'.left = backfill.left \ {x} /\ backfill'.done = backfill.done
      /\ backfill'.ciks = backfill.ciks
  <2>1. backfill \in BackfillRecords
    BY <1>0 DEF DocsTypeOK
  <2>2. PICK L \in SUBSET Docs : L = backfill.left \ {x}
    BY <2>1 DEF BackfillRecords
  <2>3. backfill' = [backfill EXCEPT !.stage = "filing", !.left = L, !.prior = NoDoc]
    BY <1>2, <2>2
  <2>4. backfill' \in BackfillRecords
    BY <2>1, <2>3 DEF BackfillRecords
  <2>5. /\ backfill'.stage = "filing" /\ backfill'.left = L
        /\ backfill'.done = backfill.done /\ backfill'.ciks = backfill.ciks
    BY <2>1, <2>3 DEF BackfillRecords
  <2> QED BY <2>2, <2>4, <2>5
<1>4. Compared'
  BY <1>0, <1>3, ComparedStays DEF Compared
<1> QED BY <1>0, <1>3, <1>4, BackfillKeeps

LEMMA BackfillCompanyKeeps == DInv /\ BackfillCompany => DInv'
<1> SUFFICES ASSUME DInv, BackfillCompany PROVE DInv'
  OBVIOUS
<1>0. /\ DocsTypeOK /\ Compared /\ tables \in TableRecords /\ count' \in Counts
      /\ backfill.stage = "company" /\ backfill.ciks # {}
      /\ UNCHANGED <<onEdgar, tables, version, view, walk, builds, count>>
  BY DEF DInv, DocsTypeOK, BackfillCompany, Counts
<1>1. PICK c \in backfill.ciks : c = Min(backfill.ciks)
  <2>1. backfill.ciks \subseteq Nat
    BY <1>0 DEF DocsTypeOK, BackfillRecords
  <2> QED BY <1>0, <2>1, MinOf
<1>2. PICK L \in SUBSET Docs :
        /\ L = GetFilings(c, SectionForms, Limit)
        /\ L \subseteq tables.index /\ \A f \in L : CompanyOf[f] = c
  BY <1>0, IndexedIs
<1>3. backfill' = [backfill EXCEPT !.stage = "filing", !.ciks = backfill.ciks \ {c}, !.left = L]
  BY <1>0, <1>1, <1>2 DEF BackfillCompany, DocsTypeOK, BackfillRecords
<1>4. /\ backfill' \in BackfillRecords /\ backfill'.stage = "filing"
      /\ backfill'.left = L /\ backfill'.done = backfill.done
      /\ backfill'.ciks = backfill.ciks \ {c}
  <2>1. PICK C \in SUBSET Companies : C = backfill.ciks \ {c}
    BY <1>0 DEF DocsTypeOK, BackfillRecords
  <2>2. backfill' = [backfill EXCEPT !.stage = "filing", !.ciks = C, !.left = L]
    BY <1>3, <2>1
  <2>3. backfill \in BackfillRecords
    BY <1>0 DEF DocsTypeOK
  <2>4. backfill' \in BackfillRecords
    BY <2>2, <2>3 DEF BackfillRecords
  <2>5. /\ backfill'.stage = "filing" /\ backfill'.left = L
        /\ backfill'.done = backfill.done /\ backfill'.ciks = C
    BY <2>2, <2>3 DEF BackfillRecords
  <2> QED BY <2>1, <2>4, <2>5
<1>5. \A f \in backfill.done : CompanyOf[f] # c
  BY <1>0, <1>1 DEF Compared
<1>6. Compared'
  BY <1>0, <1>2, <1>4, <1>5, ComparedStays
<1> QED BY <1>0, <1>4, <1>6, BackfillKeeps

LEMMA BackfillSectionsKeeps == DInv /\ BackfillSections => DInv'
<1> SUFFICES ASSUME DInv, BackfillSections PROVE DInv'
  OBVIOUS
<1>0. /\ DocsTypeOK /\ Compared /\ count' \in Counts
      /\ backfill.stage = "filing" /\ backfill.left # {}
      /\ backfill' = [backfill EXCEPT !.stage = "score"]
      /\ UNCHANGED <<onEdgar, version, view, walk, builds, count>>
  BY DEF DInv, DocsTypeOK, BackfillSections, Counts
<1>1. PICK x \in Docs : x = NextFiling /\ x \in backfill.left /\ x \in tables.index
  BY <1>0, NextFilingIs DEF Compared, DocsTypeOK, BackfillRecords
<1>2. tables' = [tables EXCEPT !.sections[x] = version.sections]
  BY <1>1 DEF BackfillSections
<1>3. tables.sections \in [Docs -> Nat] /\ version.sections \in Nat
  BY <1>0 DEF DocsTypeOK, TableRecords
<1>4. /\ tables' \in TableRecords /\ tables'.index = tables.index
      /\ tables'.cover = tables.cover /\ tables'.similar = tables.similar
      /\ tables'.sections = [tables.sections EXCEPT ![x] = version.sections]
  BY <1>0, <1>2, <1>3 DEF DocsTypeOK, TableRecords
<1>5. /\ backfill' \in BackfillRecords /\ backfill'.stage = "score"
      /\ backfill'.left = backfill.left /\ backfill'.done = backfill.done
      /\ backfill'.ciks = backfill.ciks
  BY <1>0 DEF DocsTypeOK, BackfillRecords
<1>6. ASSUME NEW f \in backfill.done, {f, FindPrior(f)'} \subseteq Prose,
             Parsed(FindPrior(f))'
      PROVE  tables'.similar[f] = FindPrior(f)'
  <2>0. f \in Docs
    BY <1>0 DEF DocsTypeOK, BackfillRecords
  <2>1. PICK p : p = FindPrior(f) /\ p = FindPrior(f)'
    BY <1>4, PriorSame
  <2>2. p \in Docs /\ p < f /\ CompanyOf[p] = CompanyOf[f]
    BY <1>0, <1>6, <2>0, <2>1, PriorIs DEF Parsed
  <2>3. p # x
    <3>1. CompanyOf[f] = CompanyOf[x] => f < x
      BY <1>0, <1>1 DEF Compared
    <3> QED BY <2>0, <2>2, <3>1 DEF Docs
  <2>4. Parsed(p)
    BY <1>0, <1>3, <1>4, <1>6, <2>1, <2>2, <2>3 DEF Parsed
  <2>5. {f, FindPrior(f)} \subseteq Prose /\ Parsed(FindPrior(f))
    BY <1>6, <2>1, <2>4
  <2>6. tables.similar[f] = FindPrior(f)
    BY <1>0, <1>6, <2>5 DEF Compared, Settled
  <2> QED BY <1>4, <2>1, <2>6
<1>7. \A f \in Docs : tables'.sections[f] # NoDoc => f \in tables'.index
  BY <1>0, <1>1, <1>3, <1>4 DEF Compared
<1>8. Compared'
  BY <1>0, <1>4, <1>5, <1>6, <1>7 DEF Compared, Settled
<1> QED BY <1>0, <1>4, <1>5, <1>8, BackfillKeeps

LEMMA BackfillScoreKeeps == DInv /\ BackfillScore => DInv'
<1> SUFFICES ASSUME DInv, BackfillScore PROVE DInv'
  OBVIOUS
<1>0. /\ DocsTypeOK /\ Compared /\ count' \in Counts /\ backfill.stage = "score"
      /\ UNCHANGED <<onEdgar, version, view, walk, builds, count>>
  BY DEF DInv, DocsTypeOK, BackfillScore, Counts
<1>1. PICK x \in Docs : x = NextFiling /\ x \in backfill.left
  <2>1. backfill.left # {} /\ backfill.left \subseteq Docs
    BY <1>0 DEF Compared, DocsTypeOK, BackfillRecords
  <2> QED BY <1>0, <2>1, NextFilingIs
<1>2. PICK p \in {NoDoc} \cup Docs : p = FindPrior(x)
  BY <1>0, PriorIs
<1>3. /\ backfill' = [backfill EXCEPT !.stage = "compare",
                                      !.prior = IF Parsed(p) THEN p ELSE NoDoc]
      /\ tables' = [tables EXCEPT !.metrics = tables.metrics \cup (Prose \cap {x})]
  BY <1>0, <1>1, <1>2 DEF BackfillScore, DocsTypeOK, TableRecords
<1>4. /\ tables' \in TableRecords /\ tables'.index = tables.index
      /\ tables'.cover = tables.cover /\ tables'.similar = tables.similar
      /\ tables'.sections = tables.sections
  BY <1>0, <1>3 DEF DocsTypeOK, TableRecords
<1>5. /\ backfill' \in BackfillRecords /\ backfill'.stage = "compare"
      /\ backfill'.left = backfill.left /\ backfill'.done = backfill.done
      /\ backfill'.ciks = backfill.ciks /\ (Parsed(p) => backfill'.prior = p)
  BY <1>0, <1>3 DEF DocsTypeOK, BackfillRecords
<1>6. \A f : FindPrior(f)' = FindPrior(f) /\ Parsed(FindPrior(f))' = Parsed(FindPrior(f))
  BY <1>0, <1>4, PriorSame DEF Parsed
<1>7. ASSUME NEW f \in backfill.done, {f, FindPrior(f)'} \subseteq Prose,
             Parsed(FindPrior(f))'
      PROVE  tables'.similar[f] = FindPrior(f)'
  BY <1>0, <1>4, <1>6, <1>7 DEF Compared, Settled
<1>8. Settled(NextFiling, backfill.prior)'
  <2>1. NextFiling' = x
    BY <1>1, <1>5 DEF NextFiling
  <2>2. Parsed(FindPrior(x))' => backfill'.prior = FindPrior(x)'
    BY <1>2, <1>5, <1>6
  <2> QED BY <2>1, <2>2 DEF Settled
<1>9. Compared'
  BY <1>0, <1>1, <1>4, <1>5, <1>7, <1>8 DEF Compared, Settled
<1> QED BY <1>0, <1>4, <1>5, <1>9, BackfillKeeps

LEMMA BackfillCompareKeeps == DInv /\ BackfillCompare => DInv'
<1> SUFFICES ASSUME DInv, BackfillCompare PROVE DInv'
  OBVIOUS
<1>0. /\ DocsTypeOK /\ Compared /\ count' \in Counts /\ backfill.stage = "compare"
      /\ UNCHANGED <<onEdgar, version, view, walk, builds, count>>
  BY DEF DInv, DocsTypeOK, BackfillCompare, Counts
<1>1. PICK x \in Docs :
        x = NextFiling /\ x \in backfill.left /\ \A g \in backfill.left : x <= g
  <2>1. backfill.left # {} /\ backfill.left \subseteq Docs
    BY <1>0 DEF Compared, DocsTypeOK, BackfillRecords
  <2> QED BY <1>0, <2>1, NextFilingIs
<1>2. PICK q \in {NoDoc} \cup Docs : q = backfill.prior
  BY <1>0 DEF DocsTypeOK, BackfillRecords
<1>3. /\ tables' = IF {x, q} \subseteq Prose THEN [tables EXCEPT !.similar[x] = q] ELSE tables
      /\ backfill' = [backfill EXCEPT !.stage = "filing", !.left = backfill.left \ {x},
                        !.prior = NoDoc, !.done = backfill.done \cup {x}]
  BY <1>0, <1>1, <1>2 DEF BackfillCompare, Tallied, DocsTypeOK, BackfillRecords
<1>4. tables.similar \in [Docs -> {NoDoc} \cup Docs]
  BY <1>0 DEF DocsTypeOK, TableRecords
<1>5. /\ tables' \in TableRecords /\ tables'.index = tables.index
      /\ tables'.cover = tables.cover /\ tables'.sections = tables.sections
      /\ tables'.similar = IF {x, q} \subseteq Prose THEN [tables.similar EXCEPT ![x] = q]
                           ELSE tables.similar
  BY <1>0, <1>3, <1>4 DEF DocsTypeOK, TableRecords
<1>6. /\ backfill' \in BackfillRecords /\ backfill'.stage = "filing"
      /\ backfill'.left = backfill.left \ {x} /\ backfill'.done = backfill.done \cup {x}
      /\ backfill'.ciks = backfill.ciks
  BY <1>0, <1>1, <1>3 DEF DocsTypeOK, BackfillRecords
<1>7. \A f : FindPrior(f)' = FindPrior(f) /\ Parsed(FindPrior(f))' = Parsed(FindPrior(f))
  BY <1>0, <1>5, PriorSame DEF Parsed
<1>8. backfill.done \subseteq Docs /\ x \notin backfill.done
  BY <1>0, <1>1 DEF DocsTypeOK, BackfillRecords, Compared, Docs
<1>9. ASSUME NEW f \in backfill'.done, {f, FindPrior(f)'} \subseteq Prose,
             Parsed(FindPrior(f))'
      PROVE  tables'.similar[f] = FindPrior(f)'
  <2>1. CASE f = x
    <3>1. q = FindPrior(x)
      BY <1>0, <1>1, <1>2, <1>7, <1>9, <2>1 DEF Compared, Settled
    <3>2. FindPrior(f)' = q
      BY <1>7, <2>1, <3>1
    <3>3. {x, q} \subseteq Prose
      BY <1>9, <2>1, <3>2
    <3>4. tables'.similar[x] = q
      BY <1>4, <1>5, <3>3
    <3> QED BY <2>1, <3>2, <3>4
  <2>2. CASE f # x
    <3>1. f \in backfill.done /\ f \in Docs /\ tables'.similar[f] = tables.similar[f]
      BY <1>4, <1>5, <1>6, <1>8, <2>2
    <3> QED BY <1>0, <1>7, <1>9, <3>1 DEF Compared, Settled
  <2> QED BY <2>1, <2>2
<1>10. ASSUME NEW f \in backfill'.done, NEW g \in backfill'.left, CompanyOf[f] = CompanyOf[g]
       PROVE  f < g
  <2>1. CASE f = x
    <3>1. x <= g /\ g # x /\ g \in Int /\ x \in Int
      BY <1>0, <1>1, <1>6 DEF DocsTypeOK, BackfillRecords, Docs
    <3> QED BY <2>1, <3>1
  <2>2. CASE f # x
    BY <1>0, <1>6, <1>10, <2>2 DEF Compared
  <2> QED BY <2>1, <2>2
<1>11. Compared'
  BY <1>0, <1>1, <1>5, <1>6, <1>9, <1>10 DEF Compared, Settled
<1> QED BY <1>0, <1>5, <1>6, <1>11, BackfillKeeps

LEMMA SectionsKeep == DInv /\ Sections => DInv'
<1> SUFFICES ASSUME DInv, Sections PROVE DInv'
  OBVIOUS
<1>0. DocsTypeOK /\ Compared /\ tables \in TableRecords /\ backfill \in BackfillRecords
  BY DEF DInv, DocsTypeOK
<1>1. CASE BackfillStart
  <2>1. PICK refresh \in BOOLEAN :
          backfill' = [NoBackfill EXCEPT !.stage = "company", !.ciks = Companies,
                                         !.refresh = refresh]
    BY <1>1 DEF BackfillStart
  <2>2. /\ backfill' \in BackfillRecords /\ backfill'.stage = "company"
        /\ backfill'.left = {} /\ backfill'.done = {}
    BY <2>1 DEF NoBackfill, BackfillRecords
  <2>3. count' \in Counts
    BY <1>0, <1>1 DEF BackfillStart, DocsTypeOK, Counts
  <2>4. Compared'
    BY <1>0, <1>1, <2>2, NothingCompared DEF BackfillStart
  <2> QED BY <1>0, <1>1, <2>2, <2>3, <2>4, BackfillKeeps DEF BackfillStart
<1>2. CASE BackfillSkip
  <2>1. count' \in Counts
    BY <1>0, <1>2 DEF BackfillSkip, DocsTypeOK, Counts
  <2> QED BY <1>2, <2>1, TalliedKeeps DEF BackfillSkip
<1>3. CASE BackfillFails
  <2>1. count' \in Counts
    BY <1>0, <1>3 DEF BackfillFails, DocsTypeOK, Counts
  <2> QED BY <1>3, <2>1, TalliedKeeps DEF BackfillFails
<1>4. CASE BackfillFilingsDone
  <2>1. PICK stage \in {"idle", "company"} :
          backfill' = [backfill EXCEPT !.stage = stage] /\ backfill.left = {}
    BY <1>4 DEF BackfillFilingsDone
  <2>2. /\ backfill' \in BackfillRecords /\ backfill'.stage = stage
        /\ backfill'.left = {} /\ backfill'.done = backfill.done
        /\ backfill'.ciks = backfill.ciks
    BY <1>0, <2>1 DEF BackfillRecords
  <2>3. count' \in Counts
    BY <1>0, <1>4 DEF BackfillFilingsDone, DocsTypeOK, Counts
  <2>4. Compared'
    BY <1>0, <1>4, <2>2, ComparedStays DEF BackfillFilingsDone
  <2> QED BY <1>0, <1>4, <2>2, <2>3, <2>4, BackfillKeeps DEF BackfillFilingsDone
<1>5. CASE BackfillBreaks
  <2>1. count' \in Counts
    BY <1>0, <1>5 DEF BackfillBreaks, DocsTypeOK, Counts
  <2>2. Compared'
    BY <1>0, <1>5, NothingCompared DEF BackfillBreaks
  <2> QED BY <1>0, <1>5, <2>1, <2>2, BackfillKeeps, NoBackfillIs DEF BackfillBreaks
<1> QED BY <1>1, <1>2, <1>3, <1>4, <1>5, BackfillCompanyKeeps, BackfillSectionsKeeps,
           BackfillScoreKeeps, BackfillCompareKeeps DEF Sections
----------------------------------------------------------------------------
(* The specification.                                                      *)

LEMMA DocsInitInv == DocsInit => DInv
<1> SUFFICES ASSUME DocsInit PROVE DInv
  OBVIOUS
<1>1. PICK q \in ViewRecords : q = NoView /\ q.cover = NoDoc /\ q.stage = "idle"
  <2>1. NoClaim \in Claims
    BY DEF NoClaim, Claims
  <2>2. NoView \in ViewRecords
    BY <2>1 DEF NoView, ViewRecords
  <2>3. NoView.cover = NoDoc /\ NoView.stage = "idle"
    BY DEF NoView
  <2> QED BY <2>2, <2>3
<1>2. \A r \in Viewers : view[r] = q
  BY <1>1 DEF DocsInit
<1>3. tables \in TableRecords /\ tables.index = {}
  BY DEF DocsInit, TableRecords, NoDoc
<1>4. DocsTypeOK
  <2>1. view \in [Viewers -> ViewRecords]
    BY <1>1 DEF DocsInit
  <2>2. backfill \in BackfillRecords
    BY NoBackfillIs DEF DocsInit
  <2> QED BY <1>3, <2>1, <2>2 DEF DocsInit, DocsTypeOK, NoWalk
<1>5. DocsShown
  <2>1. \A c \in Companies : IndexedOnce(c)
    <3>1. \A c \in Companies : Indexed(c) = {}
      BY <1>3 DEF Indexed
    <3> QED BY <1>1, <1>2, <3>1 DEF IndexedOnce, Solid, DocsInit, NoWalk
  <2>2. Viewed(q)
    BY <1>1, <1>4, NoViewIs
  <2> QED BY <1>1, <1>2, <1>3, <2>1, <2>2 DEF DocsShown, DocsInit, NoWalk
<1>6. CoverFresh
  BY <1>1, <1>2 DEF CoverFresh, DocsInit, NoDoc
<1>7. Compared
  BY DEF Compared, DocsInit, NoBackfill
<1> QED BY <1>4, <1>5, <1>6, <1>7 DEF DInv

LEMMA RequestsKeep == DInv /\ Request => DInv'
<1> SUFFICES ASSUME DInv, Request PROVE DInv'
  OBVIOUS
<1>1. PICK r \in Viewers :
        \/ \E k \in Kinds, c \in Companies : View(r, k, c)
        \/ FetchIndex(r) \/ WriteRow(r) \/ RowsWritten(r) \/ IndexFails(r)
        \/ FetchInstance(r) \/ ReplacePlans(r) \/ Reply(r) \/ ViewFails(r)
  BY DEF Request
<1>2. CASE \E k \in Kinds, c \in Companies : View(r, k, c)
  BY <1>2, ViewKeeps
<1>3. CASE FetchIndex(r)
  BY <1>3, FetchIndexKeeps
<1>4. CASE WriteRow(r)
  BY <1>4, WriteRowKeeps
<1>5. CASE RowsWritten(r) \/ IndexFails(r)
  BY <1>5, RowsWrittenKeeps
<1>6. CASE FetchInstance(r)
  BY <1>6, FetchInstanceKeeps
<1>7. CASE ReplacePlans(r)
  BY <1>7, ReplacePlansKeeps
<1>8. CASE Reply(r)
  BY <1>8, ReplyKeeps
<1>9. CASE ViewFails(r)
  BY <1>9, ViewFailsKeeps
<1> QED BY <1>1, <1>2, <1>3, <1>4, <1>5, <1>6, <1>7, <1>8, <1>9

LEMMA DocsStutterKeeps == DInv /\ UNCHANGED docsVars => DInv'
<1> SUFFICES ASSUME DInv, UNCHANGED docsVars PROVE DInv'
  OBVIOUS
<1>1. DocsTypeOK /\ Compared /\ CoverFresh /\ backfill \in BackfillRecords
      /\ tables \in TableRecords /\ count' \in Counts
  BY DEF DInv, DocsTypeOK, Counts, docsVars
<1>2. Compared'
  <2>1. NextFiling' = NextFiling
    BY DEF docsVars, NextFiling
  <2>2. \A f : FindPrior(f)' = FindPrior(f) /\ Parsed(FindPrior(f))' = Parsed(FindPrior(f))
    BY PriorSame DEF docsVars, Parsed
  <2>3. \A f \in backfill.done :
          {f, FindPrior(f)'} \subseteq Prose /\ Parsed(FindPrior(f))'
            => tables.similar[f] = FindPrior(f)'
    BY <1>1, <2>2 DEF Compared, Settled
  <2>4. backfill.stage = "compare" => Settled(NextFiling, backfill.prior)'
    BY <1>1, <2>1, <2>2 DEF Compared, Settled, docsVars
  <2> QED BY <1>1, <2>3, <2>4 DEF Compared, Settled, docsVars
<1> QED BY <1>1, <1>2, BackfillKeeps DEF docsVars

LEMMA DocsInvariant == DocsSpec => []DInv
<1>1. DInv /\ [DocsNext]_docsVars => DInv'
  BY FilesKeeps, RequestsKeep, ApiKilledKeeps, DeployKeeps, SectionsKeep, WalkKeeps,
     DocsStutterKeeps DEF DocsNext
<1> QED BY <1>1, DocsInitInv, PTL DEF DocsSpec

(* The tables refer to filings, and rows name versions of their schema;    *)
(* requests and runs keep their shapes.                                    *)
THEOREM DocsTypes == DocsSpec => []DocsTypeOK
<1>1. DInv => DocsTypeOK
  BY DEF DInv
<1> QED BY <1>1, DocsInvariant, PTL

(* "No event on file" over a reported window means that EDGAR has none in  *)
(* it, when the company's index was written once and no company has more   *)
(* 8-Ks than the 1000 rows that are read (filing_index.py:15-18).          *)
THEOREM AbsencesHonest ==
  ASSUME FewEvents
  PROVE  DocsSpec => []AbsenceIsHonest
<1>1. ASSUME DInv PROVE AbsenceIsHonest
  <2>1. SUFFICES ASSUME NEW r \in Viewers, view[r].kind # "supply", builds[view[r].cik] < 2,
                        NEW f \in 1..onEdgar, CompanyOf[f] = view[r].cik,
                        FormOf[f] \in view[r].claim.of,
                        view[r].claim.from <= f, f <= view[r].claim.to
                 PROVE  f \in view[r].claim.shows
    BY DEF AbsenceIsHonest, Answers, Missing
  <2>2. Viewed(view[r]) /\ onEdgar \in 0..NDocs
    BY <1>1 DEF DInv, DocsShown, DocsTypeOK
  <2>3. f \in Docs
    BY <2>2 DEF Docs
  <2>4. view[r].cik # NoDoc
    BY <2>1, <2>3 DEF NoDoc
  <2> QED BY <2>1, <2>2, <2>4 DEF Viewed, Honest
<1> QED BY <1>1, DocsInvariant, PTL

(* An answer about a cover page is of the fields that the running code     *)
(* reads: no row of an older release is taken for one of this one          *)
(* (sqlite_filing_cover_repository.py:200-202).                            *)
THEOREM CoversCurrent == DocsSpec => []CoverIsCurrent
<1>1. DInv => CoverIsCurrent
  BY DEF DInv, CoverFresh, CoverIsCurrent, Answers
<1> QED BY <1>1, DocsInvariant, PTL

(* A run that came to its end has compared each filing it parsed with the  *)
(* filing of that form before it, if that one is parsed                    *)
(* (section_backfill.py:151-155).                                          *)
THEOREM FilingsCompared == DocsSpec => []ComparedWhenBothParsed
<1>1. DInv => ComparedWhenBothParsed
  BY DEF DInv, Compared, Settled, ComparedWhenBothParsed
<1> QED BY <1>1, DocsInvariant, PTL
=============================================================================

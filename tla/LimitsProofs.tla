---------------------------- MODULE LimitsProofs ----------------------------
(***************************************************************************)
(* Proofs about the limits at both ends: what the API lets its callers do, *)
(* and what the program asks of the SEC.                                   *)
(*                                                                         *)
(* That the limiter, the quota and revocation of ApiGate hold for every    *)
(* set of callers, tiers, rates and quotas; and, about SecAccess, for any  *)
(* number of processes, tasks and any intervals, that the throttle keeps   *)
(* its rate and the requests see one map.                                  *)
(***************************************************************************)
EXTENDS ApiGate, SecAccess, SequenceTheorems, TLAPS

(* What a bucket and the window on its caller have together never exceeds  *)
(* what the rate has granted up to the last refill; of what came as our    *)
(* own pages' the bucket knows nothing.                                    *)
IBurst ==
  /\ Limited >= 0
  /\ Limited > 0 =>
    /\ buckets[window.of].last_refill >= window.from
    /\ Limited * Second + buckets[window.of].tokens
         <= window.rate * (Second + (buckets[window.of].last_refill - window.from))

(* A bucket has a token, or all that was refilled since it gave one.       *)
IStarved ==
  \A c \in Callers :
    \/ buckets[c] = NoBucket
    \/ buckets[c].tokens >= Second
    \/ buckets[c].tokens >= buckets[c].last_refill - spent[c]

IQuota == \A e \in Emails : Gated(e) <= used[e] /\ Gated(e) <= allotted[e]

IRevoked == \A e \in revoked : keys[e].issued /\ ~keys[e].active

----------------------------------------------------------------------------
(* Arithmetic.                                                             *)

(* Products of naturals grow with their factors.                           *)
LEMMA TimesMonotone ==
  ASSUME NEW a \in Nat, NEW b \in Nat, NEW x \in Nat, NEW y \in Nat,
         a <= b, x <= y
  PROVE  a * x <= b * y /\ a * x \in Nat /\ b * y \in Nat
<1>1. a * x \in Nat /\ b * y \in Nat /\ b * x \in Nat
  BY SMT
<1>2. PICK d \in Nat : b = a + d
  <2>1. b - a \in Nat /\ b = a + (b - a)
    BY SMT
  <2> QED BY <2>1
<1>3. PICK f \in Nat : y = x + f
  <2>1. y - x \in Nat /\ y = x + (y - x)
    BY SMT
  <2> QED BY <2>1
<1>4. b * x = a * x + d * x /\ d * x \in Nat
  BY <1>2, SMT
<1>5. b * y = b * x + b * f /\ b * f \in Nat
  BY <1>3, SMT
<1> QED BY <1>1, <1>4, <1>5, SMT

(* A rate of at least one refills at least a part a tick.                  *)
LEMMA RateAtLeastOne ==
  ASSUME NEW r \in Nat \ {0}, NEW x \in Nat
  PROVE  r * x \in Nat /\ x <= r * x /\ x * r = r * x
<1>1. 1 * x <= r * x /\ r * x \in Nat
  BY TimesMonotone
<1> QED BY <1>1, SMT

(* The rate of a caller is that of a tier, or of the anonymous.            *)
LEMMA RateOfCaller ==
  ASSUME TypeOK, NEW c \in Callers
  PROVE  RateOf(c) \in Nat \ {0}
<1> USE ApiGateAssumption
<1>1. CASE c \in Ips
  BY <1>1 DEF RateOf
<1>2. CASE c \notin Ips
  <2>1. keys[c].tier \in Tiers
    BY <1>2 DEF TypeOK, Callers, Records
  <2> QED BY <1>2, <2>1 DEF RateOf
<1> QED BY <1>1, <1>2

(* A bucket's shape.                                                       *)
LEMMA BucketShape ==
  ASSUME TypeOK, NEW c \in Callers
  PROVE  \/ buckets[c] = NoBucket
         \/ /\ buckets[c] # NoBucket
            /\ buckets[c].tokens \in Nat /\ buckets[c].last_refill \in Nat
            /\ now - buckets[c].last_refill \in Nat
<1>1. buckets[c] \in Buckets /\ buckets[c].last_refill <= now /\ now \in Nat
  BY DEF TypeOK
<1>2. CASE buckets[c] = NoBucket
  BY <1>2
<1>3. CASE buckets[c] # NoBucket
  <2>1. buckets[c] \in [tokens : Nat, last_refill : Nat]
    BY <1>1, <1>3 DEF Buckets
  <2>2. buckets[c].tokens \in Nat /\ buckets[c].last_refill \in Nat
    BY <2>1
  <2> QED BY <1>1, <1>3, <2>2, SMT
<1> QED BY <1>2, <1>3

(* The tokens there are at a request, with and without a bucket.           *)
LEMMA TokensBounded ==
  ASSUME TypeOK, NEW c \in Callers
  PROVE  /\ Tokens(c) \in Nat /\ Tokens(c) <= RateOf(c) * Second
         /\ RateOf(c) * Second \in Nat /\ Second <= RateOf(c) * Second
         /\ buckets[c] = NoBucket => Tokens(c) = RateOf(c) * Second
         /\ buckets[c] # NoBucket =>
              /\ (now - buckets[c].last_refill) * RateOf(c) \in Nat
              /\ now - buckets[c].last_refill
                   <= (now - buckets[c].last_refill) * RateOf(c)
              /\ Tokens(c) <= buckets[c].tokens
                                + (now - buckets[c].last_refill) * RateOf(c)
              /\ \/ Tokens(c) = RateOf(c) * Second
                 \/ Tokens(c) = buckets[c].tokens
                                  + (now - buckets[c].last_refill) * RateOf(c)
<1> DEFINE r == RateOf(c)
<1>1. r \in Nat \ {0}
  BY RateOfCaller
<1>2. r * Second \in Nat /\ Second <= r * Second
  <2>1. Second \in Nat
    BY ApiGateAssumption
  <2> QED BY <1>1, <2>1, RateAtLeastOne
<1>3. CASE buckets[c] = NoBucket
  BY <1>2, <1>3 DEF Tokens
<1>4. CASE buckets[c] # NoBucket
  <2> DEFINE x == now - buckets[c].last_refill
  <2>1. x \in Nat /\ buckets[c].tokens \in Nat
    BY <1>4, BucketShape
  <2>2. x * r \in Nat /\ x <= x * r
    BY <1>1, <2>1, RateAtLeastOne
  <2>3. Tokens(c) = Least(r * Second, buckets[c].tokens + x * r)
    BY <1>4 DEF Tokens
  <2> HIDE DEF x, r
  <2>4. /\ Tokens(c) \in Nat /\ Tokens(c) <= r * Second
        /\ Tokens(c) <= buckets[c].tokens + x * r
        /\ Tokens(c) = r * Second \/ Tokens(c) = buckets[c].tokens + x * r
    BY <1>2, <2>1, <2>2, <2>3, SMT DEF Least
  <2> QED BY <1>2, <1>4, <2>2, <2>4 DEF x, r
<1> QED BY <1>3, <1>4

(* What a request does to its caller's bucket.                             *)
LEMMA AllowShape ==
  ASSUME TypeOK, NEW c \in Callers, Allow(c)
  PROVE  LET taken == IF HasToken(c) THEN Second ELSE 0
         IN  /\ buckets' = [buckets EXCEPT ![c] = [tokens |-> Tokens(c) - taken,
                                                   last_refill |-> now]]
             /\ taken \in Nat /\ Tokens(c) - taken \in Nat
             /\ buckets' \in [Callers -> Buckets]
             /\ \A d \in Callers : buckets'[d].last_refill <= now
             /\ spent' \in [Callers -> Int] /\ \A d \in Callers : spent'[d] <= now
             /\ window' \in Windows /\ window'.from = window.from
<1> DEFINE taken == IF HasToken(c) THEN Second ELSE 0
           b == [tokens |-> Tokens(c) - taken, last_refill |-> now]
<1>1. buckets' = [buckets EXCEPT ![c] = b]
  BY DEF Allow
<1>2. now \in Nat /\ buckets \in [Callers -> Buckets] /\ spent \in [Callers -> Int]
      /\ window \in Windows
      /\ \A d \in Callers : buckets[d].last_refill <= now /\ spent[d] <= now
  BY DEF TypeOK
<1>3. taken \in Nat /\ Tokens(c) - taken \in Nat
  <2>1. Tokens(c) \in Nat /\ Second \in Nat
    BY TokensBounded, ApiGateAssumption
  <2> QED BY <2>1, SMT DEF HasToken
<1> HIDE DEF taken
<1>4. b \in Buckets
  BY <1>2, <1>3 DEF Buckets
<1>5. buckets' \in [Callers -> Buckets]
  BY <1>1, <1>2, <1>4
<1>6. ASSUME NEW d \in Callers PROVE buckets'[d].last_refill <= now
  <2>1. CASE d = c
    <3>1. buckets'[d].last_refill = now
      BY <1>1, <1>2, <2>1
    <3> QED BY <1>2, <3>1, SMT
  <2>2. CASE d # c
    BY <1>1, <1>2, <2>2
  <2> QED BY <2>1, <2>2
<1>7. spent' \in [Callers -> Int] /\ \A d \in Callers : spent'[d] <= now
  <2>1. CASE HasToken(c)
    <3>1. spent' = [spent EXCEPT ![c] = now]
      BY <2>1 DEF Allow
    <3>2. now \in Int /\ now <= now
      BY <1>2, SMT
    <3> QED BY <1>2, <3>1, <3>2
  <2>2. CASE ~HasToken(c)
    BY <1>2, <2>2 DEF Allow
  <2> QED BY <2>1, <2>2
<1>8. window' \in Windows /\ window'.from = window.from
  <2>1. window' = Watched(c)
    BY DEF Allow
  <2>2. CASE window.of # c
    BY <1>2, <2>1, <2>2 DEF Watched
  <2>3. CASE window.of = c
    <3> DEFINE p == IF HasToken(c) THEN window.passed + 1 ELSE window.passed
               r == Most(window.rate, RateOf(c))
    <3>1. window' = [window EXCEPT !.passed = p, !.rate = r]
      BY <2>1, <2>3 DEF Watched
    <3>2. p \in Nat /\ r \in Nat
      <4>1. window.passed \in Nat /\ window.rate \in Nat /\ RateOf(c) \in Nat
        BY <1>2, RateOfCaller DEF Windows
      <4> QED BY <4>1, SMT DEF Most
    <3> HIDE DEF p, r
    <3> QED BY <1>2, <3>1, <3>2 DEF Windows
  <2> QED BY <2>2, <2>3
<1> QED BY <1>1, <1>3, <1>5, <1>6, <1>7, <1>8 DEF taken

(* What comes as our own pages' counts twice in the window, or not at all. *)
LEMMA PageShape ==
  ASSUME TypeOK, NEW c \in Callers, LetThroughAsPage(c)
  PROVE  /\ UNCHANGED <<buckets, spent, now>>
         /\ window' \in Windows /\ window'.from = window.from
         /\ window'.of = window.of /\ window'.rate = window.rate
         /\ Limited' = Limited
<1>1. UNCHANGED <<buckets, spent, now>> /\ window \in Windows
  BY DEF LetThroughAsPage, clock, TypeOK
<1>2. CASE window.of # c
  <2>1. window' = window
    BY <1>2 DEF LetThroughAsPage
  <2> QED BY <1>1, <2>1 DEF Limited
<1>3. CASE window.of = c
  <2> DEFINE p == window.passed + 1
             q == window.pages + 1
  <2>1. window' = [window EXCEPT !.passed = p, !.pages = q]
    BY <1>3 DEF LetThroughAsPage
  <2>2. window.passed \in Nat /\ window.pages \in Nat
    BY <1>1 DEF Windows
  <2>3. p \in Nat /\ q \in Nat /\ p - q = window.passed - window.pages
    BY <2>2, SMT
  <2> HIDE DEF p, q
  <2>4. window'.passed = p /\ window'.pages = q
    BY <1>1, <2>1 DEF Windows
  <2>5. Limited' = Limited
    BY <2>3, <2>4 DEF Limited
  <2> QED BY <1>1, <2>1, <2>3, <2>5 DEF Windows
<1> QED BY <1>2, <1>3

(* Every step is a request of one caller, or comes as our own pages', or   *)
(* leaves the buckets and the window alone while time may pass, or opens a *)
(* window anew, in this process or in the next.                            *)
LEMMA StepKinds ==
  ASSUME Next
  PROVE  \/ \E c \in Callers : Allow(c) /\ now' = now
         \/ \E c \in Callers : LetThroughAsPage(c)
         \/ UNCHANGED <<buckets, spent, window>> /\ now' \in {now, now + 1}
         \/ UNCHANGED <<buckets, spent, now>> /\ window' = Opened
         \/ /\ buckets' = [c \in Callers |-> NoBucket] /\ window' = Opened
            /\ UNCHANGED <<spent, now>>
<1>1. CASE \E e \in Emails : RequestTooFast(e) \/ Request(e) \/ CountFails(e)
  BY <1>1 DEF RequestTooFast, Request, CountFails, clock, Callers
<1>2. CASE \E i \in Ips : Anonymous(i) \/ \E e \in Emails : Signup(e, i)
  BY <1>2 DEF Anonymous, Signup, clock, Callers
<1>3. CASE \E e \in Emails : RevokeKey(e) \/ \E t \in Tiers : ChangeTier(e, t)
  BY <1>3 DEF RevokeKey, ChangeTier, clock, history
<1>4. CASE Tick \/ Midnight
  BY <1>4 DEF Tick, Midnight, history
<1>5. CASE OpenWindow
  BY <1>5 DEF OpenWindow, clock
<1>6. CASE Restart
  BY <1>6 DEF Restart, clock
<1>7. CASE \E c \in Callers : FirstParty(c)
  BY <1>7 DEF FirstParty
<1>8. CASE \E e \in Emails, i \in Ips : FirstPartySignup(e, i)
  BY <1>8 DEF FirstPartySignup, Callers
<1> QED BY <1>1, <1>2, <1>3, <1>4, <1>5, <1>6, <1>7, <1>8 DEF Next

(* The limiter's part of the types.                                        *)
LimiterOK ==
  /\ buckets \in [Callers -> Buckets] /\ now \in Nat
  /\ spent \in [Callers -> Int]
  /\ window \in Windows /\ window.from <= now
  /\ \A c \in Callers : buckets[c].last_refill <= now /\ spent[c] <= now

LEMMA LimiterOKStep ==
  ASSUME TypeOK, Next
  PROVE  LimiterOK'
<1>1. LimiterOK
  BY DEF TypeOK, LimiterOK
<1>2. ASSUME NEW c \in Callers, Allow(c), now' = now
      PROVE  LimiterOK'
  <2>1. /\ buckets' \in [Callers -> Buckets]
        /\ \A d \in Callers : buckets'[d].last_refill <= now
        /\ spent' \in [Callers -> Int] /\ \A d \in Callers : spent'[d] <= now
        /\ window' \in Windows /\ window'.from = window.from
    BY <1>2, AllowShape, Zenon
  <2> QED BY <1>1, <1>2, <2>1 DEF LimiterOK
<1>7. ASSUME NEW c \in Callers, LetThroughAsPage(c)
      PROVE  LimiterOK'
  <2>1. /\ UNCHANGED <<buckets, spent, now>>
        /\ window' \in Windows /\ window'.from = window.from
    BY <1>7, PageShape, Zenon
  <2> QED BY <1>1, <2>1 DEF LimiterOK
<1>3. CASE UNCHANGED <<buckets, spent, window>> /\ now' \in {now, now + 1}
  <2>1. now' \in Nat /\ now <= now'
    BY <1>1, <1>3, SMT DEF LimiterOK
  <2>2. window.from \in Nat /\ window.from <= now'
    <3>1. window.from \in Nat /\ window.from <= now /\ now \in Nat
      BY <1>1 DEF LimiterOK, Windows
    <3> QED BY <2>1, <3>1, SMT
  <2>3. ASSUME NEW c \in Callers
        PROVE  buckets[c].last_refill <= now' /\ spent[c] <= now'
    <3>1. buckets[c].last_refill \in Int
      BY <1>1 DEF LimiterOK, Buckets, NoBucket
    <3>2. spent[c] \in Int /\ buckets[c].last_refill <= now /\ spent[c] <= now /\ now \in Nat
      BY <1>1 DEF LimiterOK
    <3> QED BY <2>1, <3>1, <3>2, SMT
  <2> QED BY <1>1, <1>3, <2>1, <2>2, <2>3 DEF LimiterOK
<1>4. ASSUME window' = Opened, UNCHANGED now
      PROVE  window' \in Windows /\ window'.from <= now
  <2>1. window.of \in Callers /\ now \in Nat
    BY <1>1 DEF LimiterOK, Windows
  <2>2. now <= now
    BY <2>1, SMT
  <2> QED BY <1>4, <2>1, <2>2 DEF Opened, Windows
<1>5. CASE UNCHANGED <<buckets, spent, now>> /\ window' = Opened
  BY <1>1, <1>4, <1>5 DEF LimiterOK
<1>6. CASE /\ buckets' = [c \in Callers |-> NoBucket] /\ window' = Opened
           /\ UNCHANGED <<spent, now>>
  <2>1. \A c \in Callers : buckets'[c].last_refill <= now
    <3>1. now \in Nat
      BY <1>1 DEF LimiterOK
    <3> QED BY <1>6, <3>1 DEF NoBucket
  <2>2. buckets' \in [Callers -> Buckets]
    BY <1>6 DEF Buckets
  <2> QED BY <1>1, <1>4, <1>6, <2>1, <2>2 DEF LimiterOK
<1> QED BY <1>2, <1>3, <1>5, <1>6, <1>7, StepKinds

(* The rows, the counters and the histories kept of them.                  *)
RowsOK ==
  /\ keys \in [Emails -> Records] /\ used \in [Emails -> Nat]
  /\ midnights \in Nat /\ faults \in Nat
  /\ let \in [Emails -> Nat] /\ pages \in [Emails -> Nat] /\ visits \in Nat
  /\ allotted \in [Emails -> Nat]
  /\ revoked \subseteq Emails

(* What comes as our own pages' adds to what is let through and to the     *)
(* pages', and to nothing that is counted or allotted.                     *)
LEMMA PageRows ==
  ASSUME TypeOK, NEW c \in Callers, LetThroughAsPage(c)
  PROVE  /\ UNCHANGED <<used, midnights, faults, allotted, revoked>>
         /\ let' \in [Emails -> Nat] /\ pages' \in [Emails -> Nat]
         /\ visits' \in Nat
         /\ \A e \in Emails : Gated(e)' = Gated(e) /\ Gated(e) \in Int
<1>1. let \in [Emails -> Nat] /\ pages \in [Emails -> Nat] /\ visits \in Nat
  BY DEF TypeOK
<1>2. UNCHANGED <<used, midnights, faults, allotted, revoked>>
  BY DEF LetThroughAsPage, clock
<1>3. visits' \in Nat
  BY <1>1, SMT DEF LetThroughAsPage
<1>4. CASE c \notin Emails
  <2>1. UNCHANGED <<let, pages>>
    BY <1>4 DEF LetThroughAsPage
  <2>2. \A e \in Emails : let[e] - pages[e] \in Int
    BY <1>1, SMT
  <2> QED BY <1>1, <1>2, <1>3, <2>1, <2>2 DEF Gated
<1>5. CASE c \in Emails
  <2>1. let' = [let EXCEPT ![c] = @ + 1] /\ pages' = [pages EXCEPT ![c] = @ + 1]
    BY <1>5 DEF LetThroughAsPage
  <2>2. let[c] + 1 \in Nat /\ pages[c] + 1 \in Nat
    BY <1>1, <1>5, SMT
  <2>3. let' \in [Emails -> Nat] /\ pages' \in [Emails -> Nat]
    BY <1>1, <2>1, <2>2
  <2>4. ASSUME NEW e \in Emails
        PROVE  let'[e] - pages'[e] = let[e] - pages[e] /\ let[e] - pages[e] \in Int
    <3>1. let[e] \in Nat /\ pages[e] \in Nat
      BY <1>1
    <3>2. CASE e = c
      <4>1. let'[e] = let[e] + 1 /\ pages'[e] = pages[e] + 1
        BY <1>1, <2>1, <3>2
      <4> QED BY <3>1, <4>1, SMT
    <3>3. CASE e # c
      <4>1. let'[e] = let[e] /\ pages'[e] = pages[e]
        BY <1>1, <2>1, <3>3
      <4> QED BY <3>1, <4>1, SMT
    <3> QED BY <3>2, <3>3
  <2> QED BY <1>2, <1>3, <2>3, <2>4 DEF Gated
<1> QED BY <1>4, <1>5

(* What a counted request does to the rows and their histories.            *)
LEMMA RequestRows ==
  ASSUME TypeOK, NEW e \in Emails, Request(e)
  PROVE  /\ used' = [used EXCEPT ![e] = @ + 1]
         /\ allotted' = [allotted EXCEPT ![e] = Most(@, Quota[keys[e].tier])]
         /\ let' = let \/ /\ let' = [let EXCEPT ![e] = @ + 1]
                          /\ used[e] + 1 <= Quota[keys[e].tier]
         /\ Quota[keys[e].tier] \in Nat
         /\ let[e] \in Nat /\ used[e] \in Nat /\ allotted[e] \in Nat
         /\ used' \in [Emails -> Nat] /\ allotted' \in [Emails -> Nat]
         /\ let' \in [Emails -> Nat]
         /\ UNCHANGED <<keys, revoked, midnights, faults, pages, visits>>
<1> USE ApiGateAssumption
<1> DEFINE q == Quota[keys[e].tier]
<1>1. q \in Nat /\ used[e] \in Nat /\ let[e] \in Nat /\ allotted[e] \in Nat
  <2>1. keys[e].tier \in Tiers
    BY DEF TypeOK, Records
  <2> QED BY <2>1 DEF TypeOK
<1>2. used' = [used EXCEPT ![e] = @ + 1] /\ UNCHANGED <<keys, revoked>>
      /\ allotted' = [allotted EXCEPT ![e] = Most(@, q)]
      /\ UNCHANGED <<midnights, faults, pages, visits>>
  BY DEF Request, clock
<1>3. \/ let' = let
      \/ let' = [let EXCEPT ![e] = @ + 1] /\ ~OverQuota(e)
  BY DEF Request
<1>4. ~OverQuota(e) => used[e] + 1 <= q
  BY <1>1, SMT DEF OverQuota
<1> HIDE DEF q
<1>5. Most(allotted[e], q) \in Nat /\ used[e] + 1 \in Nat /\ let[e] + 1 \in Nat
  BY <1>1, SMT DEF Most
<1>6. used' \in [Emails -> Nat] /\ allotted' \in [Emails -> Nat] /\ let' \in [Emails -> Nat]
  BY <1>2, <1>3, <1>5 DEF TypeOK
<1> QED BY <1>1, <1>2, <1>3, <1>4, <1>6 DEF q

LEMMA RowsOKStep ==
  ASSUME TypeOK, Next
  PROVE  RowsOK'
<1> USE ApiGateAssumption
<1>1. RowsOK
  BY DEF TypeOK, RowsOK
<1>2. ASSUME NEW e \in Emails, Request(e) PROVE RowsOK'
  BY <1>1, <1>2, RequestRows DEF RowsOK
<1>3. ASSUME NEW e \in Emails, RequestTooFast(e) PROVE RowsOK'
  BY <1>1, <1>3 DEF RequestTooFast, RowsOK, store, clock, passages
<1>4. ASSUME NEW e \in Emails, CountFails(e) PROVE RowsOK'
  <2>1. faults' \in Nat
    BY <1>1, <1>4, SMT DEF CountFails, RowsOK
  <2> QED BY <1>1, <1>4, <2>1 DEF CountFails, RowsOK, store, clock, passages
<1>5. ASSUME NEW i \in Ips, Anonymous(i) PROVE RowsOK'
  BY <1>1, <1>5 DEF Anonymous, RowsOK, store, clock, passages
<1>6. ASSUME NEW e \in Emails, NEW i \in Ips, Signup(e, i) PROVE RowsOK'
  <2>1. NewKey \in Records
    BY DEF NewKey, Records
  <2>2. keys' \in [Emails -> Records]
    BY <1>1, <1>6, <2>1 DEF Signup, CreateKey, RowsOK
  <2> QED BY <1>1, <1>6, <2>2 DEF Signup, RowsOK, clock, passages
<1>7. ASSUME NEW e \in Emails, NEW t \in Tiers, ChangeTier(e, t) PROVE RowsOK'
  <2>1. [keys[e] EXCEPT !.tier = t] \in Records
    BY <1>1 DEF RowsOK, Records
  <2>2. keys' = [keys EXCEPT ![e] = [keys[e] EXCEPT !.tier = t]]
    BY <1>7 DEF ChangeTier, UpdateTier
  <2>3. keys' \in [Emails -> Records]
    BY <1>1, <2>1, <2>2 DEF RowsOK
  <2> QED BY <1>1, <1>7, <2>3 DEF ChangeTier, RowsOK, clock, history, passages
<1>8. ASSUME NEW e \in Emails, RevokeKey(e) PROVE RowsOK'
  <2>1. [keys[e] EXCEPT !.active = FALSE] \in Records
    BY <1>1 DEF RowsOK, Records
  <2>2. keys' = [keys EXCEPT ![e] = [keys[e] EXCEPT !.active = FALSE]]
    BY <1>8 DEF RevokeKey
  <2>3. keys' \in [Emails -> Records]
    BY <1>1, <2>1, <2>2 DEF RowsOK
  <2> QED BY <1>1, <1>8, <2>3 DEF RevokeKey, RowsOK, clock, passages
<1>9. CASE Tick \/ OpenWindow
  BY <1>1, <1>9 DEF Tick, OpenWindow, RowsOK, store, clock, history, passages
<1>10. CASE Midnight
  <2>1. midnights' \in Nat
    BY <1>1, <1>10, SMT DEF Midnight, RowsOK
  <2> QED BY <1>1, <1>10, <2>1 DEF Midnight, RowsOK
<1>11. CASE Restart
  <2>1. faults' \in Nat
    BY <1>1, <1>11, SMT DEF Restart, RowsOK
  <2> QED BY <1>1, <1>11, <2>1 DEF Restart, CountsKept, RowsOK, clock, passages
<1>12. ASSUME NEW c \in Callers, FirstParty(c) PROVE RowsOK'
  BY <1>1, <1>12, PageRows DEF FirstParty, RowsOK
<1>13. ASSUME NEW e \in Emails, NEW i \in Ips, FirstPartySignup(e, i) PROVE RowsOK'
  <2>1. NewKey \in Records
    BY DEF NewKey, Records
  <2>2. keys' \in [Emails -> Records]
    BY <1>1, <1>13, <2>1 DEF FirstPartySignup, CreateKey, RowsOK
  <2>3. LetThroughAsPage(i) /\ i \in Callers
    BY <1>13 DEF FirstPartySignup, Callers
  <2> QED BY <1>1, <2>2, <2>3, PageRows DEF RowsOK
<1> QED BY <1>2, <1>3, <1>4, <1>5, <1>6, <1>7, <1>8, <1>9, <1>10, <1>11, <1>12, <1>13 DEF Next

LEMMA TypeOKParts == TypeOK <=> LimiterOK /\ RowsOK
  BY DEF TypeOK, LimiterOK, RowsOK

LEMMA TypeOKInit == Init => TypeOK
<1> SUFFICES ASSUME Init PROVE TypeOK
  OBVIOUS
<1> USE ApiGateAssumption
<1>1. NoKey \in Records /\ NoBucket \in Buckets
  BY DEF NoKey, Records, Buckets
<1>2. window \in Windows /\ window.from = 0
  BY DEF Init, Windows
<1>3. -Second \in Int /\ -Second <= 0 /\ -1 <= 0 /\ 0 <= 0
  BY SMT
<1>4. buckets = [c \in Callers |-> NoBucket] /\ spent = [c \in Callers |-> -Second]
      /\ now = 0
  BY DEF Init
<1>5. \A c \in Callers : buckets[c].last_refill <= now /\ spent[c] <= now
  BY <1>3, <1>4 DEF NoBucket
<1> QED BY <1>1, <1>2, <1>3, <1>4, <1>5 DEF Init, TypeOK

(* The rows, the buckets and the counters keep their shapes.               *)
THEOREM TypeCorrect == Spec => []TypeOK
<1>1. TypeOK /\ [Next]_vars => TypeOK'
  <2> SUFFICES ASSUME TypeOK, [Next]_vars PROVE TypeOK'
    OBVIOUS
  <2>1. CASE Next
    BY <2>1, LimiterOKStep, RowsOKStep DEF TypeOK, LimiterOK, RowsOK
  <2>2. CASE UNCHANGED vars
    BY <2>2 DEF vars, store, clock, history, passages, TypeOK
  <2> QED BY <2>1, <2>2
<1> QED BY TypeOKInit, <1>1, PTL DEF Spec

----------------------------------------------------------------------------
(* The window.                                                             *)

LEMMA IBurstStep ==
  ASSUME TypeOK, Next, IBurst
  PROVE  IBurst'
<1>1. ASSUME NEW c \in Callers, Allow(c), now' = now
      PROVE  IBurst'
  <2> DEFINE taken == IF HasToken(c) THEN Second ELSE 0
  <2>1. /\ buckets' = [buckets EXCEPT ![c] = [tokens |-> Tokens(c) - taken,
                                              last_refill |-> now]]
        /\ taken \in Nat /\ Tokens(c) - taken \in Nat
    BY <1>1, AllowShape, Zenon
  <2>2. window' = Watched(c) /\ buckets \in [Callers -> Buckets] /\ window \in Windows
    BY <1>1 DEF Allow, TypeOK
  <2>3. CASE window.of # c
    <3>1. window' = window /\ buckets'[window.of] = buckets[window.of]
      BY <2>1, <2>2, <2>3 DEF Watched, Windows
    <3> QED BY <3>1 DEF IBurst, Limited
  <2>4. CASE window.of = c
    <3> DEFINE r == RateOf(c)
               R == Most(window.rate, r)
               p == Limited
               P == IF HasToken(c) THEN p + 1 ELSE p
               Q == IF HasToken(c) THEN window.passed + 1 ELSE window.passed
               since == now - window.from
    <3>1. window' = [window EXCEPT !.passed = Q, !.rate = R]
      BY <2>2, <2>4 DEF Watched
    <3>2. Limited' = P /\ window'.rate = R /\ window'.of = c
          /\ window'.from = window.from
      <4>1. window'.passed = Q /\ window'.pages = window.pages /\ window'.rate = R
            /\ window'.of = c /\ window'.from = window.from
        BY <2>2, <2>4, <3>1 DEF Windows
      <4>2. Q - window.pages = P
        <5>1. window.passed \in Nat /\ window.pages \in Nat
          BY <2>2 DEF Windows
        <5> QED BY <5>1, SMT DEF Limited
      <4> QED BY <4>1, <4>2 DEF Limited
    <3>3. buckets'[c].last_refill = now /\ buckets'[c].tokens = Tokens(c) - taken
      BY <2>1, <2>2
    <3>4. /\ p \in Nat /\ window.rate \in Nat /\ window.from \in Nat /\ now \in Nat
          /\ since \in Nat
      <4>1. window.rate \in Nat /\ window.from \in Nat /\ now \in Nat
            /\ window.from <= now /\ window.passed \in Nat /\ window.pages \in Nat
        BY DEF TypeOK, Windows
      <4>2. p \in Int /\ p >= 0
        BY <4>1, SMT DEF IBurst, Limited
      <4> QED BY <4>1, <4>2, SMT
    <3>5. r \in Nat \ {0} /\ Second \in Nat \ {0}
      BY RateOfCaller, ApiGateAssumption
    <3>6. R \in Nat /\ r <= R /\ window.rate <= R
      BY <3>4, <3>5, SMT DEF Most
    <3>7. P > 0 => P * Second + (Tokens(c) - taken) <= R * (Second + since)
      <4>1. /\ Tokens(c) \in Nat /\ Tokens(c) <= r * Second /\ r * Second \in Nat
        BY TokensBounded
      <4>2. P * Second + (Tokens(c) - taken) = p * Second + Tokens(c)
            /\ p * Second \in Nat
        <5>1. CASE HasToken(c)
          BY <3>4, <3>5, <4>1, <5>1, SMT
        <5>2. CASE ~HasToken(c)
          BY <3>4, <3>5, <4>1, <5>2, SMT
        <5> QED BY <5>1, <5>2
      <4>3. CASE p = 0
        <5>1. r * Second <= R * (Second + since)
          <6>1. Second + since \in Nat /\ Second <= Second + since
            BY <3>4, <3>5, SMT
          <6> QED BY <3>5, <3>6, <6>1, TimesMonotone
        <5>2. R * (Second + since) \in Nat /\ p * Second = 0
          BY <3>4, <3>5, <3>6, <4>3, SMT
        <5> HIDE DEF r, R, since
        <5> QED BY <4>1, <4>2, <5>1, <5>2, SMT
      <4>4. CASE p > 0
        <5> DEFINE b == buckets[c]
                   x == now - b.last_refill
                   s == b.last_refill - window.from
                   w == window.rate
        <5>1. b.last_refill >= window.from /\ p * Second + b.tokens <= w * (Second + s)
          BY <2>4, <4>4 DEF IBurst
        <5>2. b # NoBucket
          BY <3>4, <5>1, SMT DEF NoBucket
        <5>3. b.tokens \in Nat /\ b.last_refill \in Nat /\ x \in Nat
          BY <5>2, BucketShape
        <5>4. s \in Nat /\ since = s + x
          BY <3>4, <5>1, <5>3, SMT
        <5>5. Tokens(c) <= b.tokens + x * r /\ x * r \in Nat
          BY <5>2, TokensBounded
        <5>6. w * (Second + s) <= R * (Second + s) /\ w * (Second + s) \in Nat
              /\ R * (Second + s) \in Nat
          <6>1. Second + s \in Nat /\ Second + s <= Second + s
            BY <3>5, <5>4, SMT
          <6> QED BY <3>4, <3>6, <6>1, TimesMonotone
        <5>7. x * r <= x * R /\ x * R \in Nat
          <6>1. x <= x
            BY <5>3, SMT
          <6> QED BY <3>5, <3>6, <5>3, <6>1, TimesMonotone
        <5>8. R * (Second + since) = R * (Second + s) + x * R
          BY <3>5, <3>6, <5>3, <5>4, SMT
        <5> HIDE DEF b, x, s, w, r, R, since
        <5> QED BY <4>1, <4>2, <5>1, <5>3, <5>5, <5>6, <5>7, <5>8, SMT
      <4> HIDE DEF r, R, since, P
      <4> QED BY <3>4, <4>3, <4>4, SMT
    <3>8. now >= window.from
      BY <3>4, SMT
    <3>9. P >= 0
      BY <3>4, SMT
    <3> HIDE DEF P, R, r, p, taken
    <3> QED BY <3>2, <3>3, <3>7, <3>8, <3>9 DEF IBurst
  <2> QED BY <2>3, <2>4
<1>2. CASE UNCHANGED <<buckets, spent, window>> /\ now' \in {now, now + 1}
  BY <1>2 DEF IBurst, Limited
<1>3. CASE window' = Opened
  BY <1>3, SMT DEF IBurst, Opened, Limited
<1>4. ASSUME NEW c \in Callers, LetThroughAsPage(c) PROVE IBurst'
  <2>1. UNCHANGED buckets /\ Limited' = Limited /\ window'.from = window.from
        /\ window'.of = window.of /\ window'.rate = window.rate
    BY <1>4, PageShape, Zenon
  <2> QED BY <2>1 DEF IBurst
<1> QED BY <1>1, <1>2, <1>3, <1>4, StepKinds

(* Over idle times, refusals, page loads and changes of tier, a caller     *)
(* gets no more than a second's burst and what its rate allows since, not  *)
(* counting what it was let through as our own pages are.                  *)
THEOREM BurstIsBounded == Spec => []BurstBounded
<1>1. Init => IBurst
  BY SMT DEF Init, IBurst, Limited
<1>2. TypeOK /\ IBurst /\ [Next]_vars => IBurst'
  <2> SUFFICES ASSUME TypeOK, IBurst, [Next]_vars PROVE IBurst'
    OBVIOUS
  <2>1. CASE UNCHANGED vars
    BY <2>1 DEF vars, history, IBurst, Limited
  <2> QED BY <2>1, IBurstStep
<1>3. TypeOK /\ IBurst => BurstBounded
  <2> SUFFICES ASSUME TypeOK, IBurst PROVE BurstBounded
    OBVIOUS
  <2> DEFINE p == Limited
             r == window.rate
             b == buckets[window.of]
  <2>1. /\ p \in Nat /\ r \in Nat /\ window.from \in Nat /\ now \in Nat
        /\ window.from <= now /\ window.of \in Callers /\ Second \in Nat
    <3>1. /\ r \in Nat /\ window.from \in Nat /\ now \in Nat
          /\ window.from <= now /\ window.of \in Callers /\ Second \in Nat
          /\ window.passed \in Nat /\ window.pages \in Nat
      BY ApiGateAssumption DEF TypeOK, Windows
    <3>2. p \in Int /\ p >= 0
      BY <3>1, SMT DEF IBurst, Limited
    <3> QED BY <3>1, <3>2, SMT
  <2>2. CASE p = 0
    <3>1. r * (Second + (now - window.from)) \in Nat /\ p * Second = 0
      <4>1. Second + (now - window.from) \in Nat
        BY <2>1, SMT
      <4> QED BY <2>1, <2>2, <4>1, SMT
    <3> HIDE DEF p, r
    <3> QED BY <3>1, SMT DEF BurstBounded, p, r
  <2>3. CASE p > 0
    <3> DEFINE s == b.last_refill - window.from
               n == now - window.from
    <3>1. b.last_refill >= window.from /\ p * Second + b.tokens <= r * (Second + s)
      BY <2>3 DEF IBurst
    <3>2. b # NoBucket
      BY <2>1, <3>1, SMT DEF NoBucket
    <3>3. b.tokens \in Nat /\ b.last_refill \in Nat /\ b.last_refill <= now
      BY <2>1, <3>2, BucketShape DEF TypeOK
    <3>4. Second + s \in Nat /\ Second + n \in Nat /\ Second + s <= Second + n
          /\ p * Second \in Nat /\ r <= r
      BY <2>1, <3>1, <3>3, SMT
    <3>5. r * (Second + s) <= r * (Second + n)
          /\ r * (Second + s) \in Nat /\ r * (Second + n) \in Nat
      BY <2>1, <3>4, TimesMonotone
    <3>6. p * Second <= r * (Second + n)
      <4> HIDE DEF s, n, p, r, b
      <4> QED BY <3>1, <3>3, <3>4, <3>5, SMT
    <3> QED BY <3>6 DEF BurstBounded
  <2> HIDE DEF p
  <2> QED BY <2>1, <2>2, <2>3, SMT
<1> QED BY TypeCorrect, <1>1, <1>2, <1>3, PTL DEF Spec

----------------------------------------------------------------------------
(* Starvation.                                                             *)

LEMMA IStarvedStep ==
  ASSUME TypeOK, Next, IStarved
  PROVE  IStarved'
<1>1. ASSUME NEW c \in Callers, Allow(c)
      PROVE  IStarved'
  <2> DEFINE taken == IF HasToken(c) THEN Second ELSE 0
  <2>1. /\ buckets' = [buckets EXCEPT ![c] = [tokens |-> Tokens(c) - taken,
                                              last_refill |-> now]]
        /\ Tokens(c) - taken \in Nat
    BY <1>1, AllowShape, Zenon
  <2>2. buckets \in [Callers -> Buckets] /\ spent \in [Callers -> Int]
        /\ now \in Nat /\ Second \in Nat
    BY ApiGateAssumption DEF TypeOK
  <2>3. spent' = IF HasToken(c) THEN [spent EXCEPT ![c] = now] ELSE spent
    BY <1>1 DEF Allow
  <2> SUFFICES ASSUME NEW d \in Callers
               PROVE  \/ buckets'[d] = NoBucket
                      \/ buckets'[d].tokens >= Second
                      \/ buckets'[d].tokens >= buckets'[d].last_refill - spent'[d]
    BY DEF IStarved
  <2>4. CASE d # c
    <3>1. buckets'[d] = buckets[d] /\ spent'[d] = spent[d]
      BY <2>1, <2>2, <2>3, <2>4
    <3> QED BY <3>1 DEF IStarved
  <2>5. CASE d = c /\ HasToken(c)
    <3>1. buckets'[d].tokens \in Nat /\ buckets'[d].last_refill = now /\ spent'[d] = now
      BY <2>1, <2>2, <2>3, <2>5
    <3> QED BY <2>2, <3>1, SMT
  <2>6. CASE d = c /\ ~HasToken(c)
    <3> DEFINE x == now - buckets[c].last_refill
               r == RateOf(c)
    <3>1. /\ buckets'[d].tokens = Tokens(c) - taken
          /\ buckets'[d].last_refill = now
          /\ spent'[d] = spent[c] /\ taken = 0
      BY <2>1, <2>2, <2>3, <2>6
    <3>2. Tokens(c) \in Nat /\ Tokens(c) < Second /\ Second <= r * Second
          /\ r * Second \in Nat
      <4>1. Tokens(c) \in Nat /\ Second <= r * Second /\ r * Second \in Nat
        BY TokensBounded
      <4> HIDE DEF r
      <4> QED BY <2>2, <2>6, <4>1, SMT DEF HasToken
    <3>3. buckets[c] # NoBucket
      <4>1. buckets[c] = NoBucket => Tokens(c) = r * Second
        BY TokensBounded
      <4> HIDE DEF r
      <4> QED BY <2>2, <3>2, <4>1, SMT
    <3>4. /\ x * r \in Nat /\ x <= x * r
          /\ Tokens(c) = r * Second \/ Tokens(c) = buckets[c].tokens + x * r
      BY <3>3, TokensBounded
    <3>5. buckets[c].tokens \in Nat /\ buckets[c].last_refill \in Nat /\ x \in Nat
      BY <3>3, BucketShape
    <3>6. \/ buckets[c].tokens >= Second
          \/ buckets[c].tokens >= buckets[c].last_refill - spent[c]
      BY <3>3 DEF IStarved
    <3>7. Tokens(c) = buckets[c].tokens + x * r
      <4> HIDE DEF x, r
      <4> QED BY <2>2, <3>2, <3>4, SMT
    <3>8. spent[c] \in Int
      BY <2>2
    <3>9. Tokens(c) >= now - spent[c]
      <4> DEFINE y == x * r
      <4>1. y \in Nat /\ x <= y /\ Tokens(c) = buckets[c].tokens + y
        BY <3>4, <3>7
      <4> HIDE DEF y
      <4> QED BY <2>2, <3>2, <3>5, <3>6, <3>8, <4>1, SMT
    <3>10. Tokens(c) - taken = Tokens(c)
      BY <3>1, <3>2, SMT
    <3> QED BY <3>1, <3>9, <3>10
  <2> QED BY <2>4, <2>5, <2>6
<1>2. CASE UNCHANGED <<buckets, spent>>
  BY <1>2 DEF IStarved
<1>3. CASE buckets' = [c \in Callers |-> NoBucket]
  BY <1>3 DEF IStarved
<1>4. ASSUME NEW c \in Callers, LetThroughAsPage(c) PROVE IStarved'
  BY <1>4 DEF LetThroughAsPage, IStarved
<1> QED BY <1>1, <1>2, <1>3, <1>4, StepKinds

(* Whoever got nothing for a second has a token, whatever happened.        *)
THEOREM NobodyIsStarved == Spec => []NobodyStarved
<1>1. Init => IStarved
  BY DEF Init, IStarved
<1>2. TypeOK /\ IStarved /\ [Next]_vars => IStarved'
  <2> SUFFICES ASSUME TypeOK, IStarved, [Next]_vars PROVE IStarved'
    OBVIOUS
  <2>1. CASE UNCHANGED vars
    BY <2>1 DEF vars, history, IStarved
  <2> QED BY <2>1, IStarvedStep
<1>3. TypeOK /\ IStarved => NobodyStarved
  <2> SUFFICES ASSUME TypeOK, IStarved, NEW c \in Callers, now - spent[c] >= Second
               PROVE  HasToken(c)
    BY DEF NobodyStarved
  <2> DEFINE x == now - buckets[c].last_refill
             r == RateOf(c)
  <2>1. /\ Tokens(c) \in Nat /\ Second <= r * Second /\ r * Second \in Nat
    BY TokensBounded
  <2>2. Second \in Nat /\ spent[c] \in Int /\ now \in Nat
    BY ApiGateAssumption DEF TypeOK
  <2>3. CASE Tokens(c) = r * Second
    <3> HIDE DEF r
    <3> QED BY <2>1, <2>2, <2>3, SMT DEF HasToken
  <2>4. CASE Tokens(c) # r * Second
    <3>1. buckets[c] # NoBucket
      BY <2>4, TokensBounded
    <3>2. x * r \in Nat /\ x <= x * r /\ Tokens(c) = buckets[c].tokens + x * r
      BY <2>4, <3>1, TokensBounded
    <3>3. buckets[c].tokens \in Nat /\ buckets[c].last_refill \in Nat /\ x \in Nat
      BY <3>1, BucketShape
    <3>4. \/ buckets[c].tokens >= Second
          \/ buckets[c].tokens >= buckets[c].last_refill - spent[c]
      BY <3>1 DEF IStarved
    <3> DEFINE y == x * r
    <3>5. y \in Nat /\ x <= y /\ Tokens(c) = buckets[c].tokens + y
      BY <3>2
    <3> HIDE DEF y
    <3> QED BY <2>1, <2>2, <3>3, <3>4, <3>5, SMT DEF HasToken
  <2> QED BY <2>3, <2>4
<1> QED BY TypeCorrect, <1>1, <1>2, <1>3, PTL DEF Spec

----------------------------------------------------------------------------
(* The quota and revocation.                                               *)

(* No request but our own pages' is let through uncounted, nor beyond the  *)
(* largest quota of the day.                                               *)
THEOREM QuotaIsKept == Spec => []QuotaHolds
<1>1. Init => IQuota
  <2>1. 0 <= 0
    BY SMT
  <2>2. Init => /\ used = [e \in Emails |-> 0] /\ let = [e \in Emails |-> 0]
                /\ pages = [e \in Emails |-> 0] /\ allotted = [e \in Emails |-> 0]
    BY DEF Init
  <2>3. Init => \A e \in Emails : Gated(e) = 0
    <3>1. 0 - 0 = 0
      BY SMT
    <3> QED BY <2>2, <3>1 DEF Gated
  <2> QED BY <2>1, <2>2, <2>3, Zenon DEF IQuota
<1>2. TypeOK /\ IQuota /\ [Next]_vars => IQuota'
  <2> SUFFICES ASSUME TypeOK, IQuota, [Next]_vars PROVE IQuota'
    OBVIOUS
  <2>1. ASSUME NEW e \in Emails, Request(e) PROVE IQuota'
    <3> DEFINE q == Quota[keys[e].tier]
    <3>1. /\ used' = [used EXCEPT ![e] = @ + 1]
          /\ allotted' = [allotted EXCEPT ![e] = Most(@, q)]
          /\ let' = let \/ (let' = [let EXCEPT ![e] = @ + 1] /\ used[e] + 1 <= q)
          /\ q \in Nat /\ let[e] \in Nat /\ used[e] \in Nat /\ allotted[e] \in Nat
          /\ pages' = pages
      BY <2>1, RequestRows, Zenon
    <3>2. /\ let \in [Emails -> Nat] /\ used \in [Emails -> Nat]
          /\ allotted \in [Emails -> Nat] /\ pages \in [Emails -> Nat]
      BY DEF TypeOK
    <3> HIDE DEF q
    <3> SUFFICES ASSUME NEW f \in Emails
                 PROVE  /\ let'[f] - pages'[f] <= used'[f]
                        /\ let'[f] - pages'[f] <= allotted'[f]
      BY DEF IQuota, Gated
    <3>3. let[f] - pages[f] <= used[f] /\ let[f] - pages[f] <= allotted[f]
      BY DEF IQuota, Gated
    <3>4. CASE f # e
      <4>1. let'[f] = let[f] /\ used'[f] = used[f] /\ allotted'[f] = allotted[f]
        BY <3>1, <3>2, <3>4
      <4> QED BY <3>1, <3>3, <4>1
    <3>5. CASE f = e
      <4>1. used'[f] = used[e] + 1 /\ allotted'[f] = Most(allotted[e], q)
            /\ (let'[f] = let[e] \/ (let'[f] = let[e] + 1 /\ used[e] + 1 <= q))
            /\ pages'[f] = pages[e] /\ pages[e] \in Nat
        BY <3>1, <3>2, <3>5
      <4> QED BY <3>1, <3>3, <3>5, <4>1, SMT DEF Most
    <3> QED BY <3>4, <3>5
  <2>2. CASE Midnight
    <3>1. /\ used' = [e \in Emails |-> 0] /\ let' = [e \in Emails |-> 0]
          /\ pages' = [e \in Emails |-> 0] /\ allotted' = [e \in Emails |-> 0]
      BY <2>2 DEF Midnight
    <3>2. 0 - 0 <= 0
      BY SMT
    <3> QED BY <3>1, <3>2 DEF IQuota, Gated
  <2>3. CASE UNCHANGED <<used, let, pages, allotted>>
    BY <2>3 DEF IQuota, Gated
  <2>4. ASSUME NEW e \in Emails, RequestTooFast(e) \/ CountFails(e) \/ RevokeKey(e)
        PROVE  UNCHANGED <<used, let, pages, allotted>>
    BY <2>4 DEF RequestTooFast, CountFails, RevokeKey, store, passages
  <2>5. ASSUME NEW i \in Ips, Anonymous(i) \/ \E e \in Emails : Signup(e, i)
        PROVE  UNCHANGED <<used, let, pages, allotted>>
    BY <2>5 DEF Anonymous, Signup, store, passages
  <2>6. ASSUME NEW e \in Emails, NEW t \in Tiers, ChangeTier(e, t)
        PROVE  UNCHANGED <<used, let, pages, allotted>>
    BY <2>6 DEF ChangeTier, history, passages
  <2>7. CASE Tick \/ OpenWindow \/ Restart \/ UNCHANGED vars
    <3>1. UNCHANGED <<used, let, pages, allotted>>
      BY <2>7 DEF Tick, OpenWindow, Restart, CountsKept, vars, store, history, passages
    <3> QED BY <2>3, <3>1
  <2>8. ASSUME NEW c \in Callers, LetThroughAsPage(c) PROVE IQuota'
    <3>1. UNCHANGED <<used, allotted>> /\ \A e \in Emails : Gated(e)' = Gated(e)
      BY <2>8, PageRows, Zenon
    <3> QED BY <3>1 DEF IQuota
  <2>9. ASSUME \/ \E c \in Callers : FirstParty(c)
               \/ \E e \in Emails, i \in Ips : FirstPartySignup(e, i)
        PROVE  IQuota'
    BY <2>8, <2>9 DEF FirstParty, FirstPartySignup, Callers
  <2> QED BY <2>1, <2>2, <2>3, <2>4, <2>5, <2>6, <2>7, <2>9 DEF Next
<1>3. IQuota => QuotaHolds
  BY DEF IQuota, QuotaHolds
<1> QED BY TypeCorrect, <1>1, <1>2, <1>3, PTL DEF Spec

(* A step lets a request with this key through at most as our own page's.  *)
OnlyAsPage(f) == let'[f] > let[f] => pages'[f] > pages[f]

LEMMA IRevokedStep ==
  ASSUME TypeOK, IRevoked, [Next]_vars
  PROVE  IRevoked' /\ \A f \in revoked : OnlyAsPage(f)
<1>1. keys \in [Emails -> Records] /\ revoked \subseteq Emails
      /\ let \in [Emails -> Nat] /\ pages \in [Emails -> Nat]
  BY DEF TypeOK
<1>2. ASSUME NEW f \in revoked, let'[f] = let[f] PROVE OnlyAsPage(f)
  <2>1. let[f] \in Nat
    BY <1>1
  <2> QED BY <1>2, <2>1, SMT DEF OnlyAsPage
<1>3. ASSUME UNCHANGED <<keys, revoked, let>>
      PROVE  IRevoked' /\ \A f \in revoked : OnlyAsPage(f)
  BY <1>2, <1>3 DEF IRevoked
<1>4. ASSUME NEW e \in Emails, Request(e)
      PROVE  IRevoked' /\ \A f \in revoked : OnlyAsPage(f)
  <2>1. e \notin revoked /\ UNCHANGED <<keys, revoked>>
    BY <1>4 DEF Request, IRevoked
  <2>2. let' = let \/ let' = [let EXCEPT ![e] = @ + 1]
    BY <1>4 DEF Request
  <2>3. \A f \in revoked : let'[f] = let[f]
    BY <1>1, <2>1, <2>2
  <2> QED BY <1>2, <2>1, <2>3 DEF IRevoked
<1>5. ASSUME NEW e \in Emails, RequestTooFast(e) \/ CountFails(e)
      PROVE  UNCHANGED <<keys, revoked, let>>
  BY <1>5 DEF RequestTooFast, CountFails, store, passages
<1>6. ASSUME NEW i \in Ips, Anonymous(i)
      PROVE  UNCHANGED <<keys, revoked, let>>
  BY <1>6 DEF Anonymous, store, passages
<1>7. ASSUME NEW e \in Emails, CreateKey(e), UNCHANGED revoked
      PROVE  IRevoked'
  <2>1. keys' = keys \/ (keys' = [keys EXCEPT ![e] = NewKey] /\ ~keys[e].issued)
    BY <1>7 DEF CreateKey
  <2>2. \A f \in revoked : keys'[f] = keys[f]
    BY <1>1, <2>1 DEF IRevoked
  <2> QED BY <1>7, <2>2 DEF IRevoked
<1>8. ASSUME NEW e \in Emails, NEW i \in Ips, Signup(e, i)
      PROVE  IRevoked' /\ \A f \in revoked : OnlyAsPage(f)
  <2>1. UNCHANGED <<revoked, let>> /\ (CreateKey(e) \/ UNCHANGED keys)
    BY <1>8 DEF Signup, passages
  <2> QED BY <1>2, <1>3, <1>7, <2>1
<1>9. ASSUME NEW c \in Callers, LetThroughAsPage(c), NEW f \in revoked
      PROVE  OnlyAsPage(f)
  <2>1. CASE c \notin Emails
    BY <1>2, <1>9, <2>1 DEF LetThroughAsPage
  <2>2. CASE c \in Emails /\ f # c
    BY <1>1, <1>2, <1>9, <2>2 DEF LetThroughAsPage
  <2>3. CASE c \in Emails /\ f = c
    <3>1. pages'[f] = pages[f] + 1 /\ pages[f] \in Nat
      BY <1>1, <1>9, <2>3 DEF LetThroughAsPage
    <3> QED BY <3>1, SMT DEF OnlyAsPage
  <2> QED BY <2>1, <2>2, <2>3
<1>10. ASSUME NEW c \in Callers, FirstParty(c)
       PROVE  IRevoked' /\ \A f \in revoked : OnlyAsPage(f)
  <2>1. UNCHANGED <<keys, revoked>> /\ LetThroughAsPage(c)
    BY <1>10 DEF FirstParty, LetThroughAsPage
  <2> QED BY <1>9, <2>1 DEF IRevoked
<1>11. ASSUME NEW e \in Emails, NEW i \in Ips, FirstPartySignup(e, i)
       PROVE  IRevoked' /\ \A f \in revoked : OnlyAsPage(f)
  <2>1. UNCHANGED revoked /\ CreateKey(e) /\ LetThroughAsPage(i) /\ i \in Callers
    BY <1>11 DEF FirstPartySignup, LetThroughAsPage, Callers
  <2> QED BY <1>7, <1>9, <2>1
<1>12. ASSUME NEW e \in Emails, NEW t \in Tiers, ChangeTier(e, t)
       PROVE  IRevoked' /\ \A f \in revoked : OnlyAsPage(f)
  <2>1. keys' = [keys EXCEPT ![e] = [keys[e] EXCEPT !.tier = t]]
    BY <1>12 DEF ChangeTier, UpdateTier
  <2>2. UNCHANGED <<revoked, let>>
    BY <1>12 DEF ChangeTier, history, passages
  <2>3. [keys[e] EXCEPT !.tier = t].issued = keys[e].issued
        /\ [keys[e] EXCEPT !.tier = t].active = keys[e].active
    BY <1>1 DEF Records
  <2>4. \A f \in revoked : keys'[f].issued = keys[f].issued
                           /\ keys'[f].active = keys[f].active
    BY <1>1, <2>1, <2>3
  <2> QED BY <1>2, <2>2, <2>4 DEF IRevoked
<1>13. ASSUME NEW e \in Emails, RevokeKey(e)
       PROVE  IRevoked' /\ \A f \in revoked : OnlyAsPage(f)
  <2>1. keys' = [keys EXCEPT ![e] = [keys[e] EXCEPT !.active = FALSE]]
        /\ keys[e].issued /\ revoked' = revoked \cup {e} /\ let' = let
    BY <1>13 DEF RevokeKey, passages
  <2>2. [keys[e] EXCEPT !.active = FALSE].issued = keys[e].issued
        /\ ~[keys[e] EXCEPT !.active = FALSE].active
    BY <1>1 DEF Records
  <2>3. \A f \in revoked' : keys'[f].issued /\ ~keys'[f].active
    BY <1>1, <2>1, <2>2 DEF IRevoked
  <2> QED BY <1>2, <2>1, <2>3 DEF IRevoked
<1>14. CASE Midnight
  <2>1. \A f \in revoked : let'[f] = 0 /\ let[f] \in Nat
    BY <1>1, <1>14 DEF Midnight
  <2>2. \A f \in revoked : OnlyAsPage(f)
    BY <2>1, SMT DEF OnlyAsPage
  <2>3. UNCHANGED <<keys, revoked>>
    BY <1>14 DEF Midnight
  <2> QED BY <2>2, <2>3 DEF IRevoked
<1>15. CASE Tick \/ OpenWindow \/ Restart \/ UNCHANGED vars
  <2>1. UNCHANGED <<keys, revoked, let>>
    BY <1>15 DEF Tick, OpenWindow, Restart, vars, store, history, passages
  <2> QED BY <1>3, <2>1
<1> QED
  BY <1>3, <1>4, <1>5, <1>6, <1>8, <1>10, <1>11, <1>12, <1>13, <1>14, <1>15
  DEF Next

(* A request with a revoked key is let through only as our own pages are.  *)
THEOREM RevocationIsFinal == Spec => RevokedStaysOut
<1>1. Init => IRevoked
  BY DEF Init, IRevoked
<1>2. TypeOK /\ IRevoked /\ [Next]_vars => IRevoked'
  BY IRevokedStep
<1>3. TypeOK /\ IRevoked /\ [Next]_vars
        => [\A e \in revoked : let'[e] > let[e] => pages'[e] > pages[e]]_vars
  BY IRevokedStep DEF OnlyAsPage
<1> QED BY TypeCorrect, <1>1, <1>2, <1>3, PTL DEF Spec, RevokedStaysOut

----------------------------------------------------------------------------
(***************************************************************************)
(* SecAccess.  The inductive invariant adds to the types who may be at the *)
(* map's load (the holder of its lock, and only while the map is stale)    *)
(* and how the meter runs: what has been sent is paid for by the time      *)
(* since the count was opened, less what the throttle still owes.          *)
(***************************************************************************)

\* Only the holder of the map's lock loads it, and only a stale one.
LoaderHolds ==
  \A t \in Tasks :
    /\ stage[t] \in {"lock", "turn", "wire"} => Home[t] = Api
    /\ stage[t] \in {"turn", "wire"} => lock # <<>> /\ Head(lock) = t /\ age = Ttl

Metered ==
  meter.of \in Procs =>
    (meter.sent - 1 - meter.boots) * Interval + gap[meter.of] <= meter.elapsed

Idle0 == meter.of = NoProc => meter.sent = 0 /\ meter.boots = 0

AccessInv == AccessTypeOK /\ LoaderHolds /\ Metered /\ Idle0

USE DEF Meters

LEMMA OneIntervalMore ==
  ASSUME NEW n \in Int, NEW i \in Int
  PROVE  (n + 1) * i = n * i + i
BY SMT

LEMMA OneIntervalLess ==
  ASSUME NEW n \in Int, NEW i \in Int
  PROVE  (n - 1) * i = n * i - i
BY SMT

LEMMA NegativeIsPaid ==
  ASSUME NEW b \in Nat, NEW i \in Nat
  PROVE  (0 - 1 - b) * i <= 0
<1>1. (0 - 1 - b) * i = 0 - (1 + b) * i
  BY SMT
<1>2. (1 + b) * i >= 0
  BY SMT
<1> QED
  BY <1>1, <1>2, SMT

LEMMA InitAccessInv == AccessInit => AccessInv
<1> SUFFICES ASSUME AccessInit PROVE AccessInv
  OBVIOUS
<1> USE SecAssumption
<1>1. AccessTypeOK
  <2>1. meter \in Meters
    BY SMT DEF AccessInit, NoCount
  <2>2. lock \in Seq(Tasks) /\ line \in [Procs -> Seq(Tasks)]
    BY DEF AccessInit
  <2>3. age \in 0..Ttl /\ gap \in [Procs -> 0..Interval]
    BY SMT DEF AccessInit
  <2>4. stage \in [Tasks -> Stages]
    BY DEF AccessInit, Stages
  <2> QED
    BY <2>1, <2>2, <2>3, <2>4 DEF AccessTypeOK
<1>2. LoaderHolds
  BY DEF AccessInit, LoaderHolds
<1>3. meter.of = NoProc /\ meter.sent = 0 /\ meter.boots = 0
  BY DEF AccessInit, NoCount
<1> QED
  BY <1>1, <1>2, <1>3 DEF AccessInv, Metered, Idle0

-----------------------------------------------------------------------------
(* What an action may do to the meter: nothing, or what its name says. *)

LEMMA MeterKept ==
  ASSUME AccessInv, UNCHANGED <<gap, meter>>
  PROVE  Metered' /\ Idle0'
BY DEF AccessInv, Metered, Idle0

LEMMA MeterGrant ==
  ASSUME AccessInv, NEW t \in Tasks, Grant(t)
  PROVE  Metered' /\ Idle0' /\ meter' \in Meters
<1> USE SecAssumption
<1> DEFINE p == Home[t]
<1>1. p \in Procs
  OBVIOUS
<1>2. gap[p] = Interval /\ gap' = [gap EXCEPT ![p] = 0] /\ gap \in [Procs -> 0..Interval]
  BY <1>1, SMT DEF AccessInv, AccessTypeOK, Grant, DelayOver
<1>3. meter' = Counted(p)
  BY DEF Grant
<1>4. meter \in Meters
  BY DEF AccessInv, AccessTypeOK
<1>5. CASE meter.of = p
  <2>1. meter' = [meter EXCEPT !.sent = @ + 1]
    BY <1>3, <1>5 DEF Counted
  <2>2. /\ meter'.of = p /\ meter'.sent = meter.sent + 1
        /\ meter'.boots = meter.boots /\ meter'.elapsed = meter.elapsed
    BY <1>4, <1>5, <2>1
  <2>3. meter' \in Meters
    BY <1>4, <2>1, SMT
  <2>4. (meter.sent - 1 - meter.boots) * Interval + Interval <= meter.elapsed
    BY <1>1, <1>2, <1>5, SMT DEF AccessInv, Metered
  <2>5. meter.sent \in Int /\ meter.boots \in Int /\ Interval \in Int /\ meter.elapsed \in Int
    BY <1>4, SMT
  <2>6. (meter.sent - 1 - meter.boots + 1) * Interval = (meter.sent - 1 - meter.boots) * Interval + Interval
    BY <2>5, OneIntervalMore, SMT
  <2>7. (meter.sent + 1) - 1 - meter.boots = meter.sent - 1 - meter.boots + 1
    BY <2>5, SMT
  <2>8. gap'[p] = 0
    BY <1>1, <1>2
  <2>9. (meter'.sent - 1 - meter'.boots) * Interval + gap'[p] <= meter'.elapsed
    <3>1. (meter'.sent - 1 - meter'.boots) * Interval
            = (meter.sent - 1 - meter.boots) * Interval + Interval
      BY <2>2, <2>6, <2>7
    <3> HIDE DEF p
    <3> QED
      BY <3>1, <2>2, <2>4, <2>5, <2>8, SMT
  <2>10. p # NoProc
    BY <1>1
  <2> QED
    BY <2>2, <2>3, <2>9, <2>10 DEF Metered, Idle0
<1>6. CASE meter.of # p
  <2>1. meter' = meter
    BY <1>3, <1>6 DEF Counted
  <2>2. gap'[meter.of] = gap[meter.of] \/ meter.of \notin Procs
    BY <1>1, <1>2, <1>6
  <2> QED
    BY <1>4, <2>1, <2>2 DEF AccessInv, Metered, Idle0
<1> QED
  BY <1>5, <1>6

LEMMA MeterRestart ==
  ASSUME AccessInv, NEW p \in Procs, RestartProcess(p)
  PROVE  Metered' /\ Idle0' /\ meter' \in Meters
<1> USE SecAssumption
<1>2. gap' = [gap EXCEPT ![p] = Interval] /\ gap \in [Procs -> 0..Interval]
  BY DEF AccessInv, AccessTypeOK, RestartProcess
<1>4. meter \in Meters
  BY DEF AccessInv, AccessTypeOK
<1>5. CASE meter.of = p
  <2>1. meter' = [meter EXCEPT !.boots = @ + 1] /\ meter.boots < MaxBoots
    BY <1>5 DEF RestartProcess
  <2>2. /\ meter'.of = p /\ meter'.sent = meter.sent
        /\ meter'.boots = meter.boots + 1 /\ meter'.elapsed = meter.elapsed
    BY <1>4, <1>5, <2>1
  <2>3. meter' \in Meters
    BY <1>4, <2>1, SMT
  <2>5. /\ meter.sent \in Int /\ meter.boots \in Int /\ Interval \in Nat /\ meter.elapsed \in Int
        /\ gap[p] \in Nat
    BY <1>2, <1>4, SMT
  <2>4. (meter.sent - 1 - meter.boots) * Interval <= meter.elapsed
    <3>1. (meter.sent - 1 - meter.boots) * Interval + gap[p] <= meter.elapsed
      BY <1>5 DEF AccessInv, Metered
    <3>2. (meter.sent - 1 - meter.boots) * Interval \in Int
      BY <2>5, SMT
    <3> QED
      BY <2>5, <3>1, <3>2, SMT
  <2>6. ((meter.sent - 1 - meter.boots) - 1) * Interval = (meter.sent - 1 - meter.boots) * Interval - Interval
    BY <2>5, OneIntervalLess, SMT
  <2>7. meter.sent - 1 - (meter.boots + 1) = (meter.sent - 1 - meter.boots) - 1
    BY <2>5, SMT
  <2>8. gap'[p] = Interval
    BY <1>2
  <2>9. (meter'.sent - 1 - meter'.boots) * Interval + gap'[p] <= meter'.elapsed
    <3>1. (meter'.sent - 1 - meter'.boots) * Interval
            = (meter.sent - 1 - meter.boots) * Interval - Interval
      BY <2>2, <2>6, <2>7
    <3>2. (meter.sent - 1 - meter.boots) * Interval \in Int
      BY <2>5, SMT
    <3> QED
      BY <3>1, <3>2, <2>2, <2>4, <2>5, <2>8, SMT
  <2> QED
    BY <2>2, <2>3, <2>9 DEF Metered, Idle0
<1>6. CASE meter.of # p
  <2>1. meter' = meter
    BY <1>6 DEF RestartProcess
  <2>2. gap'[meter.of] = gap[meter.of] \/ meter.of \notin Procs
    BY <1>2, <1>6
  <2> QED
    BY <1>4, <2>1, <2>2 DEF AccessInv, Metered, Idle0
<1> QED
  BY <1>5, <1>6

LEMMA MeterOpen ==
  ASSUME AccessInv, NEW p \in Procs, OpenCount(p)
  PROVE  Metered' /\ Idle0' /\ meter' \in Meters
<1> USE SecAssumption
<1>1. meter' = [of |-> p, elapsed |-> 0, sent |-> 0, boots |-> 0] /\ gap' = gap
  BY DEF OpenCount, NoCount
<1>2. meter' \in Meters
  BY <1>1, SMT
<1>3. gap[p] \in 0..Interval
  BY DEF AccessInv, AccessTypeOK
<1>4. (0 - 1 - 0) * Interval + gap[p] <= 0
  BY <1>3, SMT
<1> QED
  BY <1>1, <1>2, <1>4 DEF Metered, Idle0

LEMMA MeterTick ==
  ASSUME AccessInv, SecondPasses
  PROVE  Metered' /\ Idle0' /\ meter' \in Meters
<1> USE SecAssumption
<1>1. gap' = [q \in Procs |-> Capped(gap[q], Interval)] /\ gap \in [Procs -> 0..Interval]
  BY DEF SecondPasses, AccessInv, AccessTypeOK
<1>2. meter \in Meters
  BY DEF AccessInv, AccessTypeOK
<1>3. CASE meter.of = NoProc
  <2>1. meter' = meter
    BY <1>3 DEF SecondPasses
  <2> QED
    BY <1>2, <1>3, <2>1 DEF AccessInv, Metered, Idle0
<1>4. CASE meter.of # NoProc /\ meter.elapsed < Window
  <2>1. meter' = [meter EXCEPT !.elapsed = @ + 1]
    BY <1>4 DEF SecondPasses
  <2>2. /\ meter'.of = meter.of /\ meter'.sent = meter.sent
        /\ meter'.boots = meter.boots /\ meter'.elapsed = meter.elapsed + 1
    BY <1>2, <2>1
  <2>3. meter' \in Meters
    <3>1. meter.elapsed + 1 \in 0..Window
      BY <1>2, <1>4, SMT
    <3> QED
      BY <1>2, <2>1, <3>1
  <2>4. meter.of \in Procs
    BY <1>2, <1>4
  <2>5. gap'[meter.of] <= gap[meter.of] + 1 /\ gap'[meter.of] \in Int /\ gap[meter.of] \in Int
    BY <1>1, <2>4, SMT DEF Capped
  <2>6. (meter.sent - 1 - meter.boots) * Interval + gap[meter.of] <= meter.elapsed
    BY <2>4 DEF AccessInv, Metered
  <2>7. (meter.sent - 1 - meter.boots) * Interval \in Int /\ meter.elapsed \in Int
    BY <1>2, SMT
  <2>8. (meter'.sent - 1 - meter'.boots) * Interval + gap'[meter'.of] <= meter'.elapsed
    BY <2>2, <2>5, <2>6, <2>7, SMT
  <2> QED
    BY <1>4, <2>2, <2>3, <2>8 DEF Metered, Idle0
<1>5. CASE meter.of # NoProc /\ ~(meter.elapsed < Window)
  <2>1. meter' = NoCount
    BY <1>5 DEF SecondPasses
  <2>2. meter' \in Meters
    BY <2>1, SMT DEF NoCount
  <2>3. meter'.of = NoProc /\ meter'.sent = 0 /\ meter'.boots = 0
    BY <2>1 DEF NoCount
  <2> QED
    BY <2>2, <2>3 DEF Metered, Idle0
<1> QED
  BY <1>3, <1>4, <1>5

-----------------------------------------------------------------------------
(* The types and the holder of the map's lock, action by action.           *)

LEMMA QueueTypes ==
  ASSUME NEW S, NEW q \in Seq(S), NEW e \in S
  PROVE  /\ Append(q, e) \in Seq(S) /\ Append(q, e) # <<>>
         /\ q # <<>> => Tail(q) \in Seq(S) /\ Head(Append(q, e)) = Head(q)
BY HeadTailProperties, AppendProperties, HeadTailAppend

LEMMA MapStep ==
  ASSUME AccessInv, NEW t \in Tasks,
         Ask(t) \/ FoundFresh(t) \/ Refresh(t) \/ Loaded(t) \/ LoadFails(t)
  PROVE  AccessTypeOK' /\ LoaderHolds'
<1> USE SecAssumption DEF AccessInv, AccessTypeOK, LoaderHolds
<1>1. CASE Ask(t)
  <2>1. Append(lock, t) \in Seq(Tasks) /\ Append(lock, t) # <<>>
        /\ (lock # <<>> => Head(Append(lock, t)) = Head(lock))
    BY QueueTypes, Zenon
  <2> QED
    BY <1>1, <2>1 DEF Ask, Stages, Readers
<1>2. CASE FoundFresh(t)
  <2>1. Tail(lock) \in Seq(Tasks)
    BY <1>2, QueueTypes DEF FoundFresh, Holds
  <2>2. stage' \in [Tasks -> Stages]
    BY <1>2 DEF FoundFresh, Stages
  <2>3. \A u \in Tasks : stage'[u] \notin {"turn", "wire"}
    BY <1>2 DEF FoundFresh, Holds
  <2> QED
    BY <1>2, <2>1, <2>2, <2>3 DEF FoundFresh
<1>3. CASE Refresh(t)
  <2>1. Append(line[Api], t) \in Seq(Tasks)
    BY QueueTypes
  <2>2. line' \in [Procs -> Seq(Tasks)]
    BY <1>3, <2>1 DEF Refresh
  <2>3. stage' \in [Tasks -> Stages]
    BY <1>3 DEF Refresh, Stages
  <2>4. age = Ttl
    BY <1>3, SMT DEF Refresh, StillStale, IsFresh
  <2> QED
    BY <1>3, <2>2, <2>3, <2>4 DEF Refresh, Holds
<1>4. CASE Loaded(t)
  <2>1. Tail(lock) \in Seq(Tasks)
    BY <1>4, QueueTypes DEF Loaded
  <2>2. stage' \in [Tasks -> Stages]
    BY <1>4 DEF Loaded, Stages
  <2>3. \A u \in Tasks : stage'[u] \notin {"turn", "wire"}
    BY <1>4 DEF Loaded
  <2>4. 0 \in 0..Ttl
    BY SMT
  <2> QED
    BY <1>4, <2>1, <2>2, <2>3, <2>4 DEF Loaded
<1>5. CASE LoadFails(t)
  <2>1. Tail(lock) \in Seq(Tasks)
    BY <1>5, QueueTypes DEF LoadFails
  <2>2. stage' \in [Tasks -> Stages]
    BY <1>5 DEF LoadFails, Stages
  <2>3. \A u \in Tasks : stage'[u] \notin {"turn", "wire"}
    BY <1>5 DEF LoadFails
  <2> QED
    BY <1>5, <2>1, <2>2, <2>3 DEF LoadFails, Released
<1> QED
  BY <1>1, <1>2, <1>3, <1>4, <1>5

LEMMA ThrottleStep ==
  ASSUME AccessInv, NEW t \in Tasks,
         FromStore(t) \/ FetchOwn(t) \/ Grant(t) \/ Done(t)
  PROVE  AccessTypeOK' /\ LoaderHolds'
<1> USE SecAssumption DEF AccessInv, AccessTypeOK, LoaderHolds
<1>1. CASE FromStore(t)
  BY <1>1 DEF FromStore, Stages
<1>2. CASE FetchOwn(t)
  <2>1. Append(line[Home[t]], t) \in Seq(Tasks)
    BY QueueTypes
  <2>2. line' \in [Procs -> Seq(Tasks)]
    BY <1>2, <2>1 DEF FetchOwn
  <2>3. stage' \in [Tasks -> Stages]
    BY <1>2 DEF FetchOwn, Stages
  <2> QED
    BY <1>2, <2>2, <2>3 DEF FetchOwn
<1>3. CASE Grant(t)
  <2>1. Tail(line[Home[t]]) \in Seq(Tasks)
    BY <1>3, QueueTypes DEF Grant
  <2>2. line' \in [Procs -> Seq(Tasks)]
    BY <1>3, <2>1 DEF Grant
  <2>3. gap' \in [Procs -> 0..Interval]
    BY <1>3, SMT DEF Grant
  <2>4. stage' \in [Tasks -> Stages]
    BY <1>3 DEF Grant, Stages
  <2>5. meter' \in Meters
    BY <1>3, MeterGrant
  <2>6. \A u \in Tasks :
          /\ stage'[u] \in {"turn", "wire"} => stage[u] \in {"turn", "wire"}
          /\ stage'[u] = "lock" => stage[u] = "lock"
    BY <1>3 DEF Grant
  <2>7. lock' = lock /\ age' = age
    BY <1>3 DEF Grant
  <2> QED
    BY <2>2, <2>3, <2>4, <2>5, <2>6, <2>7
<1>4. CASE Done(t)
  BY <1>4 DEF Done, Stages
<1> QED
  BY <1>1, <1>2, <1>3, <1>4

LEMMA RestartStep ==
  ASSUME AccessInv, NEW p \in Procs, RestartProcess(p)
  PROVE  AccessTypeOK' /\ LoaderHolds'
<1> USE SecAssumption DEF AccessInv, AccessTypeOK, LoaderHolds
<1>1. meter' \in Meters
  BY MeterRestart
<1>2. stage' \in [Tasks -> Stages]
  BY DEF RestartProcess, Stages
<1>3. lock' \in Seq(Tasks) /\ line' \in [Procs -> Seq(Tasks)]
  BY DEF RestartProcess
<1>4. Ttl \in 0..Ttl /\ Interval \in 0..Interval
  BY SMT DEF SecAssumption
<1>5. age' \in 0..Ttl
  BY <1>4 DEF RestartProcess
<1>6. gap' \in [Procs -> 0..Interval]
  BY <1>4 DEF RestartProcess
<1>7. LoaderHolds'
  BY DEF RestartProcess
<1> QED
  BY <1>1, <1>2, <1>3, <1>5, <1>6, <1>7

LEMMA TickStep ==
  ASSUME AccessInv, SecondPasses
  PROVE  AccessTypeOK' /\ LoaderHolds'
<1> USE SecAssumption DEF AccessInv, AccessTypeOK, LoaderHolds
<1>1. meter' \in Meters
  BY MeterTick
<1>2. age' \in 0..Ttl /\ (age = Ttl => age' = Ttl)
  BY SMT DEF SecondPasses, Capped
<1>3. gap' \in [Procs -> 0..Interval]
  BY SMT DEF SecondPasses, Capped
<1>4. UNCHANGED <<stage, lock, line>>
  BY DEF SecondPasses
<1> QED
  BY <1>1, <1>2, <1>3, <1>4

LEMMA OpenStep ==
  ASSUME AccessInv, NEW p \in Procs, OpenCount(p)
  PROVE  AccessTypeOK' /\ LoaderHolds'
<1>1. meter' \in Meters
  BY MeterOpen
<1> QED
  BY <1>1 DEF OpenCount, AccessInv, AccessTypeOK, LoaderHolds

LEMMA StepIInv == AccessInv /\ [AccessNext]_accessVars => AccessInv'
<1> SUFFICES ASSUME AccessInv, [AccessNext]_accessVars PROVE AccessInv'
  OBVIOUS
<1>1. ASSUME NEW t \in Tasks,
             Ask(t) \/ FoundFresh(t) \/ Refresh(t) \/ Loaded(t) \/ LoadFails(t)
      PROVE  AccessInv'
  <2>1. UNCHANGED <<gap, meter>>
    BY <1>1 DEF Ask, FoundFresh, Refresh, Loaded, LoadFails
  <2> QED
    BY <1>1, <2>1, MapStep, MeterKept DEF AccessInv
<1>2. ASSUME NEW t \in Tasks, FromStore(t) \/ FetchOwn(t) \/ Done(t)
      PROVE  AccessInv'
  <2>1. UNCHANGED <<gap, meter>>
    BY <1>2 DEF FromStore, FetchOwn, Done
  <2> QED
    BY <1>2, <2>1, ThrottleStep, MeterKept DEF AccessInv
<1>3. ASSUME NEW t \in Tasks, Grant(t) PROVE AccessInv'
  BY <1>3, ThrottleStep, MeterGrant DEF AccessInv
<1>4. ASSUME NEW p \in Procs, RestartProcess(p) PROVE AccessInv'
  BY <1>4, RestartStep, MeterRestart DEF AccessInv
<1>5. ASSUME NEW p \in Procs, OpenCount(p) PROVE AccessInv'
  BY <1>5, OpenStep, MeterOpen DEF AccessInv
<1>6. CASE SecondPasses
  BY <1>6, TickStep, MeterTick DEF AccessInv
<1>7. CASE UNCHANGED accessVars
  BY <1>7 DEF accessVars, AccessInv, AccessTypeOK, LoaderHolds, Metered, Idle0
<1> QED
  BY <1>1, <1>2, <1>3, <1>4, <1>5, <1>6, <1>7 DEF AccessNext, Runs

LEMMA Invariant == AccessSpec => []AccessInv
BY InitAccessInv, StepIInv, PTL DEF AccessSpec

-----------------------------------------------------------------------------
(* Every task, lock, queue and counter keeps its type.                     *)
THEOREM AccessTypeCorrect == AccessSpec => []AccessTypeOK
BY Invariant, PTL DEF AccessInv

(* Whatever the tasks of a process do, however late they wake up and       *)
(* however often it restarts, it sends no more in a window than its rate.  *)
THEOREM RateIsKept == AccessSpec => []Throttled
<1>1. AccessInv => Throttled
  <2> SUFFICES ASSUME AccessInv PROVE Throttled
    OBVIOUS
  <2> USE SecAssumption
  <2>1. meter \in Meters
    BY DEF AccessInv, AccessTypeOK
  <2>2. CASE meter.of = NoProc
    <3>1. meter.sent = 0 /\ meter.boots = 0 /\ meter.elapsed \in Nat
      BY <2>1, <2>2, SMT DEF AccessInv, Idle0
    <3>2. (0 - 1 - 0) * Interval <= 0
      BY SMT
    <3> QED
      BY <3>1, <3>2, SMT DEF Throttled
  <2>3. CASE meter.of \in Procs
    <3>1. (meter.sent - 1 - meter.boots) * Interval + gap[meter.of] <= meter.elapsed
      BY <2>3 DEF AccessInv, Metered
    <3>2. gap[meter.of] \in Nat
      BY <2>3, SMT DEF AccessInv, AccessTypeOK
    <3>3. (meter.sent - 1 - meter.boots) * Interval \in Int /\ meter.elapsed \in Int
      BY <2>1, SMT
    <3> QED
      BY <3>1, <3>2, <3>3, SMT DEF Throttled
  <2> QED
    BY <2>1, <2>2, <2>3
<1> QED
  BY <1>1, Invariant, PTL

-----------------------------------------------------------------------------
(* The map, its lock and its throttle act as the cache of ReadThrough.     *)

Asked == {t \in Readers : stage[t] \in {"lock", "turn", "wire"}}

LEMMA MapActs ==
  ASSUME AccessInv, NEW t \in Tasks,
         Ask(t) \/ FoundFresh(t) \/ Refresh(t) \/ Loaded(t) \/ LoadFails(t)
  PROVE  OneMap!Next \/ UNCHANGED <<age, Asked>>
<1> USE SecAssumption DEF AccessInv, AccessTypeOK
<1>1. CASE Ask(t)
  <2>1. CASE IsFresh
    BY <1>1, <2>1 DEF Ask, Asked, Readers
  <2>2. CASE ~IsFresh
    <3>1. t \in Readers /\ t \notin Asked /\ Asked' = Asked \cup {t} /\ age' = age
      BY <1>1, <2>2 DEF Ask, Asked, Readers
    <3>2. OneMap!Ask(t)
      BY <3>1 DEF OneMap!Ask, Asked
    <3> QED
      BY <3>1, <3>2 DEF OneMap!Next
  <2> QED
    BY <2>1, <2>2
<1>2. CASE FoundFresh(t)
  <2>1. t \in Readers
    BY <1>2 DEF FoundFresh, LoaderHolds, Readers
  <2>2. Asked' = Asked \ {t} /\ age' = age
    BY <1>2 DEF FoundFresh, Asked
  <2>3. age < Ttl
    BY <1>2 DEF FoundFresh, StillStale, IsFresh
  <2>4. OneMap!Serve(t)
    BY <2>2, <2>3 DEF OneMap!Serve, Asked
  <2> QED
    BY <2>1, <2>4 DEF OneMap!Next
<1>3. CASE Refresh(t)
  BY <1>3 DEF Refresh, Asked
<1>4. CASE Loaded(t)
  <2>1. t \in Readers /\ t \in Asked /\ age = Ttl
    BY <1>4 DEF Loaded, LoaderHolds, Readers, Asked
  <2>2. Asked' = Asked \ {t} /\ age' = 0
    BY <1>4 DEF Loaded, Asked
  <2>3. OneMap!Load(t)
    BY <2>1, <2>2 DEF OneMap!Load, Asked
  <2> QED
    BY <2>1, <2>3 DEF OneMap!Next
<1>5. CASE LoadFails(t)
  <2>1. t \in Readers /\ t \in Asked
    BY <1>5 DEF LoadFails, LoaderHolds, Readers, Asked
  <2>2. Asked' = Asked \ {t} /\ age' = age
    BY <1>5 DEF LoadFails, Asked
  <2>3. OneMap!Fail(t)
    BY <2>1, <2>2 DEF OneMap!Fail, Asked
  <2> QED
    BY <2>1, <2>3 DEF OneMap!Next
<1> QED
  BY <1>1, <1>2, <1>3, <1>4, <1>5

LEMMA ThrottleHidden ==
  ASSUME AccessInv, NEW t \in Tasks,
         FromStore(t) \/ FetchOwn(t) \/ Grant(t) \/ Done(t)
  PROVE  UNCHANGED <<age, Asked>>
<1> USE DEF AccessInv, AccessTypeOK
<1>1. CASE FromStore(t)
  BY <1>1 DEF FromStore, Asked
<1>2. CASE FetchOwn(t)
  BY <1>2 DEF FetchOwn, Asked
<1>3. CASE Grant(t)
  BY <1>3 DEF Grant, Asked
<1>4. CASE Done(t)
  BY <1>4 DEF Done, Asked
<1> QED
  BY <1>1, <1>2, <1>3, <1>4

LEMMA RestartActs ==
  ASSUME AccessInv, NEW p \in Procs, RestartProcess(p)
  PROVE  OneMap!Next \/ UNCHANGED <<age, Asked>>
<1> USE DEF AccessInv, AccessTypeOK
<1>1. CASE p = Api
  <2>1. age' = Ttl /\ Asked' = {}
    BY <1>1 DEF RestartProcess, Asked, Readers
  <2>2. OneMap!Restart
    BY <2>1 DEF OneMap!Restart, Asked
  <2> QED
    BY <2>2 DEF OneMap!Next
<1>2. CASE p # Api
  BY <1>2 DEF RestartProcess, Asked, Readers
<1> QED
  BY <1>1, <1>2

LEMMA TickActs ==
  ASSUME AccessInv, SecondPasses
  PROVE  OneMap!Next \/ UNCHANGED <<age, Asked>>
<1> USE SecAssumption DEF AccessInv, AccessTypeOK
<1>1. Asked' = Asked
  BY DEF SecondPasses, Asked
<1>2. CASE age < Ttl
  <2>1. age' = age + 1
    BY <1>2 DEF SecondPasses, Capped
  <2>2. OneMap!Tick
    BY <1>1, <1>2, <2>1 DEF OneMap!Tick, Asked
  <2> QED
    BY <2>2 DEF OneMap!Next
<1>3. CASE ~(age < Ttl)
  BY <1>1, <1>3 DEF SecondPasses, Capped
<1> QED
  BY <1>2, <1>3

(* Every behaviour of the tasks is one of the cache that ReadThrough       *)
(* describes: one load for all who wait, and only of an expired map.       *)
THEOREM MapIsOne == AccessSpec => ActsAsOneMap
<1>1. AccessInit => OneMap!Init
  BY DEF AccessInit, OneMap!Init, Asked, Readers
<1>2. AccessInv /\ [AccessNext]_accessVars => [OneMap!Next]_<<age, Asked>>
  <2> SUFFICES ASSUME AccessInv, [AccessNext]_accessVars
               PROVE  OneMap!Next \/ UNCHANGED <<age, Asked>>
    OBVIOUS
  <2>1. ASSUME NEW t \in Tasks, Ask(t) \/ FetchOwn(t) \/ Runs(t)
        PROVE  OneMap!Next \/ UNCHANGED <<age, Asked>>
    BY <2>1, MapActs, ThrottleHidden, Zenon DEF Runs
  <2>2. ASSUME NEW p \in Procs, RestartProcess(p)
        PROVE  OneMap!Next \/ UNCHANGED <<age, Asked>>
    BY <2>2, RestartActs, Zenon
  <2>3. ASSUME NEW p \in Procs, OpenCount(p)
        PROVE  OneMap!Next \/ UNCHANGED <<age, Asked>>
    BY <2>3 DEF OpenCount, Asked
  <2>4. CASE SecondPasses
    BY <2>4, TickActs, Zenon
  <2>5. CASE UNCHANGED accessVars
    BY <2>5 DEF accessVars, Asked
  <2> QED
    BY <2>1, <2>2, <2>3, <2>4, <2>5, Zenon DEF AccessNext
<1>3. Asked = {t \in Readers : stage[t] \in {"lock", "turn", "wire"}}
  BY DEF Asked
<1> QED
  BY <1>1, <1>2, Invariant, PTL DEF AccessSpec, ActsAsOneMap, OneMap!Safety, Asked
=============================================================================

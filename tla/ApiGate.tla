------------------------------ MODULE ApiGate ------------------------------
(***************************************************************************)
(* What stands before the API's handlers: the per-caller token buckets     *)
(* (src/src/secfin/auth/rate_limiter.py), the keys and their daily counts  *)
(* (src/src/secfin/storage/sqlite_api_key_repository.py), the dependencies *)
(* that consult both (src/src/secfin/api/auth.py), and the sign-up and     *)
(* admin handlers that change the keys.                                    *)
(*                                                                         *)
(* Buckets live in the process and die with it; keys and counts are rows.  *)
(* No dependency awaits anything, so each runs in one step of the event    *)
(* loop.  Time advances in ticks, Second of them to a second; tokens are   *)
(* counted in parts of which a request takes Second, so that a tick at     *)
(* rate r refills r parts and the code's floats become integers.  There is *)
(* one key per e-mail address (UNIQUE), so a key is named by its address.  *)
(***************************************************************************)
EXTENDS Integers

CONSTANTS Emails, Ips,
          Tiers, DefaultTier, \* TIERS, DEFAULT_TIER
          Rate,               \* a tier's requests per second
          Quota,              \* a tier's requests per day
          AnonRate,           \* secfin_anon_rate_limit_per_sec
          Second,
          MaxTime,            \* bound: ticks per behaviour
          MaxDays,            \* bound: midnights per behaviour
          MaxFaults,          \* bound: restarts and failed counts
          MaxVisits           \* bound: requests with the headers of our pages

ASSUME ApiGateAssumption ==
  /\ Emails \cap Ips = {} /\ DefaultTier \in Tiers
  /\ Rate \in [Tiers -> Nat \ {0}] /\ Quota \in [Tiers -> Nat]
  /\ AnonRate \in Nat \ {0} /\ Second \in Nat \ {0}
  /\ MaxTime \in Nat /\ MaxDays \in Nat
  /\ MaxFaults \in Nat /\ MaxVisits \in Nat

Callers == Emails \cup Ips

VARIABLES
  keys,     \* api_keys: [tier, active] of each address, NoKey if it has none
  used,     \* api_key_usage: today's request_count of each key
  buckets,  \* _buckets: [tokens, last_refill] of each caller
  now, midnights, faults,
  let,      \* history: requests with each key let through today
  pages,    \* history: how many of those came as our own pages'
  visits,   \* history: requests let through as our own pages'
  allotted, \* history: the largest quota each key has had today
  revoked,  \* history: the addresses whose key was revoked
  spent,    \* history: when each caller last got a token
  window    \* history: what one caller has got since some moment

store    == <<keys, used>>
clock    == <<now, midnights>>
passages == <<let, pages, visits>>
history  == <<passages, allotted, revoked, spent, window>>
vars     == <<store, buckets, clock, faults, history>>

NoKey == [tier |-> DefaultTier, active |-> FALSE, issued |-> FALSE]
NewKey == [tier |-> DefaultTier, active |-> TRUE, issued |-> TRUE]
NoBucket == [tokens |-> 0, last_refill |-> -1]

Least(a, b) == IF a <= b THEN a ELSE b
Most(a, b) == IF a <= b THEN b ELSE a

----------------------------------------------------------------------------
(* TokenBucketLimiter.allow.                                               *)

RateOf(c) == IF c \in Ips THEN AnonRate ELSE Rate[keys[c].tier]

\* Idle time is credited up to one second's worth ...
TokensUncapped(c) ==
  IF buckets[c] = NoBucket THEN RateOf(c) * Second
  ELSE buckets[c].tokens + (now - buckets[c].last_refill) * RateOf(c)
TokensWholeSeconds(c) ==
  IF buckets[c] = NoBucket THEN RateOf(c) * Second
  ELSE Least(RateOf(c) * Second,
             buckets[c].tokens
               + ((now - buckets[c].last_refill) \div Second) * Second * RateOf(c))
Tokens(c) ==
  IF buckets[c] = NoBucket THEN RateOf(c) * Second
  ELSE Least(RateOf(c) * Second,
             buckets[c].tokens + (now - buckets[c].last_refill) * RateOf(c))

\* ... and what is there of one token is not one.
HasToken(c) == Tokens(c) >= Second

Watched(c) ==
  IF window.of # c THEN window
  ELSE [window EXCEPT !.passed = IF HasToken(c) THEN @ + 1 ELSE @,
                      !.rate = Most(@, RateOf(c))]

Allow(c) ==
  /\ buckets' = [buckets EXCEPT ![c] =
       [tokens |-> Tokens(c) - IF HasToken(c) THEN Second ELSE 0,
        last_refill |-> now]]
  /\ spent' = IF HasToken(c) THEN [spent EXCEPT ![c] = now] ELSE spent
  /\ window' = Watched(c)

----------------------------------------------------------------------------
Init ==
  /\ keys = [e \in Emails |-> NoKey] /\ used = [e \in Emails |-> 0]
  /\ buckets = [c \in Callers |-> NoBucket]
  /\ now = 0 /\ midnights = 0 /\ faults = 0
  /\ let = [e \in Emails |-> 0] /\ pages = [e \in Emails |-> 0] /\ visits = 0
  /\ allotted = [e \in Emails |-> 0]
  /\ revoked = {} /\ spent = [c \in Callers |-> -Second]
  /\ window \in [of : Callers, from : {0}, passed : {0}, pages : {0}, rate : {0}]

(* _is_first_party_browser.  Whatever carries the headers of our own pages *)
(* is let through before its key, its rate and its quota are looked at: no *)
(* token is taken, nothing is counted, and the handler gets no record.     *)
LetThroughAsPage(c) ==
  /\ visits < MaxVisits /\ visits' = visits + 1
  /\ IF c \in Emails
     THEN /\ let' = [let EXCEPT ![c] = @ + 1]
          /\ pages' = [pages EXCEPT ![c] = @ + 1]
     ELSE UNCHANGED <<let, pages>>
  /\ window' = IF window.of # c THEN window
               ELSE [window EXCEPT !.passed = @ + 1, !.pages = @ + 1]
  /\ UNCHANGED <<used, buckets, clock, faults, allotted, revoked, spent>>

\* With any key, also a revoked one, or from any address.
FirstParty(c) == LetThroughAsPage(c) /\ UNCHANGED keys

(* require_api_key, of the other requests.  Without an active key: 401,    *)
(* and nothing changes.  A burst is refused (429) without being            *)
(* counted, ...                                                            *)
RequestTooFast(e) ==
  /\ keys[e].active /\ ~HasToken(e)
  /\ Allow(e)
  /\ UNCHANGED <<store, clock, faults, passages, allotted, revoked>>

OverQuotaBeforeCount(e) == used[e] > Quota[keys[e].tier]
OverQuota(e) == used[e] + 1 > Quota[keys[e].tier]

(* ... and the others are counted, then refused when over the quota.       *)
Request(e) ==
  /\ keys[e].active /\ HasToken(e)
  /\ Allow(e)
  /\ used' = [used EXCEPT ![e] = @ + 1]
  /\ allotted' = [allotted EXCEPT ![e] = Most(@, Quota[keys[e].tier])]
  /\ IF OverQuota(e)
     THEN UNCHANGED let
     ELSE let' = [let EXCEPT ![e] = @ + 1]
  /\ UNCHANGED <<keys, clock, faults, pages, visits, revoked>>

(* The count cannot be written: rolled back and raised, the token gone.    *)
CountFails(e) ==
  /\ keys[e].active /\ HasToken(e) /\ faults < MaxFaults
  /\ Allow(e) /\ faults' = faults + 1
  /\ UNCHANGED <<store, clock, passages, allotted, revoked>>

(* limit_anonymous_traffic, of the public routes, for the other requests.  *)
Anonymous(i) ==
  /\ Allow(i)
  /\ UNCHANGED <<store, clock, faults, passages, allotted, revoked>>

----------------------------------------------------------------------------
(* The handlers that change the keys.                                      *)

CreateKey(e) ==
  keys' = IF keys[e].issued THEN keys ELSE [keys EXCEPT ![e] = NewKey]

(* signup: behind the limit of its address; 409 when the e-mail has a key. *)
Signup(e, i) ==
  /\ Allow(i)
  /\ IF HasToken(i)
     THEN CreateKey(e)
     ELSE UNCHANGED keys
  /\ UNCHANGED <<used, clock, faults, passages, allotted, revoked>>

(* The sign-up form of our own pages is not limited.                       *)
FirstPartySignup(e, i) == LetThroughAsPage(i) /\ CreateKey(e)

UpdateTier(e, t) == [keys EXCEPT ![e].tier = t]

ChangeTier(e, t) ==
  /\ keys[e].issued /\ keys' = UpdateTier(e, t)
  /\ UNCHANGED <<used, buckets, clock, faults, history>>

RevokeKey(e) ==
  /\ keys[e].issued /\ keys' = [keys EXCEPT ![e].active = FALSE]
  /\ revoked' = revoked \cup {e}
  /\ UNCHANGED <<used, buckets, clock, faults, passages, allotted, spent, window>>

----------------------------------------------------------------------------
Tick ==
  /\ now < MaxTime /\ now' = now + 1
  /\ UNCHANGED <<store, buckets, midnights, faults, history>>

(* A new date: its rows of api_key_usage do not exist yet.                 *)
Midnight ==
  /\ midnights < MaxDays /\ midnights' = midnights + 1
  /\ used' = [e \in Emails |-> 0] /\ let' = [e \in Emails |-> 0]
  /\ pages' = [e \in Emails |-> 0] /\ allotted' = [e \in Emails |-> 0]
  /\ UNCHANGED <<keys, buckets, now, faults, visits, revoked, spent, window>>

\* The window, of any caller, is opened at any moment.
Opened == [of |-> window.of, from |-> now, passed |-> 0, pages |-> 0, rate |-> 0]
OpenWindow ==
  /\ window' = Opened
  /\ UNCHANGED <<store, buckets, clock, faults, passages, allotted, revoked, spent>>

(* lifespan: a new process has a new limiter; the counts are in the store. *)
CountsKept == used
Restart ==
  /\ faults < MaxFaults /\ faults' = faults + 1
  /\ buckets' = [c \in Callers |-> NoBucket]
  /\ used' = CountsKept
  /\ window' = Opened
  /\ UNCHANGED <<keys, clock, passages, allotted, revoked, spent>>

Next ==
  \/ \E e \in Emails : \/ RequestTooFast(e) \/ Request(e)
                       \/ CountFails(e) \/ RevokeKey(e)
  \/ \E e \in Emails, t \in Tiers : ChangeTier(e, t)
  \/ \E e \in Emails, i \in Ips : Signup(e, i)
  \/ \E e \in Emails, i \in Ips : FirstPartySignup(e, i)
  \/ \E i \in Ips : Anonymous(i)
  \/ \E c \in Callers : FirstParty(c)
  \/ OpenWindow \/ Tick \/ Midnight \/ Restart

Spec == Init /\ [][Next]_vars

----------------------------------------------------------------------------
Records == [tier : Tiers, active : BOOLEAN, issued : BOOLEAN]
Buckets == [tokens : Nat, last_refill : Nat] \cup {NoBucket}
Windows == [of : Callers, from : Nat, passed : Nat, pages : Nat, rate : Nat]

(* Rows, buckets and counters keep their shapes; no bucket is ever filled  *)
(* in the future, nor below nothing.                                       *)
TypeOK ==
  /\ keys \in [Emails -> Records] /\ used \in [Emails -> Nat]
  /\ buckets \in [Callers -> Buckets]
  /\ now \in Nat /\ midnights \in Nat /\ faults \in Nat
  /\ let \in [Emails -> Nat] /\ pages \in [Emails -> Nat] /\ visits \in Nat
  /\ allotted \in [Emails -> Nat]
  /\ revoked \subseteq Emails /\ spent \in [Callers -> Int]
  /\ window \in Windows /\ window.from <= now
  /\ \A c \in Callers : buckets[c].last_refill <= now /\ spent[c] <= now

(* What was let through without the headers of our own pages: those are    *)
(* "a UX gate, NOT a security boundary" (auth.py:41), and no limit holds   *)
(* of the requests that carry them.                                        *)
Limited == window.passed - window.pages
Gated(e) == let[e] - pages[e]

(* From any moment on, and not counting what came as our own pages', a     *)
(* caller gets no more than one second's burst and what its rate allows    *)
(* for the time since (the largest rate it had), over idle times,          *)
(* refusals, page loads in between and changes of tier, unless the process *)
(* restarts: "one second's worth of headroom, not an unbounded             *)
(* accumulation while idle" (rate_limiter.py:34-35).                       *)
BurstBounded ==
  Limited * Second <= window.rate * (Second + (now - window.from))

(* A caller that got no token for a second has one: whatever other callers *)
(* do, however often it is refused meanwhile and whenever its tier         *)
(* changes, waiting a second is enough.                                    *)
NobodyStarved ==
  \A c \in Callers : now - spent[c] >= Second => HasToken(c)

(* In a day no key gets more requests through than the largest quota it    *)
(* has had that day, over restarts, refused requests and changes of tier;  *)
(* not counting those that came as our own pages', which are not metered.  *)
QuotaHolds == \A e \in Emails : Gated(e) <= allotted[e]

(* "Revocation takes effect on the very next request" (admin_routes.py:12) *)
(* and for good: neither a new sign-up nor a change of tier lets a request *)
(* with that key through again, unless it comes as our own pages'.         *)
RevokedStaysOut ==
  [][\A e \in revoked : let'[e] > let[e] => pages'[e] > pages[e]]_vars
=============================================================================

----------------------------- MODULE SecAccess -----------------------------
(***************************************************************************)
(* Every request this program sends to the SEC passes a throttle of its    *)
(* process (sec/client.py), and the API's requests first resolve a ticker  *)
(* in a map kept in memory (sec/ticker_cache.py; CusipResolver in          *)
(* normalize/cusip.py refreshes its index by the same code).  The tasks of *)
(* a process run in one event loop: a task gives way only where it awaits, *)
(* on one of the two locks, on the throttle's sleep or on the network.     *)
(*                                                                         *)
(* Time is counted in ticks, as distances that are capped where no code    *)
(* tells larger values apart, so that it can go on for ever.               *)
(***************************************************************************)
EXTENDS Integers, Sequences, SequencesExt

CONSTANTS
  Procs,        \* processes on the machine: the API and batch jobs
  Api,          \* the one that keeps the map
  NoProc,       \* no process
  Tasks,        \* requests of the API, and the batch jobs
  Home,         \* the process of each task
  Interval,     \* RateLimiter.min_interval
  Ttl,          \* secfin_ticker_cache_ttl_seconds
  Window,       \* bound: ticks for which requests are counted
  MaxBoots      \* bound: restarts of the counted process in that time

ASSUME SecAssumption ==
  /\ Api \in Procs /\ NoProc \notin Procs
  /\ Home \in [Tasks -> Procs]
  /\ Interval \in Nat \ {0} /\ Ttl \in Nat \ {0} /\ Window \in Nat \ {0}
  /\ MaxBoots \in Nat

VARIABLES
  stage,        \* what each task is doing
  lock,         \* tasks at TickerCache._lock, the holder first
  age,          \* ticks since _loaded_at; Ttl when not fresh
  line,         \* per process, the tasks at RateLimiter._lock, the holder first
  gap,          \* per process, ticks since _last; Interval when no delay is left
  meter         \* history: what one process sent since the count was opened

accessVars == <<stage, lock, age, line, gap, meter>>

Readers == {t \in Tasks : Home[t] = Api}

\* Where a task gives way: "lock" for the map's lock; "turn" and "wire" for the
\* throttle and the answer of the map, "turnOwn" and "wireOwn" for a document's.
Stages == {"idle", "lock", "turn", "wire", "resolved", "turnOwn", "wireOwn"}

Meters == [of : Procs \cup {NoProc}, elapsed : 0..Window, sent : Nat,
           boots : 0..MaxBoots]

NoCount == [of |-> NoProc, elapsed |-> 0, sent |-> 0, boots |-> 0]

AccessInit ==
  /\ stage = [t \in Tasks |-> "idle"]
  /\ lock = <<>>
  /\ age = Ttl
  /\ line = [p \in Procs |-> <<>>]
  /\ gap = [p \in Procs |-> Interval]
  /\ meter = NoCount

-----------------------------------------------------------------------------
(* sec/ticker_cache.py *)

IsFresh == age < Ttl

\* resolve(): _ensure_fresh returns at once, or waits for the lock.
Ask(t) ==
  /\ t \in Readers /\ stage[t] = "idle"
  /\ IF IsFresh
     THEN stage' = [stage EXCEPT ![t] = "resolved"] /\ UNCHANGED lock
     ELSE stage' = [stage EXCEPT ![t] = "lock"] /\ lock' = Append(lock, t)
  /\ UNCHANGED <<age, line, gap, meter>>

Holds(t) == lock # <<>> /\ Head(lock) = t

\* The holder looks again: another task may have refreshed while it waited.
StillStaleUnchecked == TRUE

StillStale == ~IsFresh

FoundFresh(t) ==
  /\ stage[t] = "lock" /\ Holds(t) /\ ~StillStale
  /\ stage' = [stage EXCEPT ![t] = "resolved"]
  /\ lock' = Tail(lock)
  /\ UNCHANGED <<age, line, gap, meter>>

Refresh(t) ==
  /\ stage[t] = "lock" /\ Holds(t) /\ StillStale
  /\ stage' = [stage EXCEPT ![t] = "turn"]
  /\ line' = [line EXCEPT ![Api] = Append(@, t)]
  /\ UNCHANGED <<lock, age, gap, meter>>

Loaded(t) ==
  /\ stage[t] = "wire"
  /\ stage' = [stage EXCEPT ![t] = "resolved"]
  /\ age' = 0
  /\ lock' = Tail(lock)
  /\ UNCHANGED <<line, gap, meter>>

\* A failed load leaves the map as it was and lets the next task in.
ReleasedOnSuccessOnly == lock

Released == Tail(lock)

LoadFails(t) ==
  /\ stage[t] = "wire"
  /\ stage' = [stage EXCEPT ![t] = "idle"]
  /\ lock' = Released
  /\ UNCHANGED <<age, line, gap, meter>>

-----------------------------------------------------------------------------
(* sec/client.py: RateLimiter.wait, then the request *)

\* A resolved API request answers from the store, or fetches a document first.
FromStore(t) ==
  /\ stage[t] = "resolved"
  /\ stage' = [stage EXCEPT ![t] = "idle"]
  /\ UNCHANGED <<lock, age, line, gap, meter>>

FetchOwn(t) ==
  /\ stage[t] = IF t \in Readers THEN "resolved" ELSE "idle"
  /\ stage' = [stage EXCEPT ![t] = "turnOwn"]
  /\ line' = [line EXCEPT ![Home[t]] = Append(@, t)]
  /\ UNCHANGED <<lock, age, gap, meter>>

\* The task sleeps what is left of the interval, or longer, with the lock held,
\* and stamps _last with the time it wakes up.
DelayOverPrivate(p) == TRUE      \* a limiter of its own in every SECClient

DelayOver(p) == gap[p] >= Interval

Counted(p) == IF meter.of = p THEN [meter EXCEPT !.sent = @ + 1] ELSE meter

Grant(t) ==
  LET p == Home[t] IN
  /\ stage[t] \in {"turn", "turnOwn"}
  /\ line[p] # <<>> /\ Head(line[p]) = t
  /\ DelayOver(p)
  /\ stage' = [stage EXCEPT ![t] = IF @ = "turn" THEN "wire" ELSE "wireOwn"]
  /\ line' = [line EXCEPT ![p] = Tail(@)]
  /\ gap' = [gap EXCEPT ![p] = 0]
  /\ meter' = Counted(p)
  /\ UNCHANGED <<lock, age>>

\* The document arrives, or httpx raises (raise_for_status, a timeout).
Done(t) ==
  /\ stage[t] = "wireOwn"
  /\ stage' = [stage EXCEPT ![t] = "idle"]
  /\ UNCHANGED <<lock, age, line, gap, meter>>

-----------------------------------------------------------------------------
(* A process is killed or redeployed: its locks, map and throttle start anew, *)
(* and its first request is not delayed (_last is 0.0).                       *)
RestartProcess(p) ==
  /\ stage' = [t \in Tasks |-> IF Home[t] = p THEN "idle" ELSE stage[t]]
  /\ lock' = IF p = Api THEN <<>> ELSE lock
  /\ age' = IF p = Api THEN Ttl ELSE age
  /\ line' = [line EXCEPT ![p] = <<>>]
  /\ gap' = [gap EXCEPT ![p] = Interval]
  /\ IF meter.of = p
     THEN meter.boots < MaxBoots /\ meter' = [meter EXCEPT !.boots = @ + 1]
     ELSE UNCHANGED meter

Capped(n, top) == IF n < top THEN n + 1 ELSE n

\* A second passes; a count that has lasted for the window is closed.
SecondPasses ==
  /\ age' = Capped(age, Ttl)
  /\ gap' = [p \in Procs |-> Capped(gap[p], Interval)]
  /\ meter' = IF meter.of = NoProc THEN meter
              ELSE IF meter.elapsed < Window THEN [meter EXCEPT !.elapsed = @ + 1]
              ELSE NoCount
  /\ UNCHANGED <<stage, lock, line>>

OpenCount(p) ==
  /\ meter.of = NoProc /\ meter' = [NoCount EXCEPT !.of = p]
  /\ UNCHANGED <<stage, lock, age, line, gap>>

\* What the event loop and httpx's timeout see to for a task.
Runs(t) == FoundFresh(t) \/ Refresh(t) \/ Loaded(t) \/ LoadFails(t)
             \/ FromStore(t) \/ Grant(t) \/ Done(t)

AccessNext ==
  \/ \E t \in Tasks : Ask(t) \/ FetchOwn(t) \/ Runs(t)
  \/ \E p \in Procs : RestartProcess(p) \/ OpenCount(p)
  \/ SecondPasses

AccessFairness == WF_accessVars(SecondPasses) /\ \A t \in Tasks : WF_accessVars(Runs(t))

AccessSpec == AccessInit /\ [][AccessNext]_accessVars /\ AccessFairness

-----------------------------------------------------------------------------
AccessTypeOK ==
  /\ stage \in [Tasks -> Stages]
  /\ lock \in Seq(Tasks)
  /\ age \in 0..Ttl
  /\ line \in [Procs -> Seq(Tasks)]
  /\ gap \in [Procs -> 0..Interval]
  /\ meter \in Meters

(* In whatever window one looks, a process sends no more than the throttle's  *)
(* rate allows, however its tasks queue, wake up late or fail; each restart   *)
(* gives it one request more (RateLimiter.wait, _shared_default_limiter).     *)
Throttled ==
  (meter.sent - 1 - meter.boots) * Interval <= meter.elapsed

(* The requests of a process that wait for the map, its lock and its throttle *)
(* see one map that is loaded only when it has expired and somebody asks, and *)
(* is served only while it is fresh (TickerCache._ensure_fresh).              *)
OneMap == INSTANCE ReadThrough WITH
  age <- age,
  asked <- {t \in Readers : stage[t] \in {"lock", "turn", "wire"}}

ActsAsOneMap == OneMap!Safety

(* Every request ends, though each of its waits may be behind others, the map *)
(* may fail to load for each of them in turn, and may expire while they wait. *)
EveryRequestEnds == \A t \in Tasks : stage[t] # "idle" ~> stage[t] = "idle"
=============================================================================

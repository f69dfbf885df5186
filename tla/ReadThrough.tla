---------------------------- MODULE ReadThrough ----------------------------
(***************************************************************************)
(* What a map read through a cache promises (sec/ticker_cache.py, and the  *)
(* same code in normalize/cusip.py): a request is answered from a map      *)
(* loaded less than Ttl ago, or it fails; the map is loaded only when      *)
(* somebody asks and it has expired.  One load serves all who ask.         *)
(***************************************************************************)
EXTENDS Naturals

CONSTANTS
  Readers,   \* requests that may be under way at once
  Ttl        \* ticks a loaded map is served, at least one

VARIABLES
  age,       \* ticks since the map was loaded; Ttl when expired or absent
  asked      \* requests waiting for an answer from the map

Init == age = Ttl /\ asked = {}

Ask(r) == r \notin asked /\ asked' = asked \cup {r} /\ UNCHANGED age

\* An answer from the map, to a request that has waited or that just came.
Serve(r) == age < Ttl /\ asked' = asked \ {r} /\ UNCHANGED age

\* The load serves the request that made it.
Load(r) == r \in asked /\ age = Ttl /\ age' = 0 /\ asked' = asked \ {r}

Fail(r) == r \in asked /\ asked' = asked \ {r} /\ UNCHANGED age

Tick == age < Ttl /\ age' = age + 1 /\ UNCHANGED asked

\* The process ends: the map and the requests are gone.
Restart == age' = Ttl /\ asked' = {}

Next == \/ \E r \in Readers : Ask(r) \/ Serve(r) \/ Load(r) \/ Fail(r)
        \/ Tick
        \/ Restart

Safety == Init /\ [][Next]_<<age, asked>>
============================================================================

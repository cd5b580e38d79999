------------------------------ MODULE Metering ------------------------------
(***************************************************************************)
(* What accounting promises, without threads, streams or a search loop:    *)
(* a request is settled at most once, only a success adds to the cache,    *)
(* and what a request reads from the cache was there when it came in.      *)
(* MessageHandler is shown to implement this specification.                *)
(***************************************************************************)
CONSTANT Reqs

VARIABLES
  outcome,  \* request -> "idle", "open", "success", "error" or "lost"
  asks,     \* request -> the prefixes it would add to the cache
  hit,      \* request -> the prefixes it is charged as cached
  cached    \* the prefixes the cache holds

vars == <<outcome, asks, hit, cached>>

Init ==
  /\ outcome = [r \in Reqs |-> "idle"]
  /\ asks = [r \in Reqs |-> {}]
  /\ hit = [r \in Reqs |-> {}]
  /\ cached = {}

\* Prefixes of requests that succeeded.
Earned == UNION {asks[r] : r \in {q \in Reqs : outcome[q] = "success"}}

Accept(r) ==
  /\ outcome[r] = "idle"
  /\ outcome' = [outcome EXCEPT ![r] = "open"]
  /\ asks' = [asks EXCEPT ![r] = asks'[r]]
  /\ hit' = [hit EXCEPT ![r] = hit'[r]]
  /\ hit'[r] \subseteq asks'[r] \intersect cached
  /\ UNCHANGED cached

Reject(r) ==
  /\ outcome[r] = "idle"
  /\ outcome' = [outcome EXCEPT ![r] = "error"]
  /\ UNCHANGED <<asks, hit, cached>>

Succeed(r) ==
  /\ outcome[r] = "open"
  /\ outcome' = [outcome EXCEPT ![r] = "success"]
  /\ cached' \subseteq cached \union asks[r]
  /\ UNCHANGED <<asks, hit>>

Fail(r) ==
  /\ outcome[r] = "open"
  /\ outcome' \in {[outcome EXCEPT ![r] = v] : v \in {"error", "lost"}}
  /\ UNCHANGED <<asks, hit, cached>>

Shed ==
  /\ cached' \subseteq cached
  /\ UNCHANGED <<outcome, asks, hit>>

Restart ==
  /\ outcome' = [r \in Reqs |-> IF outcome[r] = "open" THEN "lost" ELSE outcome[r]]
  /\ cached' \subseteq Earned
  /\ UNCHANGED <<asks, hit>>

Next ==
  \/ \E r \in Reqs : Accept(r) \/ Reject(r) \/ Succeed(r) \/ Fail(r)
  \/ Shed
  \/ Restart

Spec == Init /\ [][Next]_vars

=============================================================================

---------------------------- MODULE UsageCounters ----------------------------
(***************************************************************************)
(* The counters of RequestStatistics (go/stats.go) and how a detail enters *)
(* them, leaves them or moves within them.  The code keeps a counter of    *)
(* requests, tokens and costs per API, model, provider, source,            *)
(* credential, day, hour and health bucket; every detail is in one of each *)
(* and never moves, which "all" stands for.  A detail moves between two    *)
(* endpoints when its metadata arrives, and then enters the counter of its *)
(* client.                                                                 *)
(***************************************************************************)
EXTENDS Integers, FiniteSets

Dimensions == {"all", "unknown", "known", "client"}
Counters == [Dimensions -> Int]
Zero == [k \in Dimensions |-> 0]

\* A detail without metadata has no endpoint and no client.
KeysOf(d) == IF d.rich THEN {"all", "known", "client"} ELSE {"all", "unknown"}

Count(c, d) == [k \in Dimensions |-> IF k \in KeysOf(d) THEN c[k] + 1 ELSE c[k]]

\* The detail becomes another one under the same request.
Move(c, before, after) ==
  [k \in Dimensions |->
     CASE k \in KeysOf(before) \ KeysOf(after) /\ c[k] > 0 -> c[k] - 1
       [] k \in KeysOf(after) \ KeysOf(before) -> c[k] + 1
       [] OTHER -> c[k]]

\* The counters rebuilt from a family of details, one per index.
Tally(family) ==
  [k \in Dimensions |-> Cardinality({i \in DOMAIN family : k \in KeysOf(family[i])})]
Plus(c, d) == [k \in Dimensions |-> c[k] + d[k]]

CountAll(c, family) == Plus(c, Tally(family))

\* The details are taken out in their order, each from the groups that are
\* still there, and none once the group of their API is gone.
Uncounted(c, family) ==
  {i \in DOMAIN family : Cardinality({j \in DOMAIN family : j < i}) < c["all"]}

UncountAllBlindly(c, family) ==                                \* mutant
  [k \in Dimensions |-> c[k] - Tally(family)[k]]
UncountAll(c, family) ==
  [k \in Dimensions |->
     LET n == Cardinality({i \in Uncounted(c, family) : k \in KeysOf(family[i])})
     IN IF n > c[k] THEN 0 ELSE c[k] - n]
=============================================================================

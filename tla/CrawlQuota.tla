----------------------------- MODULE CrawlQuota -----------------------------
(***************************************************************************)
(* What a crawl by any number of workers promises, without saying how many *)
(* there are, what fails, or in which order anything happens:              *)
(*   - a URL is claimed once and harvested at most once, after its claim;  *)
(*   - the total counts harvested pages, each at most once;                *)
(*   - once the total reaches the target the backlog only shrinks.         *)
(* CrawlWorker (src/worker_v3.cpp) is shown to implement it.               *)
(***************************************************************************)
EXTENDS Integers, FiniteSets

CONSTANTS Urls, Target, SeedCount

VARIABLES
    backlog,    \* how many tasks are queued
    claimed,    \* URLs that some worker took for itself
    harvested,  \* URLs whose page came back
    total       \* how many harvested pages have been counted

quotaVars == <<backlog, claimed, harvested, total>>

Init ==
    /\ backlog = SeedCount
    /\ claimed = {}
    /\ harvested = {}
    /\ total = 0

\* A task leaves the queue; it may be a duplicate, or be lost.
Take ==
    /\ backlog > 0
    /\ backlog' = backlog - 1
    /\ UNCHANGED <<claimed, harvested, total>>

\* A task enters the queue while the target is not met.
Offer ==
    /\ total < Target
    /\ backlog' = backlog + 1
    /\ UNCHANGED <<claimed, harvested, total>>

Claim(u) ==
    /\ u \notin claimed
    /\ claimed' = claimed \cup {u}
    /\ UNCHANGED <<backlog, harvested, total>>

Harvest(u) ==
    /\ u \in claimed \ harvested
    /\ harvested' = harvested \cup {u}
    /\ UNCHANGED <<backlog, claimed, total>>

Score ==
    /\ total < Cardinality(harvested)
    /\ total' = total + 1
    /\ UNCHANGED <<backlog, claimed, harvested>>

Next == Take \/ Offer \/ Score \/ \E u \in Urls : Claim(u) \/ Harvest(u)

Spec == Init /\ [][Next]_quotaVars
=============================================================================

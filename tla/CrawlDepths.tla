---------------------------- MODULE CrawlDepths ----------------------------
(***************************************************************************)
(* The URLs that a crawl by levels is to reach: what mainbfs.cpp and       *)
(* main_dfs.cpp are checked against.                                       *)
(***************************************************************************)
EXTENDS Integers, Sequences

SetOf(s) == {s[i] : i \in DOMAIN s}

LinksFrom(links, urls) == UNION {SetOf(links[u]) : u \in urls}

\* Reach(...)[n]: the URLs n links away from the seeds, along the given pages.
Reach(seeds, links, depth, pages) ==
    LET near[n \in 0..depth] ==
            IF n = 0 THEN SetOf(seeds) ELSE LinksFrom(links, near[n - 1] \cap pages)
    IN  near
=============================================================================

--------------------------- MODULE MCCrawlWorker ---------------------------
(***************************************************************************)
(* A small web for CrawlWorker: four links to three URLs (two of the links *)
(* differ only behind a '|'), pages that link in a circle, one page that   *)
(* may come back with no link at all.                                      *)
(***************************************************************************)
EXTENDS CrawlWorker, TLC

CONSTANTS w1, w2, a, b, c, la, lb, lc, lc2

MCUrlOf == (la :> a) @@ (lb :> b) @@ (lc :> c) @@ (lc2 :> c)
MCRowKeyDistinct == [u \in Urls |-> u]
MCRowKeyShared == (a :> 1) @@ (b :> 2) @@ (c :> 2)
MCWeb == (a :> {<<la, lb>>, <<lb, lc2>>}) @@ (b :> {<<lc>>}) @@ (c :> {<<>>, <<la, lb, lc2>>})
MCSeeds == <<la, lc>>

WorkerSymmetry == Permutations(Workers)
=============================================================================

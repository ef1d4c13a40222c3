----------------------------- MODULE MCDfsCrawl -----------------------------
(* A small web for DfsCrawl: two seeds that share a page and link back. *)
EXTENDS DfsCrawl, TLC

CONSTANTS a, b, c, d, e, f

MCSeeds == <<a, b>>

\* a, b -> c, d, e; c and d link further, to where the crawl does not go.
MCTwoLayers == (a :> <<c, d>>) @@ (b :> <<d, e>>) @@ (c :> <<f>>)
                  @@ (d :> <<f>>) @@ (e :> <<>>) @@ (f :> <<>>)
=============================================================================

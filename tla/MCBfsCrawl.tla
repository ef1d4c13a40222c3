----------------------------- MODULE MCBfsCrawl -----------------------------
(* A small web for BfsCrawl, on two machines. *)
EXTENDS BfsCrawl, TLC

CONSTANTS a, b, c, d, e, f, g, h

MCSeeds == <<a, g>>

\* Three layers with a page that is linked twice, a way back (e -> a) and a link one
\* level too deep (d -> f): a, g -> b, c -> d, e, f, h.
MCLinksOf == (a :> <<b, c>>) @@ (g :> <<c>>) @@ (b :> <<d, e>>) @@ (c :> <<f, h>>)
                @@ (d :> <<f>>) @@ (e :> <<a>>) @@ (f :> <<>>) @@ (h :> <<>>)

\* Three slots and more links to collect than there are; two slots and a target that
\* two threads can overshoot by both their pages.
MCMachines == {<<9, 3>>, <<3, 2>>}
=============================================================================

-------------------------- MODULE MCIndexedSearch --------------------------
(* Two small pages and the queries that tell them apart. *)
EXTENDS IndexedSearch, TLC

CONSTANTS d1, d2, x, y

MCTokens == (d1 :> <<x, y, x>>) @@ (d2 :> <<y>>)
MCQueries == {<<x, y>>, <<y, y>>}
=============================================================================

------------------------------ MODULE MCIngest ------------------------------
(***************************************************************************)
(* Bounds for TLC: a site whose seed links to two pages.                   *)
(***************************************************************************)
EXTENDS Ingest

MCSites  == {<<<<2, 3>>, <<>>, <<>>>>}
MCScopes == {{1, 2, 3}}
MCGiven  == <<>>
MCPlans  == {[crawl |-> TRUE, depth |-> 1, cap |-> 3, translate |-> FALSE],
             [crawl |-> TRUE, depth |-> 2, cap |-> 3, translate |-> TRUE]}
=============================================================================

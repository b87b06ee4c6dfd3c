---- MODULE MCFaissIndex ----
(* The deployment: the seeding script builds and saves, the API loads its files   *)
(* and serves, and the API's index is hot-swapped while it serves.  The second    *)
(* generation has one item less and none of the first: a position may name the    *)
(* wrong item, or no item.                                                        *)
EXTENDS FaissIndex, TLC

CONSTANTS handler, swapper, seeder, api, script, g1, g2, a, b, c

MCOwner == [t \in Threads |-> IF t = seeder THEN script ELSE api]
MCCalls == (handler :> {"search", "load"}) @@ (swapper :> {"search", "build"})
           @@ (seeder :> {"build", "save"})
\* Only searches and hot-swaps: no file is involved.
MCSwapCalls == (handler :> {"search"}) @@ (swapper :> {"build"}) @@ (seeder :> {})
MCContent == (g1 :> <<a, b>>) @@ (g2 :> <<c>>)

====

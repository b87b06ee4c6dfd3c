---- MODULE MCFeed ----
(* Five items: the index finds three or none of them, trending adds up to two more  *)
(* or repeats what was found.  With n = 3 the feed has two draws for the two        *)
(* candidates that are left over.                                                   *)
EXTENDS Feed

CONSTANTS a, b, c, d, e

MCScores == {-1, 0, 1, 2}
MCSizes == {-1, 0, 2, 3}
MCAnnResults == {<<c, a, b>>, <<>>}
MCTrendingLists == {<<d, e>>, <<b, d>>, <<>>}

====

---- MODULE MCGateway ----
(***************************************************************************)
(* Two /events requests of one key race for a limit of one, or meet across *)
(* two windows, so that a counter expires in the second while late hits    *)
(* arrive; one request without a key, a report, a like, the open /health.  *)
(***************************************************************************)
EXTENDS Gateway
CONSTANTS r1, r2, r3, r4, r5, r6, k1, i1

MCRequests == {r1, r2, r3, r4, r5, r6}
MCPath == [r \in MCRequests |->
    CASE r = r4 -> "report" [] r = r5 -> "like" [] r = r6 -> "health" [] OTHER -> "events"]
MCHeader == [r \in MCRequests |-> IF r = r3 THEN NoKey ELSE k1]
MCSymmetry == Permutations({r1, r2})
MCItem == [r \in MCRequests |-> i1]
====

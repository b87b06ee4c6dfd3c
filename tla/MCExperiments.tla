---- MODULE MCExperiments ----
(* Two readers of one user race, a third user is in the holdback; two creators of the *)
(* same name bring ranges that put the user in different variants; three recorders    *)
(* add one, two and nothing to a counter.                                             *)
EXTENDS Experiments, TLC

CONSTANTS u1, u2, r1, r2, r3, c1, c2, k1, k2, k3

MCBucket == (u1 :> 0) @@ (u2 :> 1)
MCReader == (r1 :> u1) @@ (r2 :> u1) @@ (r3 :> u2)
Lower == [low |-> 0, high |-> 1]
Upper == [low |-> 1, high |-> 2]
MCRanges == (c1 :> [control |-> Lower, treatment |-> Upper])
            @@ (c2 :> [control |-> Upper, treatment |-> Lower])
MCDelta == (k1 :> 1) @@ (k2 :> 2) @@ (k3 :> 0)

====

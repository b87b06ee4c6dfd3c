---- MODULE MCSeeding ----
(***************************************************************************)
(* Two runs of the generator, of one and of two users; a seeder that runs  *)
(* any number of times, before, between and after them; a pod that boots.  *)
(***************************************************************************)
EXTENDS Seeding
CONSTANTS g1, g2, s1, p1

MCNumUsers == [g \in Gens |-> IF g = g1 THEN 1 ELSE 2]
====

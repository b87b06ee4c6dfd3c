---- MODULE MCModelLifecycle ----
(***************************************************************************)
(* Two trainer processes in both runs.  Training: no epoch or four, or a   *)
(* trial of two, all with a patience of two, so that either limit may end  *)
(* a run; every loss is 1 or NaN, so that an epoch improves, equals or     *)
(* diverges.  Lifecycle: one epoch; three versions, of which two can race  *)
(* and three can be promoted out of order by two operators; neither the    *)
(* trainers nor the operators differ.  Two items are the fewest the        *)
(* sampling loop ends with, one row is too few to split.                   *)
(***************************************************************************)
EXTENDS ModelLifecycle, TLC
CONSTANTS t1, t2, o1, o2, a1

MCPatience == [m \in Modes |-> 2]
MCSizes == {1, 12}
Symmetry == Permutations({t1, t2}) \cup Permutations({o1, o2})
====

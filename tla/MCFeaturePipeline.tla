---- MODULE MCFeaturePipeline ----
(* Events of one user, the first on one item and the others on another: the    *)
(* first is a positive signal, the second a negative one and the third raises  *)
(* after its commands.  user-events has them in one partition, item-events     *)
(* holds copies; each has room for two.  Cap = 1 makes the second item trim    *)
(* the first.                                                                  *)
EXTENDS FeaturePipeline, TLC

CONSTANTS e1, e2, e3, user, a, b, up, ip

MCUser == [e \in Records |-> user]
MCItem == [e \in Records |-> IF e = e1 THEN a ELSE b]
MCWeight == [e \in Records |-> CASE e = e1 -> 4 [] e = e2 -> -1 [] e = e3 -> 1]
MCUserPartition == [e \in Records |-> up]
MCItemPartition == [e \in Records |-> ip]

\* The workers run the same code.
WorkerSymmetry == Permutations(Workers)

\* Of the readings of the clock only the order matters, and the next one is later than all:
\* states that differ in nothing else behave alike.
InUse == {stamp[w] : w \in Workers}
             \cup UNION {{recent[u][i] : i \in DOMAIN recent[u]} : u \in Users}
Rank(t) == Cardinality({s \in InUse : s < t})
OrderOfStamps ==
    <<groupVars, stage, [w \in Workers |-> Rank(stamp[w])],
      [u \in Users |-> [i \in DOMAIN recent[u] |-> Rank(recent[u][i])]],
      trending, viewers, volatile, lapsed>>

====

---- MODULE AtLeastOnce ----
(***************************************************************************)
(* What the consumer group promises (docstring of kafka_consumer.py): a    *)
(* partition is a log, a record is settled when it needs no further        *)
(* delivery, and the committed offset - where a new consumer starts - only *)
(* ever moves forward and only over settled records.  Settling the same    *)
(* record again is allowed: delivery is at least once.                     *)
(***************************************************************************)
EXTENDS Naturals, Sequences

CONSTANTS Partitions, Records

VARIABLES log, settled, committed

vars == <<log, settled, committed>>

Init ==
    /\ log = [p \in Partitions |-> <<>>]
    /\ settled = [p \in Partitions |-> {}]
    /\ committed = [p \in Partitions |-> 0]

Publish(p, r) ==
    /\ log' = [log EXCEPT ![p] = Append(@, r)]
    /\ UNCHANGED <<settled, committed>>

\* Records are settled in order: o is the first unsettled one, or a replay.
Settle(p, o) ==
    /\ o \in 1..Len(log[p])
    /\ 1..(o - 1) \subseteq settled[p]
    /\ settled' = [settled EXCEPT ![p] = @ \cup {o}]
    /\ UNCHANGED <<log, committed>>

\* One commit may move the offsets of several partitions.
Commit ==
    /\ \A p \in Partitions :
         /\ committed'[p] \in committed[p]..Len(log[p])
         /\ 1..committed'[p] \subseteq settled[p]
    /\ DOMAIN committed' = Partitions
    /\ UNCHANGED <<log, settled>>

Next ==
    \/ \E p \in Partitions, r \in Records : Publish(p, r)
    \/ \E p \in Partitions : \E o \in 1..Len(log[p]) : Settle(p, o)
    \/ Commit

Spec == Init /\ [][Next]_vars
====

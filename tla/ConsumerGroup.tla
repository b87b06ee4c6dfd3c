---- MODULE ConsumerGroup ----
(***************************************************************************)
(* KafkaEventConsumer (nexusfeed/ingestion/kafka_consumer.py): the worker  *)
(* processes of one consumer group read the partitions of the topics they  *)
(* subscribe to, run a handler on every record with up to max_retries      *)
(* repetitions, and commit by hand.  Kafka's side (the log, the group's    *)
(* assignment of partitions and its committed offsets) is external: it is  *)
(* modelled from how the consumer uses it.                                 *)
(*                                                                         *)
(*   log        the partitions; records are appended by POST /events       *)
(*   committed  the group's committed offsets: how many records of each    *)
(*              partition a new owner skips                                *)
(*   owner      the worker each partition is assigned to, or NoWorker      *)
(*   position   the owner's fetch position in each partition               *)
(*   pc         per worker: "poll" in `async for`, "handle" inside         *)
(*              handler(record.value), "commit" after it returned,         *)
(*              "skip" after the last retry failed, "down" not running     *)
(*   record     the <<partition, offset>> in process_with_retry            *)
(*   attempt    its local `attempt`                                        *)
(*   started, done, abandoned                                              *)
(*              ghost: the offsets of each partition whose handler was     *)
(*              called, returned, or was given up                          *)
(*   faults     how many faults have happened; bounded by MaxFaults        *)
(***************************************************************************)
EXTENDS Naturals, Sequences, FiniteSets

CONSTANTS
    Workers,      \* feature-pipeline worker processes
    NoWorker,
    Partitions,   \* the partitions of all subscribed topics
    Records,      \* what the records carry: the events
    Poison,       \* the records the handler raises on at every attempt
    MaxRetries,   \* max_retries of consume_forever
    MaxFaults,    \* bound on Redis errors, commit errors, crashes, rebalances
    MaxLog        \* bound on the length of a partition

ASSUME ConsumerAssumption ==
    /\ NoWorker \notin Workers
    /\ Poison \subseteq Records
    /\ MaxRetries \in Nat
    /\ MaxFaults \in Nat
    /\ MaxLog \in Nat

VARIABLES log, committed, owner, position, pc, record, attempt,
          started, done, abandoned, faults

broker == <<log, committed, owner, position>>
loop   == <<pc, record, attempt>>
ghosts == <<started, done, abandoned>>
groupVars == <<broker, loop, ghosts, faults>>

NoRecord == <<>>

TypeOK ==
    /\ log \in [Partitions -> Seq(Records)]
    /\ committed \in [Partitions -> Nat]
    /\ owner \in [Partitions -> Workers \cup {NoWorker}]
    /\ position \in [Partitions -> Nat]
    /\ pc \in [Workers -> {"poll", "handle", "commit", "skip", "down"}]
    /\ record \in [Workers -> (Partitions \X (Nat \ {0})) \cup {NoRecord}]
    /\ attempt \in [Workers -> 0..MaxRetries]
    /\ started \in [Partitions -> SUBSET (Nat \ {0})]
    /\ done \in [Partitions -> SUBSET (Nat \ {0})]
    /\ abandoned \in [Partitions -> SUBSET (Nat \ {0})]
    /\ faults \in 0..MaxFaults

Init ==
    /\ log = [p \in Partitions |-> <<>>]
    /\ committed = [p \in Partitions |-> 0]
    /\ owner = [p \in Partitions |-> NoWorker]
    /\ position = [p \in Partitions |-> 0]
    /\ pc = [w \in Workers |-> "poll"]
    /\ record = [w \in Workers |-> NoRecord]
    /\ attempt = [w \in Workers |-> 0]
    /\ started = [p \in Partitions |-> {}]
    /\ done = [p \in Partitions |-> {}]
    /\ abandoned = [p \in Partitions |-> {}]
    /\ faults = 0

Fault == faults < MaxFaults /\ faults' = faults + 1

Content(w) == log[record[w][1]][record[w][2]]

AddOffset(f, w) == [f EXCEPT ![record[w][1]] = @ \cup {record[w][2]}]

-----------------------------------------------------------------------------
(* The broker: the log and the group coordinator *)

\* POST /events appends a record.
Publish(p, r) ==
    /\ Len(log[p]) < MaxLog
    /\ log' = [log EXCEPT ![p] = Append(@, r)]
    /\ UNCHANGED <<committed, owner, position, loop, ghosts, faults>>

\* Mutant: the new owner takes over the old owner's fetch position.
MutGiveToKeepsPosition(p, w) ==
    /\ pc[w] # "down"
    /\ owner' = [owner EXCEPT ![p] = w]
    /\ UNCHANGED <<log, committed, position, loop, ghosts>>

\* The coordinator gives a partition to a live worker, which starts reading at
\* the committed offset (auto_offset_reset is "earliest").
GiveTo(p, w) ==
    /\ pc[w] # "down"
    /\ owner' = [owner EXCEPT ![p] = w]
    /\ position' = [position EXCEPT ![p] = committed[p]]
    /\ UNCHANGED <<log, committed, loop, ghosts>>

Assign(p, w) ==
    /\ owner[p] = NoWorker
    /\ GiveTo(p, w)
    /\ UNCHANGED faults

\* A rebalance takes a partition from a live owner, which may be in the middle
\* of one of its records; the same worker may get it back.
Rebalance(p, w) ==
    /\ owner[p] # NoWorker
    /\ GiveTo(p, w)
    /\ Fault

-----------------------------------------------------------------------------
(* consume_forever and _process_with_retry *)

\* Mutant: enable_auto_commit, the position is committed as it advances.
MutPollAutoCommits(w, p) ==
    /\ pc[w] = "poll"
    /\ owner[p] = w
    /\ position[p] < Len(log[p])
    /\ position' = [position EXCEPT ![p] = @ + 1]
    /\ record' = [record EXCEPT ![w] = <<p, position[p] + 1>>]
    /\ attempt' = [attempt EXCEPT ![w] = 0]
    /\ pc' = [pc EXCEPT ![w] = "handle"]
    /\ started' = [started EXCEPT ![p] = @ \cup {position[p] + 1}]
    /\ committed' = [committed EXCEPT ![p] = position[p] + 1]
    /\ UNCHANGED <<log, owner, done, abandoned, faults>>

\* `async for record`: the iterator returns the next record of an assigned
\* partition and advances the position; the handler is called.
Poll(w, p) ==
    /\ pc[w] = "poll"
    /\ owner[p] = w
    /\ position[p] < Len(log[p])
    /\ position' = [position EXCEPT ![p] = @ + 1]
    /\ record' = [record EXCEPT ![w] = <<p, position[p] + 1>>]
    /\ attempt' = [attempt EXCEPT ![w] = 0]
    /\ pc' = [pc EXCEPT ![w] = "handle"]
    /\ started' = [started EXCEPT ![p] = @ \cup {position[p] + 1}]
    /\ UNCHANGED <<log, committed, owner, done, abandoned, faults>>

HandlerReturns(w) ==
    /\ pc[w] = "handle"
    /\ Content(w) \notin Poison
    /\ pc' = [pc EXCEPT ![w] = "commit"]
    /\ done' = AddOffset(done, w)
    /\ UNCHANGED <<broker, record, attempt, started, abandoned, faults>>

\* The handler raises something that is not a KafkaError: because of the record, or because
\* a call of Redis failed.
HandlerRaises(w) ==
    /\ pc[w] = "handle"
    /\ (Content(w) \in Poison /\ faults' = faults) \/ Fault

\* attempt <= max_retries: the loop calls the handler again at once.
HandlerRetries(w) ==
    /\ HandlerRaises(w)
    /\ attempt[w] < MaxRetries
    /\ attempt' = [attempt EXCEPT ![w] = @ + 1]
    /\ UNCHANGED <<broker, pc, record, ghosts>>

\* Mutant: giving up without the commit.
MutHandlerGivesUpNoCommit(w) ==
    /\ HandlerRaises(w)
    /\ attempt[w] = MaxRetries
    /\ pc' = [pc EXCEPT ![w] = "poll"]
    /\ abandoned' = AddOffset(abandoned, w)
    /\ UNCHANGED <<broker, record, attempt, started, done>>

\* attempt > max_retries: give up on the record, and commit all the same.
HandlerGivesUp(w) ==
    /\ HandlerRaises(w)
    /\ attempt[w] = MaxRetries
    /\ pc' = [pc EXCEPT ![w] = "skip"]
    /\ abandoned' = AddOffset(abandoned, w)
    /\ UNCHANGED <<broker, record, attempt, started, done>>

\* Mutant: the offset of the record is committed by hand, whoever owns the
\* partition by now.
MutCommitRecord(w) ==
    committed' = [committed EXCEPT ![record[w][1]] = record[w][2]]

\* commit() without arguments commits the position of every partition that is
\* assigned to the worker now, not only the record's.
CommitOwned(w) ==
    committed' = [p \in Partitions |-> IF owner[p] = w THEN position[p] ELSE committed[p]]

Commit(w) ==
    /\ pc[w] \in {"commit", "skip"}
    /\ CommitOwned(w)
    /\ pc' = [pc EXCEPT ![w] = "poll"]
    /\ record' = [record EXCEPT ![w] = NoRecord]
    /\ attempt' = [attempt EXCEPT ![w] = 0]
    /\ UNCHANGED <<log, owner, position, ghosts, faults>>

\* The process ends and the coordinator takes its partitions away.
GoDown(w) ==
    /\ pc' = [pc EXCEPT ![w] = "down"]
    /\ record' = [record EXCEPT ![w] = NoRecord]
    /\ attempt' = [attempt EXCEPT ![w] = 0]
    /\ owner' = [p \in Partitions |-> IF owner[p] = w THEN NoWorker ELSE owner[p]]
    /\ UNCHANGED <<log, position, ghosts>>

\* commit() raises a KafkaError, before or after the broker stored the offsets;
\* it is re-raised through consume_forever and ends the process.
CommitFails(w) ==
    /\ pc[w] \in {"commit", "skip"}
    /\ Fault
    /\ CommitOwned(w) \/ UNCHANGED committed
    /\ GoDown(w)

\* The process is killed at any await.
Crash(w) ==
    /\ pc[w] # "down"
    /\ Fault
    /\ GoDown(w)
    /\ UNCHANGED committed

\* Kubernetes starts the container again.
Restart(w) ==
    /\ pc[w] = "down"
    /\ pc' = [pc EXCEPT ![w] = "poll"]
    /\ UNCHANGED <<broker, record, attempt, ghosts, faults>>

-----------------------------------------------------------------------------
Consume(w) ==
    \/ \E p \in Partitions : Poll(w, p)
    \/ HandlerReturns(w) \/ HandlerRetries(w) \/ HandlerGivesUp(w)
    \/ Commit(w) \/ CommitFails(w)

Coordinate ==
    \E p \in Partitions, w \in Workers : Assign(p, w) \/ Rebalance(p, w)

GroupNext ==
    \/ \E p \in Partitions, r \in Records : Publish(p, r)
    \/ Coordinate
    \/ \E w \in Workers : Consume(w) \/ Crash(w) \/ Restart(w)

GroupSpec == Init /\ [][GroupNext]_groupVars

\* A live worker's event loop runs on, calls return or raise, dead containers are
\* restarted and unowned partitions are assigned.  Faults are never fair.
Fairness ==
    /\ \A w \in Workers : WF_groupVars(Consume(w)) /\ WF_groupVars(Restart(w))
    /\ \A p \in Partitions : WF_groupVars(\E w \in Workers : Assign(p, w))

FairGroupSpec == GroupSpec /\ Fairness

-----------------------------------------------------------------------------
(* Properties *)

Settled == [p \in Partitions |-> done[p] \cup abandoned[p]]

\* No record is lost between a crash and a commit: everything a new owner
\* skips had its handler return, or was given up after the retries.
CommittedIsSettled ==
    \A p \in Partitions :
        /\ committed[p] <= Len(log[p])
        /\ 1..committed[p] \subseteq Settled[p]

\* The records of a partition are taken up in order ("ordered per-user
\* processing"): the handler is called on a record only after all earlier
\* records of the partition are settled, across crashes and rebalances.
InOrder ==
    \A p \in Partitions : \A o \in started[p] : 1..(o - 1) \subseteq Settled[p]

\* A worker that lost a partition never moves its committed offset back over
\* what the new owner committed.
CommittedNeverRegresses ==
    [][\A p \in Partitions : committed'[p] >= committed[p]]_groupVars

\* A poison record or a faulty worker never stalls a partition: every record is
\* some day committed over, so the records behind it are delivered.
EveryRecordIsPassed ==
    \A p \in Partitions : \A o \in 1..MaxLog :
        (o <= Len(log[p])) ~> (committed[p] >= o)

\* The consumer group implements at-least-once delivery over settled records.
Delivery == INSTANCE AtLeastOnce WITH settled <- Settled
DeliverySpec == Delivery!Spec
====

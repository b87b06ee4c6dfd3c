---- MODULE FeaturePipelineProofs ----
(***************************************************************************)
(* Proofs about ConsumerGroup and FeaturePipeline, for any workers,        *)
(* partitions, events, weights, cap, retry limit and number of faults.     *)
(* The group skips no record, takes partitions up in order, never takes a  *)
(* commit back and implements AtLeastOnce.  In the pipeline every key gets *)
(* its TTL; the recent items stay near their cap; what is done is applied; *)
(* and what counts beyond the calls of a delivery is paid for by a fault.  *)
(***************************************************************************)
EXTENDS FeaturePipeline, FiniteSetTheorems, WellFoundedInduction, TLAPS

(***************************************************************************)
(* The consumer group                                                      *)
(***************************************************************************)

Busy == {"handle", "commit", "skip"}

\* Where the offsets are: a live owner reads between the committed offset and the
\* end of the log, and a busy worker holds a record of the log that was started.
OffsetsInv ==
    /\ \A p \in Partitions :
         /\ committed[p] <= Len(log[p])
         /\ owner[p] # NoWorker =>
              /\ committed[p] <= position[p]
              /\ position[p] <= Len(log[p])
              /\ pc[owner[p]] # "down"
         /\ started[p] \subseteq 1..Len(log[p])
    /\ \A w \in Workers : pc[w] \in Busy =>
         /\ record[w] \in Partitions \X (Nat \ {0})
         /\ record[w][2] \in started[record[w][1]]

\* The one record an owner has read and not settled is the one it is handling.
PositionSettled ==
    \A p \in Partitions : owner[p] # NoWorker =>
        \A o \in 1..position[p] :
            \/ o \in Settled[p]
            \/ pc[owner[p]] = "handle" /\ record[owner[p]] = <<p, o>>

GInv == TypeOK /\ OffsetsInv /\ CommittedIsSettled /\ PositionSettled /\ InOrder

-----------------------------------------------------------------------------
(* Types *)

LEMMA GroupTypeInit == Init => TypeOK
  BY ConsumerAssumption DEF Init, TypeOK, NoRecord

LEMMA FaultType == TypeOK /\ Fault => faults' \in 0..MaxFaults
  BY ConsumerAssumption DEF TypeOK, Fault

LEMMA AddOffsetType ==
  ASSUME NEW f \in [Partitions -> SUBSET (Nat \ {0})], NEW w,
         record[w] \in Partitions \X (Nat \ {0})
  PROVE  AddOffset(f, w) \in [Partitions -> SUBSET (Nat \ {0})]
  BY DEF AddOffset

LEMMA GroupTypeStep == TypeOK /\ OffsetsInv /\ [GroupNext]_groupVars => TypeOK'
<1> SUFFICES ASSUME TypeOK, OffsetsInv, [GroupNext]_groupVars PROVE TypeOK'
  OBVIOUS
<1> USE ConsumerAssumption DEF TypeOK, broker, loop, ghosts
<1>1. CASE UNCHANGED groupVars
  BY <1>1 DEF groupVars
<1>2. ASSUME NEW p \in Partitions, NEW r \in Records, Publish(p, r) PROVE TypeOK'
  BY <1>2 DEF Publish
<1>3. ASSUME NEW p \in Partitions, NEW w \in Workers, Assign(p, w) \/ Rebalance(p, w)
      PROVE  TypeOK'
  <2>1. faults' \in 0..MaxFaults
    BY <1>3, FaultType DEF Assign, Rebalance
  <2>2. GiveTo(p, w)
    BY <1>3 DEF Assign, Rebalance
  <2>3. /\ owner' \in [Partitions -> Workers \cup {NoWorker}]
        /\ position' \in [Partitions -> Nat]
    BY <2>2 DEF GiveTo
  <2> QED BY <2>1, <2>2, <2>3 DEF GiveTo
<1>4. ASSUME NEW w \in Workers, NEW p \in Partitions, Poll(w, p) PROVE TypeOK'
  <2>1. position[p] + 1 \in Nat \ {0}
    OBVIOUS
  <2> QED BY <1>4, <2>1 DEF Poll
<1>5. ASSUME NEW w \in Workers, HandlerReturns(w) PROVE TypeOK'
  <2>1. AddOffset(done, w) \in [Partitions -> SUBSET (Nat \ {0})]
    BY <1>5, AddOffsetType DEF HandlerReturns, OffsetsInv, Busy
  <2> QED BY <1>5, <2>1 DEF HandlerReturns
<1>6. ASSUME NEW w \in Workers, HandlerRetries(w) \/ HandlerGivesUp(w) PROVE TypeOK'
  <2>1. AddOffset(abandoned, w) \in [Partitions -> SUBSET (Nat \ {0})]
    BY <1>6, AddOffsetType DEF HandlerRetries, HandlerGivesUp, HandlerRaises, OffsetsInv, Busy
  <2>2. faults' \in 0..MaxFaults
    BY <1>6, FaultType DEF HandlerRetries, HandlerGivesUp, HandlerRaises
  <2>3. CASE HandlerRetries(w)
    <3>1. attempt' \in [Workers -> 0..MaxRetries]
      BY <2>3 DEF HandlerRetries
    <3> QED BY <2>2, <2>3, <3>1 DEF HandlerRetries
  <2>4. CASE HandlerGivesUp(w)
    <3>1. pc' \in [Workers -> {"poll", "handle", "commit", "skip", "down"}]
      BY <2>4 DEF HandlerGivesUp
    <3> QED BY <2>1, <2>2, <2>4, <3>1 DEF HandlerGivesUp
  <2> QED BY <1>6, <2>3, <2>4
<1>7. ASSUME NEW w \in Workers, Commit(w) \/ CommitFails(w) \/ Crash(w) \/ Restart(w)
      PROVE  TypeOK'
  <2>1. faults' \in 0..MaxFaults
    BY <1>7, FaultType DEF Commit, CommitFails, Crash, Restart
  <2>2. committed' \in [Partitions -> Nat]
    BY <1>7 DEF Commit, CommitFails, Crash, Restart, CommitOwned
  <2>3. attempt' \in [Workers -> 0..MaxRetries]
    BY <1>7 DEF Commit, CommitFails, Crash, Restart, GoDown
  <2>4. record' \in [Workers -> (Partitions \X (Nat \ {0})) \cup {NoRecord}]
    BY <1>7 DEF Commit, CommitFails, Crash, Restart, GoDown
  <2>5. /\ pc' \in [Workers -> {"poll", "handle", "commit", "skip", "down"}]
        /\ owner' \in [Partitions -> Workers \cup {NoWorker}]
    BY <1>7 DEF Commit, CommitFails, Crash, Restart, GoDown
  <2> QED BY <1>7, <2>1, <2>2, <2>3, <2>4, <2>5 DEF Commit, CommitFails, Crash, Restart, GoDown
<1> QED BY <1>1, <1>2, <1>3, <1>4, <1>5, <1>6, <1>7
        DEF GroupNext, Coordinate, Consume

-----------------------------------------------------------------------------
(* The delivery invariant *)

LEMMA GroupInit == Init => GInv
  BY GroupTypeInit
  DEF Init, GInv, OffsetsInv, CommittedIsSettled, PositionSettled, InOrder, Settled, Busy

\* An appended record is behind every offset there is.
LEMMA PublishStep ==
  ASSUME GInv, TypeOK', NEW p \in Partitions, NEW r \in Records, Publish(p, r)
  PROVE  GInv'
<1> USE DEF GInv, Publish, broker, loop, ghosts
<1>1. /\ UNCHANGED <<committed, owner, position, pc, record, started, Settled>>
      /\ \A q \in Partitions : Len(log[q]) \in Nat /\ Len(log'[q]) \in Nat
                               /\ Len(log[q]) <= Len(log'[q])
  BY DEF TypeOK, Settled
<1>2. OffsetsInv'
  BY <1>1 DEF OffsetsInv, TypeOK
<1>3. CommittedIsSettled'
  BY <1>1 DEF CommittedIsSettled, TypeOK
<1>4. PositionSettled' /\ InOrder'
  BY <1>1 DEF PositionSettled, InOrder
<1> QED BY <1>2, <1>3, <1>4

\* A new owner starts at the committed offset, so all it has read is settled.
LEMMA GiveStep ==
  ASSUME GInv, TypeOK', NEW p \in Partitions, NEW w \in Workers, GiveTo(p, w)
  PROVE  GInv'
<1> USE ConsumerAssumption DEF GInv, GiveTo, loop, ghosts
<1>1. UNCHANGED <<log, committed, pc, record, started, Settled>>
  BY DEF Settled
<1>2. OffsetsInv'
  BY <1>1 DEF OffsetsInv, TypeOK
<1>3. CommittedIsSettled' /\ InOrder'
  BY <1>1 DEF CommittedIsSettled, InOrder
<1>4. PositionSettled'
  <2> SUFFICES ASSUME NEW q \in Partitions, owner'[q] # NoWorker, NEW o \in 1..position'[q]
               PROVE  \/ o \in Settled'[q]
                      \/ pc'[owner'[q]] = "handle" /\ record'[owner'[q]] = <<q, o>>
    BY DEF PositionSettled
  <2>1. CASE q = p
    <3>1. position'[p] = committed[p]
      BY DEF TypeOK
    <3> QED BY <1>1, <2>1, <3>1 DEF CommittedIsSettled
  <2>2. CASE q # p
    <3>1. position'[q] = position[q] /\ owner'[q] = owner[q]
      BY <2>2 DEF TypeOK
    <3> QED BY <1>1, <3>1 DEF PositionSettled
  <2> QED BY <2>1, <2>2
<1> QED BY <1>2, <1>3, <1>4

\* Polling: the worker handles nothing, so all its owner positions are settled.
LEMMA PollStep ==
  ASSUME GInv, TypeOK', NEW w \in Workers, NEW p \in Partitions, Poll(w, p)
  PROVE  GInv'
<1> USE ConsumerAssumption DEF GInv, Poll
<1>1. UNCHANGED <<log, committed, owner, Settled>>
  BY DEF Settled
<1>2. /\ owner[p] = w /\ owner[p] # NoWorker
      /\ position[p] \in Nat /\ Len(log[p]) \in Nat
      /\ position[p] + 1 <= Len(log[p])
      /\ position'[p] = position[p] + 1
      /\ record'[w] = <<p, position[p] + 1>>
      /\ pc'[w] = "handle"
      /\ started'[p] = started[p] \cup {position[p] + 1}
  BY DEF TypeOK
<1>3. \A q \in Partitions : owner[q] = w => 1..position[q] \subseteq Settled[q]
  BY DEF PositionSettled
<1>4. OffsetsInv'
  <2>1. ASSUME NEW q \in Partitions
        PROVE  /\ position'[q] = IF q = p THEN position[p] + 1 ELSE position[q]
               /\ started'[q] = IF q = p THEN started[p] \cup {position[p] + 1} ELSE started[q]
    BY DEF TypeOK
  <2>2. \A v \in Workers : v # w => pc'[v] = pc[v] /\ record'[v] = record[v]
    BY DEF TypeOK
  <2>3. \A q \in Partitions : owner[q] # NoWorker => pc'[owner[q]] # "down"
    BY <1>2, <2>2 DEF OffsetsInv, TypeOK
  <2>4. \A v \in Workers : pc'[v] \in Busy =>
           /\ record'[v] \in Partitions \X (Nat \ {0})
           /\ record'[v][2] \in started'[record'[v][1]]
    BY <1>2, <2>1, <2>2 DEF OffsetsInv, Busy
  <2> QED BY <1>1, <1>2, <2>1, <2>3, <2>4 DEF OffsetsInv, TypeOK
<1>5. CommittedIsSettled'
  BY <1>1 DEF CommittedIsSettled
<1>6. PositionSettled'
  <2> SUFFICES ASSUME NEW q \in Partitions, owner'[q] # NoWorker, NEW o \in 1..position'[q]
               PROVE  \/ o \in Settled'[q]
                      \/ pc'[owner'[q]] = "handle" /\ record'[owner'[q]] = <<q, o>>
    BY DEF PositionSettled
  <2>1. CASE q = p
    <3>1. CASE o \in 1..position[p]
      BY <1>1, <1>2, <1>3, <2>1, <3>1
    <3>2. CASE o = position[p] + 1
      BY <1>1, <1>2, <2>1, <3>2
    <3> QED BY <1>2, <2>1, <3>1, <3>2
  <2>2. CASE q # p /\ owner[q] = w
    BY <1>1, <1>3, <2>2 DEF TypeOK
  <2>3. CASE q # p /\ owner[q] # w
    BY <1>1, <2>3 DEF PositionSettled, TypeOK
  <2> QED BY <2>1, <2>2, <2>3
<1>7. InOrder'
  <2> SUFFICES ASSUME NEW q \in Partitions, NEW o \in started'[q]
               PROVE  1..(o - 1) \subseteq Settled'[q]
    BY DEF InOrder
  <2>1. CASE o \in started[q]
    BY <1>1, <2>1 DEF InOrder
  <2>2. CASE q = p /\ o = position[p] + 1
    <3>1. o - 1 = position[p]
      BY <1>2, <2>2
    <3> QED BY <1>1, <1>2, <1>3, <2>2, <3>1
  <2> QED BY <1>2, <2>1, <2>2 DEF TypeOK
<1> QED BY <1>4, <1>5, <1>6, <1>7

\* The handler is called again: nothing the invariant speaks of changes.
LEMMA RetryStep ==
  ASSUME GInv, TypeOK', NEW w \in Workers, HandlerRetries(w)
  PROVE  GInv'
<1>1. UNCHANGED <<log, committed, owner, position, pc, record, started, Settled>>
  BY DEF HandlerRetries, broker, ghosts, Settled
<1> QED BY <1>1 DEF GInv, OffsetsInv, CommittedIsSettled, PositionSettled, InOrder

\* The handler is left for good: its record is settled.
LEMMA SettleStep ==
  ASSUME GInv, TypeOK', NEW w \in Workers, HandlerReturns(w) \/ HandlerGivesUp(w)
  PROVE  GInv' /\ Settled' = [Settled EXCEPT ![record[w][1]] = @ \cup {record[w][2]}]
<1> USE DEF GInv
<1>1. /\ UNCHANGED <<log, committed, owner, position, record, started>>
      /\ pc[w] = "handle"
      /\ pc' = [pc EXCEPT ![w] = "commit"] \/ pc' = [pc EXCEPT ![w] = "skip"]
  BY DEF HandlerReturns, HandlerGivesUp, HandlerRaises, broker
<1>2. record[w] \in Partitions \X (Nat \ {0})
  BY <1>1 DEF OffsetsInv, Busy
<1>3. Settled' = [Settled EXCEPT ![record[w][1]] = @ \cup {record[w][2]}]
  <2> DEFINE p == record[w][1]
             o == record[w][2]
  <2>1. p \in Partitions
    BY <1>2
  <2>2. \/ done' = [done EXCEPT ![p] = @ \cup {o}] /\ abandoned' = abandoned
        \/ abandoned' = [abandoned EXCEPT ![p] = @ \cup {o}] /\ done' = done
    BY DEF HandlerReturns, HandlerGivesUp, AddOffset
  <2>3. \A q \in Partitions : done'[q] \cup abandoned'[q] =
            IF q = p THEN done[q] \cup abandoned[q] \cup {o} ELSE done[q] \cup abandoned[q]
    <3>1. done \in [Partitions -> SUBSET Nat] /\ abandoned \in [Partitions -> SUBSET Nat]
      BY DEF TypeOK
    <3> HIDE DEF p, o, GInv
    <3>2. CASE done' = [done EXCEPT ![p] = @ \cup {o}] /\ abandoned' = abandoned
      BY <3>1, <3>2
    <3>3. CASE abandoned' = [abandoned EXCEPT ![p] = @ \cup {o}] /\ done' = done
      BY <3>1, <3>3
    <3> QED BY <2>2, <3>2, <3>3
  <2> QED BY <2>1, <2>3 DEF Settled
<1>4. /\ \A p \in Partitions : Settled[p] \subseteq Settled'[p]
      /\ record[w][2] \in Settled'[record[w][1]]
  <2> DEFINE p == record[w][1]
             o == record[w][2]
  <2>1. p \in Partitions /\ DOMAIN Settled = Partitions
    BY <1>2 DEF Settled
  <2>2. \A q \in Partitions : Settled'[q] = IF q = p THEN Settled[q] \cup {o} ELSE Settled[q]
    <3> HIDE DEF o, p, GInv
    <3>1. Settled' = [Settled EXCEPT ![p] = @ \cup {o}]
      BY <1>3 DEF o, p
    <3>2. DOMAIN Settled = Partitions
      BY <2>1
    <3>3. \E S : Settled = [q \in Partitions |-> S[q]]
      BY DEF Settled
    <3> HIDE DEF Settled
    <3> QED BY <3>1, <3>2, <3>3
  <2> HIDE DEF o, p, GInv
  <2>3. o \in Settled'[p] /\ \A q \in Partitions : Settled[q] \subseteq Settled'[q]
    BY <2>1, <2>2
  <2> QED BY <2>3 DEF o, p
<1>5. OffsetsInv'
  BY <1>1 DEF OffsetsInv, Busy, TypeOK
<1>6. CommittedIsSettled' /\ InOrder'
  BY <1>1, <1>4 DEF CommittedIsSettled, InOrder
<1>7. PositionSettled'
  <2> SUFFICES ASSUME NEW p \in Partitions, owner[p] # NoWorker, NEW o \in 1..position[p]
               PROVE  \/ o \in Settled'[p]
                      \/ pc'[owner[p]] = "handle" /\ record[owner[p]] = <<p, o>>
    BY <1>1 DEF PositionSettled
  <2>1. CASE owner[p] = w /\ record[w] = <<p, o>>
    BY <1>4, <2>1
  <2>2. CASE owner[p] = w /\ record[w] # <<p, o>>
    BY <1>4, <2>2 DEF PositionSettled
  <2>3. CASE owner[p] # w
    BY <1>1, <1>4, <2>3 DEF PositionSettled, TypeOK
  <2> QED BY <2>1, <2>2, <2>3
<1> QED BY <1>3, <1>5, <1>6, <1>7

\* A worker commits when it handles nothing: everything it has read is settled.
LEMMA CommitSound ==
  ASSUME GInv, NEW w \in Workers, pc[w] \in {"commit", "skip"},
         CommitOwned(w) \/ UNCHANGED committed, UNCHANGED log
  PROVE  \A p \in Partitions :
           /\ committed[p] <= committed'[p]
           /\ committed'[p] <= Len(log[p])
           /\ 1..committed'[p] \subseteq Settled[p]
           /\ owner[p] # NoWorker => committed'[p] <= position[p]
<1> SUFFICES ASSUME NEW p \in Partitions
             PROVE  /\ committed[p] <= committed'[p]
                    /\ committed'[p] <= Len(log[p])
                    /\ 1..committed'[p] \subseteq Settled[p]
                    /\ owner[p] # NoWorker => committed'[p] <= position[p]
  OBVIOUS
<1> USE ConsumerAssumption DEF GInv
<1>1. CASE committed'[p] = committed[p]
  BY <1>1 DEF OffsetsInv, CommittedIsSettled, TypeOK
<1>2. CASE owner[p] = w /\ committed'[p] = position[p]
  <2>1. 1..position[p] \subseteq Settled[p]
    BY <1>2 DEF PositionSettled
  <2> QED BY <1>2, <2>1 DEF OffsetsInv, TypeOK
<1> QED BY <1>1, <1>2 DEF CommitOwned

LEMMA CommitStep ==
  ASSUME GInv, TypeOK', NEW w \in Workers, Commit(w)
  PROVE  GInv'
<1> USE ConsumerAssumption DEF GInv, Commit, ghosts
<1>1. UNCHANGED <<log, owner, position, started, Settled>>
  BY DEF Settled
<1>2. \A p \in Partitions :
        /\ committed[p] <= committed'[p]
        /\ committed'[p] <= Len(log[p])
        /\ 1..committed'[p] \subseteq Settled[p]
        /\ owner[p] # NoWorker => committed'[p] <= position[p]
  BY CommitSound
<1>3. OffsetsInv'
  BY <1>1, <1>2 DEF OffsetsInv, Busy, TypeOK
<1>4. CommittedIsSettled' /\ InOrder'
  BY <1>1, <1>2 DEF CommittedIsSettled, InOrder
<1>5. PositionSettled'
  BY <1>1 DEF PositionSettled, TypeOK
<1> QED BY <1>3, <1>4, <1>5

\* The worker goes down, after a commit that may have been stored: it owns nothing.
LEMMA DownStep ==
  ASSUME GInv, TypeOK', NEW w \in Workers, CommitFails(w) \/ Crash(w)
  PROVE  GInv'
<1> USE ConsumerAssumption DEF GInv, GoDown, ghosts
<1>1. /\ UNCHANGED <<log, position, started, Settled>>
      /\ pc' = [pc EXCEPT ![w] = "down"]
      /\ \A p \in Partitions : owner'[p] = IF owner[p] = w THEN NoWorker ELSE owner[p]
      /\ \A v \in Workers \ {w} : record'[v] = record[v]
  BY DEF CommitFails, Crash, Settled, TypeOK
<1>2. \A p \in Partitions :
        /\ committed'[p] <= Len(log[p])
        /\ 1..committed'[p] \subseteq Settled[p]
        /\ owner[p] # NoWorker => committed'[p] <= position[p]
  <2>1. CASE CommitFails(w)
    BY <1>1, <2>1, CommitSound DEF CommitFails
  <2>2. CASE Crash(w)
    BY <2>2 DEF Crash, CommittedIsSettled, OffsetsInv
  <2> QED BY <2>1, <2>2
<1>3. OffsetsInv'
  BY <1>1, <1>2 DEF OffsetsInv, Busy, TypeOK
<1>4. CommittedIsSettled' /\ InOrder'
  BY <1>1, <1>2 DEF CommittedIsSettled, InOrder
<1>5. PositionSettled'
  BY <1>1 DEF PositionSettled, TypeOK
<1> QED BY <1>3, <1>4, <1>5

LEMMA RestartStep ==
  ASSUME GInv, TypeOK', NEW w \in Workers, Restart(w)
  PROVE  GInv'
<1> USE ConsumerAssumption DEF GInv, Restart, broker, ghosts
<1>1. /\ UNCHANGED <<log, committed, owner, position, record, started, Settled>>
      /\ pc[w] = "down" /\ pc' = [pc EXCEPT ![w] = "poll"]
  BY DEF Settled
<1>2. OffsetsInv' /\ CommittedIsSettled' /\ InOrder'
  BY <1>1 DEF OffsetsInv, CommittedIsSettled, InOrder, Busy, TypeOK
<1>3. PositionSettled'
  BY <1>1 DEF PositionSettled, OffsetsInv, TypeOK
<1> QED BY <1>2, <1>3

LEMMA GroupInvStep == GInv /\ [GroupNext]_groupVars => GInv'
<1> SUFFICES ASSUME GInv, [GroupNext]_groupVars PROVE GInv'
  OBVIOUS
<1>0. TypeOK'
  BY GroupTypeStep DEF GInv
<1>1. CASE UNCHANGED groupVars
  BY <1>0, <1>1 DEF groupVars, broker, loop, ghosts, GInv, OffsetsInv, CommittedIsSettled,
                    PositionSettled, InOrder, Settled
<1>2. CASE \E p \in Partitions, r \in Records : Publish(p, r)
  BY <1>0, <1>2, PublishStep
<1>3. CASE Coordinate
  BY <1>0, <1>3, GiveStep DEF Coordinate, Assign, Rebalance
<1>4. ASSUME NEW w \in Workers, Consume(w) \/ Crash(w) \/ Restart(w) PROVE GInv'
  BY <1>0, <1>4, PollStep, RetryStep, SettleStep, CommitStep, DownStep, RestartStep
     DEF Consume
<1> QED BY <1>1, <1>2, <1>3, <1>4 DEF GroupNext

\* Types, offsets, settled positions and the order of each partition hold in every reachable state.
THEOREM GroupInvariant == GroupSpec => []GInv
  BY GroupInit, GroupInvStep, PTL DEF GroupSpec

-----------------------------------------------------------------------------
(* The theorems *)

\* Every reachable state is well typed.
THEOREM GroupTypeCorrect == GroupSpec => []TypeOK
<1>1. GInv => TypeOK
  BY DEF GInv
<1> QED BY <1>1, GroupInvariant, PTL

\* No record is lost: what a new owner skips was handled or given up.
THEOREM NoRecordSkipped == GroupSpec => []CommittedIsSettled
<1>1. GInv => CommittedIsSettled
  BY DEF GInv
<1> QED BY <1>1, GroupInvariant, PTL

\* The records of a partition are taken up in order.
THEOREM PartitionsInOrder == GroupSpec => []InOrder
<1>1. GInv => InOrder
  BY DEF GInv
<1> QED BY <1>1, GroupInvariant, PTL

\* A commit never moves an offset back, not even a late one by a worker that lost
\* partitions meanwhile.
THEOREM CommittedMonotone == GroupSpec => CommittedNeverRegresses
<1>1. GInv /\ [GroupNext]_groupVars =>
        [\A p \in Partitions : committed'[p] >= committed[p]]_groupVars
  <2> SUFFICES ASSUME GInv, GroupNext PROVE \A p \in Partitions : committed'[p] >= committed[p]
    OBVIOUS
  <2>1. CASE UNCHANGED committed
    BY <2>1 DEF GInv, TypeOK
  <2>2. ASSUME NEW w \in Workers, Commit(w) \/ CommitFails(w)
        PROVE  \A p \in Partitions : committed'[p] >= committed[p]
    <3>1. pc[w] \in {"commit", "skip"} /\ (CommitOwned(w) \/ UNCHANGED committed) /\ UNCHANGED log
      BY <2>2 DEF Commit, CommitFails, GoDown
    <3>2. \A p \in Partitions : committed[p] <= committed'[p] /\ committed'[p] \in Nat
      BY <3>1, CommitSound DEF GInv, CommitOwned, TypeOK
    <3> QED BY <3>2 DEF GInv, TypeOK
  <2> QED BY <2>1, <2>2
          DEF GroupNext, Coordinate, Consume, Publish, Assign, Rebalance, GiveTo, Poll,
              HandlerReturns, HandlerRetries, HandlerGivesUp, Crash, Restart, broker
<1> QED BY <1>1, GroupInvariant, PTL DEF GroupSpec, CommittedNeverRegresses

\* The consumer group implements at-least-once delivery: a return of the handler or a
\* last failure settles a record, a commit commits, and the rest is invisible.
THEOREM ImplementsAtLeastOnce == GroupSpec => DeliverySpec
<1>1. Init => Delivery!Init
  BY DEF Init, Delivery!Init, Settled
<1>2. GInv /\ GInv' /\ [GroupNext]_groupVars => [Delivery!Next]_(Delivery!vars)
  <2> SUFFICES ASSUME GInv, GInv', [GroupNext]_groupVars
               PROVE  Delivery!Next \/ UNCHANGED <<log, Settled, committed>>
    BY DEF Delivery!vars
  <2>1. CASE UNCHANGED groupVars
    BY <2>1 DEF groupVars, broker, ghosts, Settled
  <2>2. ASSUME NEW p \in Partitions, NEW r \in Records, Publish(p, r)
        PROVE  Delivery!Next
    BY <2>2 DEF Publish, ghosts, Settled, Delivery!Next, Delivery!Publish
  <2>3. CASE Coordinate
    BY <2>3 DEF Coordinate, Assign, Rebalance, GiveTo, ghosts, Settled
  <2>4. ASSUME NEW w \in Workers, HandlerReturns(w) \/ HandlerGivesUp(w)
        PROVE  Delivery!Next
    <3>1. /\ pc[w] = "handle"
          /\ UNCHANGED <<log, committed>>
      BY <2>4 DEF HandlerReturns, HandlerGivesUp, HandlerRaises, broker
    <3>2. /\ record[w][1] \in Partitions
          /\ record[w][2] \in 1..Len(log[record[w][1]])
          /\ 1..(record[w][2] - 1) \subseteq Settled[record[w][1]]
      BY <3>1 DEF GInv, OffsetsInv, Busy, InOrder
    <3>3. Settled' = [Settled EXCEPT ![record[w][1]] = @ \cup {record[w][2]}]
      BY <2>4, SettleStep DEF GInv
    <3>4. Delivery!Settle(record[w][1], record[w][2])
      BY <3>1, <3>2, <3>3 DEF Delivery!Settle
    <3> QED BY <3>2, <3>4 DEF Delivery!Next
  <2>5. ASSUME NEW w \in Workers, Commit(w) \/ CommitFails(w)
        PROVE  Delivery!Next
    <3>1. /\ pc[w] \in {"commit", "skip"}
          /\ CommitOwned(w) \/ UNCHANGED committed
          /\ UNCHANGED <<log, Settled>>
      BY <2>5 DEF Commit, CommitFails, GoDown, ghosts, Settled
    <3>2. \A p \in Partitions : /\ committed'[p] \in committed[p]..Len(log[p])
                                 /\ 1..committed'[p] \subseteq Settled[p]
      <4>1. \A p \in Partitions : /\ committed[p] <= committed'[p]
                                   /\ committed'[p] <= Len(log[p])
                                   /\ 1..committed'[p] \subseteq Settled[p]
        BY <3>1, CommitSound
      <4>2. \A p \in Partitions : committed[p] \in Nat /\ committed'[p] \in Nat /\ Len(log[p]) \in Nat
        BY DEF GInv, TypeOK
      <4> QED BY <4>1, <4>2
    <3>3. DOMAIN committed' = Partitions
      BY DEF GInv, TypeOK
    <3> QED BY <3>1, <3>2, <3>3 DEF Delivery!Next, Delivery!Commit
  <2>6. ASSUME NEW w \in Workers,
               \/ \E p \in Partitions : Poll(w, p)
               \/ HandlerRetries(w) \/ Crash(w) \/ Restart(w)
        PROVE  UNCHANGED <<log, Settled, committed>>
    BY <2>6 DEF Poll, HandlerRetries, Crash, Restart, GoDown, broker, ghosts, Settled
  <2> QED BY <2>1, <2>2, <2>3, <2>4, <2>5, <2>6 DEF GroupNext, Consume
<1> QED BY <1>1, <1>2, GroupInvariant, PTL DEF GroupSpec, DeliverySpec, Delivery!Spec

(***************************************************************************)
(* The feature pipeline                                                    *)
(***************************************************************************)

\* Every step of the pipeline is a step of the group or leaves the group alone.
LEMMA PipelineStepIsGroupStep ==
  [PipelineNext]_pipelineVars => [GroupNext]_groupVars
<1> SUFFICES ASSUME [PipelineNext]_pipelineVars PROVE GroupNext \/ UNCHANGED groupVars
  OBVIOUS
<1>1. CASE UNCHANGED pipelineVars
  BY <1>1 DEF pipelineVars
<1>2. ASSUME NEW e \in Records, PublishEvent(e) PROVE GroupNext
  BY <1>2, PipelineAssumption DEF PublishEvent, GroupNext
<1>3. ASSUME NEW w \in Workers, PollEvent(w) \/ ReturnFromHandler(w)
      PROVE  GroupNext
  BY <1>3 DEF PollEvent, ReturnFromHandler, GroupNext, Consume
<1>4. ASSUME NEW w \in Workers, RetryHandler(w) \/ GiveUpHandler(w)
      PROVE  GroupNext
  BY <1>4 DEF RetryHandler, GiveUpHandler, GroupNext, Consume
<1>5. ASSUME NEW w \in Workers, GroupStep(w) PROVE GroupNext
  BY <1>5 DEF GroupStep, GroupNext, Consume
<1>6. ASSUME NEW w \in Workers, RunCommand(w) PROVE UNCHANGED groupVars
  BY <1>6 DEF RunCommand
<1>7. CASE CoordinateGroup
  BY <1>7 DEF CoordinateGroup, GroupNext
<1>8. ASSUME NEW k \in Keys, KeyLapses(k) PROVE UNCHANGED groupVars
  BY <1>8 DEF KeyLapses
<1> QED BY <1>1, <1>2, <1>3, <1>4, <1>5, <1>6, <1>7, <1>8 DEF PipelineNext

\* The pipeline takes the steps of its consumer group.
LEMMA PipelineIsGroup == PipelineSpec => GroupSpec
<1>1. PipelineInit => Init
  BY DEF PipelineInit
<1> QED BY <1>1, PipelineStepIsGroupStep, PTL DEF PipelineSpec, GroupSpec

\* So a feature update is never skipped over, and updates of one user's events are
\* first taken up in the order of user-events.
THEOREM PipelineDelivery == PipelineSpec => [](CommittedIsSettled /\ InOrder)
<1> QED BY PipelineIsGroup, NoRecordSkipped, PartitionsInOrder, PTL

-----------------------------------------------------------------------------
(* Types *)

PipelineInv == GInv /\ PipelineTypeOK

LEMMA MembersType ==
  ASSUME NEW m
  PROVE  m \in Members <=> DOMAIN m \subseteq Items /\ m \in [DOMAIN m -> Nat]
  BY DEF Members

\* ZADD and ZREMRANGEBYRANK leave a sorted set of items.
LEMMA ZAddType ==
  ASSUME NEW m \in Members, NEW i \in Items, NEW score \in Nat
  PROVE  ZAdd(m, i, score) \in Members
<1>1. DOMAIN m \cup {i} \subseteq Items /\ m \in [DOMAIN m -> Nat]
  BY MembersType
<1>2. ZAdd(m, i, score) \in [DOMAIN m \cup {i} -> Nat]
  BY <1>1 DEF ZAdd
<1> QED BY <1>1, <1>2 DEF Members

LEMMA NewestType ==
  ASSUME NEW m \in Members
  PROVE  Newest(m) \in Members
<1> DEFINE S == {i \in DOMAIN m : Cardinality({j \in DOMAIN m : m[j] > m[i]}) < Cap}
<1>1. S \subseteq DOMAIN m /\ DOMAIN m \subseteq Items /\ m \in [DOMAIN m -> Nat]
  BY MembersType
<1>2. Newest(m) = [i \in S |-> m[i]]
  BY DEF Newest, Restrict
<1> HIDE DEF S
<1>3. Newest(m) \in [S -> Nat]
  BY <1>1, <1>2
<1> QED BY <1>1, <1>3 DEF Members

\* A busy worker's record is one of the events.
LEMMA ContentType ==
  ASSUME GInv, NEW w \in Workers, pc[w] = "handle"
  PROVE  Content(w) \in Records
<1>1. /\ record[w] \in Partitions \X (Nat \ {0})
      /\ record[w][2] \in 1..Len(log[record[w][1]])
  BY DEF GInv, OffsetsInv, Busy
<1>2. log[record[w][1]] \in Seq(Records)
  BY <1>1 DEF GInv, TypeOK
<1> QED BY <1>1, <1>2 DEF Content

\* Every command leaves the keys well formed.
LEMMA CommandType ==
  ASSUME PipelineInv, NEW w \in Workers, pc[w] = "handle", Command(w)
  PROVE  /\ recent' \in [Users -> Members]
         /\ trending' \in [Items -> Int]
         /\ viewers' \subseteq Items \X Users
         /\ volatile' \subseteq Keys /\ lapsed' \subseteq Keys
<1> DEFINE e == Content(w)
<1>1. /\ User[e] \in Users /\ Item[e] \in Items /\ Weight[e] \in Int
  BY ContentType, PipelineAssumption DEF PipelineInv
<1>2. /\ recent \in [Users -> Members] /\ trending \in [Items -> Int]
      /\ viewers \subseteq Items \X Users /\ volatile \subseteq Keys /\ lapsed \subseteq Keys
      /\ stamp[w] \in Nat
  BY DEF PipelineInv, PipelineTypeOK
<1>3. \A k \in Keys : SetTTL(k) => volatile' \subseteq Keys
  BY <1>2 DEF SetTTL
<1>4. CASE AddRecentItem(w)
  <2>1. /\ ZAdd(recent[User[e]], Item[e], stamp[w]) \in Members
        /\ Newest(recent[User[e]]) \in Members
    BY <1>1, <1>2, ZAddType, NewestType
  <2>2. recent' \in [Users -> Members] /\ UNCHANGED <<trending, viewers>>
    BY <1>1, <1>2, <1>4, <2>1 DEF AddRecentItem
  <2>3. volatile' \subseteq Keys
    BY <1>1, <1>2, <1>3, <1>4 DEF AddRecentItem, Keys
  <2> QED BY <1>2, <2>2, <2>3 DEF Command
<1>5. CASE TrackUniqueViewer(w)
  BY <1>1, <1>2, <1>5 DEF TrackUniqueViewer, Command
<1>6. CASE IncrTrending(w)
  <2>1. /\ trending[Item[e]] + Weight[e] \in Int
        /\ UNCHANGED <<recent, viewers>>
    BY <1>1, <1>2, <1>6 DEF IncrTrending
  <2>2. trending' \in [Items -> Int]
    BY <1>1, <1>2, <1>6, <2>1 DEF IncrTrending
  <2>3. volatile' \subseteq Keys
    BY <1>2, <1>3, <1>6 DEF IncrTrending, Keys
  <2> QED BY <1>2, <2>1, <2>2, <2>3 DEF Command
<1> QED BY <1>4, <1>5, <1>6 DEF Command

LEMMA HandlerTypes ==
  ASSUME PipelineInv, NEW w \in Workers, CallHandler(w) \/ DropCall(w)
  PROVE  stage' \in [Workers -> Stages] /\ stamp' \in [Workers -> Nat] /\ clock' \in Nat
  BY DEF PipelineInv, PipelineTypeOK, CallHandler, DropCall, Stages

LEMMA NextStageType ==
  ASSUME NEW w \in Workers, stage[w] \in Stages, stage[w] # "end"
  PROVE  NextStage(w) \in Stages
  BY DEF NextStage, Stages

LEMMA PipelineTypeStep ==
  ASSUME PipelineInv, [PipelineNext]_pipelineVars, TypeOK'
  PROVE  PipelineTypeOK'
<1> USE DEF PipelineInv, PipelineTypeOK
<1>1. CASE UNCHANGED pipelineVars
  BY <1>1 DEF pipelineVars, handler, redis
<1>2. ASSUME NEW e \in Records, PublishEvent(e) PROVE PipelineTypeOK'
  BY <1>2 DEF PublishEvent, handler, redis
<1>3. ASSUME NEW w \in Workers, PollEvent(w) \/ ReturnFromHandler(w) \/ GroupStep(w)
      PROVE  PipelineTypeOK'
  BY <1>3, HandlerTypes DEF PollEvent, ReturnFromHandler, GroupStep, redis
<1>4. ASSUME NEW w \in Workers, RetryHandler(w) \/ GiveUpHandler(w)
      PROVE  PipelineTypeOK'
  <2>1. pc[w] = "handle" /\ (UNCHANGED redis \/ Command(w))
    BY <1>4 DEF RetryHandler, GiveUpHandler, HandleEventRaises, RedisRaises, TimestampRaises
  <2>2. CallHandler(w) \/ DropCall(w)
    BY <1>4 DEF RetryHandler, GiveUpHandler
  <2>3. stage' \in [Workers -> Stages] /\ stamp' \in [Workers -> Nat] /\ clock' \in Nat
    BY <2>2, HandlerTypes
  <2>4. CASE UNCHANGED redis
    BY <2>3, <2>4 DEF redis
  <2>5. CASE Command(w)
    BY <2>1, <2>3, <2>5, CommandType
  <2> QED BY <2>1, <2>4, <2>5
<1>5. ASSUME NEW w \in Workers, RunCommand(w) PROVE PipelineTypeOK'
  <2>1. pc[w] = "handle" /\ Command(w)
    BY <1>5 DEF RunCommand
  <2>2. stage[w] # "end"
    BY <2>1 DEF Command, AddRecentItem, TrackUniqueViewer, IncrTrending
  <2>3. stage' \in [Workers -> Stages] /\ stamp' \in [Workers -> Nat] /\ clock' \in Nat
    BY <1>5, <2>2, NextStageType DEF RunCommand
  <2> QED BY <2>1, <2>3, CommandType
<1>6. CASE CoordinateGroup
  BY <1>6 DEF CoordinateGroup, handler, redis
<1>7. ASSUME NEW k \in Keys, KeyLapses(k) PROVE PipelineTypeOK'
  <2>1. [i \in {} |-> 0] \in Members
    BY MembersType
  <2>2. recent' \in [Users -> Members] /\ trending' \in [Items -> Int]
    BY <1>7, <2>1 DEF KeyLapses, Keys
  <2> QED BY <1>7, <2>2 DEF KeyLapses, handler
<1> QED BY <1>1, <1>2, <1>3, <1>4, <1>5, <1>6, <1>7 DEF PipelineNext

LEMMA PipelineInvInit == PipelineInit => PipelineInv
<1> SUFFICES ASSUME PipelineInit PROVE PipelineInv
  OBVIOUS
<1>1. [i \in {} |-> 0] \in Members
  BY MembersType
<1>2. GInv /\ TypeOK
  BY GroupInit, GroupTypeInit DEF PipelineInit
<1> QED BY <1>1, <1>2 DEF PipelineInit, PipelineInv, PipelineTypeOK, Stages

LEMMA PipelineInvStep == PipelineInv /\ [PipelineNext]_pipelineVars => PipelineInv'
<1>1. PipelineInv /\ [PipelineNext]_pipelineVars => GInv'
  BY PipelineStepIsGroupStep, GroupInvStep DEF PipelineInv
<1>2. GInv' => TypeOK'
  BY DEF GInv
<1> QED BY <1>1, <1>2, PipelineTypeStep DEF PipelineInv

\* Every key of Redis and every call of the handler keeps its type: the sorted set of a user
\* holds items with time stamps, whatever commands of several workers interleave on it.
THEOREM PipelineTypeCorrect == PipelineSpec => []PipelineTypeOK
<1>1. PipelineInv => PipelineTypeOK
  BY DEF PipelineInv
<1> QED BY <1>1, PipelineInvInit, PipelineInvStep, PTL DEF PipelineSpec

-----------------------------------------------------------------------------
(* The calls of the handler *)

\* The log only grows: what a position holds stays.
LEMMA LogGrows ==
  ASSUME GInv, [GroupNext]_groupVars, NEW p \in Partitions, NEW o \in 1..Len(log[p])
  PROVE  o \in 1..Len(log'[p]) /\ log'[p][o] = log[p][o]
<1>1. CASE UNCHANGED log
  BY <1>1
<1>2. ASSUME NEW q \in Partitions, NEW r \in Records, Publish(q, r)
      PROVE  o \in 1..Len(log'[p]) /\ log'[p][o] = log[p][o]
  BY <1>2 DEF Publish, GInv, TypeOK
<1> QED
  BY <1>1, <1>2 DEF GroupNext, groupVars, broker, Coordinate, Consume, Assign, Rebalance, GiveTo,
     Poll, HandlerReturns, HandlerRetries, HandlerGivesUp, Commit, CommitFails, Crash, Restart,
     GoDown

\* The worker's call: where it stands and what it has left to do.
CallOK(w) ==
    /\ pc[w] # "handle" => stage[w] = "zadd" /\ stamp[w] = 0
    /\ Within(w, {"zadd"}) => stamp[w] # 0
    /\ Within(w, {"zincrby", "expireTrending"}) => Weight[Content(w)] > 0

\* A busy worker's record is in the log, and stays there.
LEMMA ContentStays ==
  ASSUME GInv, [GroupNext]_groupVars, NEW w \in Workers, pc[w] = "handle", record'[w] = record[w]
  PROVE  Content(w)' = Content(w)
<1>1. /\ record[w][1] \in Partitions
      /\ record[w][2] \in 1..Len(log[record[w][1]])
  BY DEF GInv, OffsetsInv, Busy
<1>2. log'[record[w][1]][record[w][2]] = log[record[w][1]][record[w][2]]
  BY <1>1, LogGrows
<1> QED BY <1>2 DEF Content

CallUnchanged(w) == UNCHANGED <<pc[w], record[w], attempt[w], stage[w], stamp[w]>>

LEMMA CallStays ==
  ASSUME GInv, [GroupNext]_groupVars, NEW w \in Workers, CallOK(w), CallUnchanged(w)
  PROVE  CallOK(w)'
  BY ContentStays DEF CallOK, CallUnchanged, Within

\* A step changes the call of one worker at most.
LEMMA OtherCallsStay ==
  ASSUME PipelineInv, NEW w \in Workers, NEW v \in Workers, v # w,
         \/ PollEvent(w) \/ RunCommand(w) \/ ReturnFromHandler(w)
         \/ RetryHandler(w) \/ GiveUpHandler(w) \/ GroupStep(w)
  PROVE  CallUnchanged(v)
<1> USE DEF PipelineInv, PipelineTypeOK, TypeOK, CallUnchanged, CallHandler, DropCall
<1>1. CASE PollEvent(w)
  BY <1>1 DEF PollEvent, Poll
<1>2. CASE RunCommand(w)
  BY <1>2 DEF RunCommand, groupVars, loop
<1>3. CASE ReturnFromHandler(w)
  BY <1>3 DEF ReturnFromHandler, HandlerReturns
<1>4. CASE RetryHandler(w)
  BY <1>4 DEF RetryHandler, HandlerRetries
<1>5. CASE GiveUpHandler(w)
  BY <1>5 DEF GiveUpHandler, HandlerGivesUp
<1>6. CASE GroupStep(w)
  BY <1>6 DEF GroupStep, Commit, CommitFails, Crash, Restart, GoDown
<1> QED BY <1>1, <1>2, <1>3, <1>4, <1>5, <1>6

CallsOK == \A w \in Workers : CallOK(w)

LEMMA CallsInit == PipelineInit => CallsOK
  BY DEF PipelineInit, Init, CallsOK, CallOK, Within

LEMMA CallsStep == PipelineInv /\ CallsOK /\ [PipelineNext]_pipelineVars => CallsOK'
<1> SUFFICES ASSUME PipelineInv, CallsOK, [PipelineNext]_pipelineVars, NEW v \in Workers
             PROVE  CallOK(v)'
  BY DEF CallsOK
<1>0. GInv /\ [GroupNext]_groupVars /\ CallOK(v)
  BY PipelineStepIsGroupStep DEF PipelineInv, CallsOK
<1>1. ASSUME CallUnchanged(v) PROVE CallOK(v)'
  BY <1>0, <1>1, CallStays
<1>2. CASE UNCHANGED pipelineVars
  BY <1>1, <1>2 DEF pipelineVars, groupVars, loop, handler, CallUnchanged
<1>3. ASSUME NEW e \in Records, PublishEvent(e) PROVE CallOK(v)'
  BY <1>1, <1>3 DEF PublishEvent, Publish, loop, handler, CallUnchanged
<1>4. CASE CoordinateGroup
  BY <1>1, <1>4 DEF CoordinateGroup, Coordinate, Assign, Rebalance, GiveTo, loop, handler,
                    CallUnchanged
<1>5. ASSUME NEW k \in Keys, KeyLapses(k) PROVE CallOK(v)'
  BY <1>1, <1>5 DEF KeyLapses, groupVars, loop, handler, CallUnchanged
<1>6. ASSUME NEW w \in Workers,
             \/ PollEvent(w) \/ RunCommand(w) \/ ReturnFromHandler(w)
             \/ RetryHandler(w) \/ GiveUpHandler(w) \/ GroupStep(w)
      PROVE  CallOK(v)'
  <2>1. CASE v # w
    BY <1>1, <1>6, <2>1, OtherCallsStay
  <2>2. CASE v = w /\ RunCommand(w)
    <3>1. /\ pc'[w] = "handle" /\ pc[w] = "handle"
          /\ Content(w)' = Content(w)
          /\ stage'[w] = NextStage(w)
      BY <1>0, <2>2, ContentStays
         DEF RunCommand, groupVars, loop, PipelineInv, PipelineTypeOK
    <3>2. stage[w] \in Stages \ {"end"}
      BY <2>2 DEF RunCommand, Command, AddRecentItem, TrackUniqueViewer, IncrTrending,
                  PipelineInv, PipelineTypeOK
    <3> QED BY <1>0, <2>2, <3>1, <3>2 DEF CallOK, Within, NextStage, Stages
  <2>3. CASE v = w /\ (PollEvent(w) \/ RetryHandler(w))
    <3>1. stage'[w] = "zadd" /\ pc'[w] = "handle" /\ stamp'[w] # 0
      BY <2>3 DEF PollEvent, Poll, RetryHandler, HandlerRetries, HandlerRaises, CallHandler,
                  PipelineInv, PipelineTypeOK, TypeOK
    <3> QED BY <2>3, <3>1 DEF CallOK, Within
  <2>4. CASE v = w /\ (ReturnFromHandler(w) \/ GiveUpHandler(w) \/ GroupStep(w))
    <3>1. stage'[w] = "zadd" /\ stamp'[w] = 0
      BY <2>4 DEF ReturnFromHandler, GiveUpHandler, GroupStep, DropCall,
                  PipelineInv, PipelineTypeOK, TypeOK
    <3>2. pc'[w] # "handle"
      BY <2>4 DEF ReturnFromHandler, GiveUpHandler, GroupStep, HandlerReturns, HandlerGivesUp,
                  Commit, CommitFails, Crash, Restart, GoDown, PipelineInv, PipelineTypeOK, TypeOK
    <3> QED BY <2>4, <3>1, <3>2 DEF CallOK, Within
  <2> QED BY <1>6, <2>1, <2>2, <2>3, <2>4
<1> QED BY <1>2, <1>3, <1>4, <1>5, <1>6 DEF PipelineNext

-----------------------------------------------------------------------------
(* Every key gets its TTL *)

\* The worker that is about to set the TTL of a key.
Expiring(k, w) ==
    IF k = Trending THEN Within(w, {"expireTrending"})
    ELSE Within(w, {"expire"}) /\ User[Content(w)] = k

KeysExpire == faults = 0 =>
    \A k \in Keys : Exists(k) /\ k \notin volatile => \E w \in Workers : Expiring(k, w)

\* A step that leaves a worker at EXPIRE leaves it at the same key.
LEMMA ExpiringStays ==
  ASSUME GInv, [GroupNext]_groupVars, NEW w \in Workers, NEW k, Expiring(k, w), CallUnchanged(w)
  PROVE  Expiring(k, w)'
<1>1. pc[w] = "handle"
  BY DEF Expiring, Within
<1>2. Content(w)' = Content(w)
  BY <1>1, ContentStays DEF CallUnchanged
<1> QED BY <1>2 DEF Expiring, CallUnchanged, Within

\* Steps that create no key and take no TTL, and interrupt no worker at EXPIRE.
LEMMA KeysExpireQuiet ==
  ASSUME GInv, [GroupNext]_groupVars, KeysExpire, faults' = 0 => faults = 0,
         UNCHANGED <<recent, trending, volatile>>,
         \A w \in Workers : CallUnchanged(w) \/ ~Within(w, {"expire", "expireTrending"})
  PROVE  KeysExpire'
<1> SUFFICES ASSUME faults' = 0, NEW k \in Keys, Exists(k)', k \notin volatile'
             PROVE  \E w \in Workers : Expiring(k, w)'
  BY DEF KeysExpire
<1>1. Exists(k) /\ k \notin volatile
  BY DEF Exists
<1>2. PICK w \in Workers : Expiring(k, w)
  BY <1>1 DEF KeysExpire
<1>3. CallUnchanged(w)
  BY <1>2 DEF Expiring, Within
<1> QED BY <1>2, <1>3, ExpiringStays

LEMMA KeysExpireInit == PipelineInit => KeysExpire
  BY DEF PipelineInit, KeysExpire, Keys, Exists

LEMMA ZAddDomain ==
  ASSUME NEW m, NEW i, NEW score
  PROVE  DOMAIN ZAdd(m, i, score) = DOMAIN m \cup {i}
  BY DEF ZAdd

LEMMA NewestDomain ==
  ASSUME NEW m
  PROVE  DOMAIN Newest(m) \subseteq DOMAIN m
  BY DEF Newest, Restrict

\* A command creates a key only if the next one sets its TTL.
LEMMA KeysExpireCommand ==
  ASSUME PipelineInv, CallsOK, KeysExpire, NEW w \in Workers, RunCommand(w)
  PROVE  KeysExpire'
<1> DEFINE u == User[Content(w)]
<1>0. /\ GInv /\ [GroupNext]_groupVars /\ pc[w] = "handle" /\ pc'[w] = "handle"
      /\ Content(w)' = Content(w) /\ u \in Users /\ Trending \notin Users
      /\ UNCHANGED faults /\ Command(w) /\ stage'[w] = NextStage(w)
      /\ recent \in [Users -> Members]
  BY ContentStays, ContentType, PipelineAssumption
     DEF RunCommand, groupVars, loop, PipelineInv, PipelineTypeOK
<1> SUFFICES ASSUME faults' = 0, NEW k \in Keys, Exists(k)', k \notin volatile'
             PROVE  \E v \in Workers : Expiring(k, v)'
  BY DEF KeysExpire
<1>1. ASSUME Exists(k), k \notin volatile, stage[w] \notin {"expire", "expireTrending"}
      PROVE  \E v \in Workers : Expiring(k, v)'
  <2>1. PICK v \in Workers : Expiring(k, v)
    BY <1>0, <1>1 DEF KeysExpire
  <2>2. v # w
    BY <1>1, <2>1 DEF Expiring, Within
  <2>3. CallUnchanged(v)
    BY <2>2, OtherCallsStay
  <2> QED BY <1>0, <2>1, <2>3, ExpiringStays
<1>2. CASE stage[w] = "zadd"
  <2>1. /\ recent' = [recent EXCEPT ![u] = ZAdd(@, Item[Content(w)], stamp[w])]
        /\ UNCHANGED <<trending, volatile>>
    BY <1>0, <1>2 DEF Command, AddRecentItem, TrackUniqueViewer, IncrTrending
  <2>2. CASE k = u
    <3>1. stage'[w] = "expire" /\ k # Trending
      BY <1>0, <1>2, <2>2 DEF NextStage
    <3>2. Expiring(k, w)'
      BY <1>0, <2>2, <3>1 DEF Expiring, Within
    <3> QED BY <3>2
  <2>3. CASE k # u
    <3>1. Exists(k) /\ k \notin volatile
      BY <1>0, <2>1, <2>3 DEF Exists, Keys
    <3> QED BY <1>1, <1>2, <3>1
  <2> QED BY <2>2, <2>3
<1>3. CASE stage[w] \in {"expire", "expireTrending"}
  <2> DEFINE key == IF stage[w] = "expire" THEN u ELSE Trending
  <2>1. SetTTL(key) /\ UNCHANGED <<recent, trending>>
    BY <1>0, <1>3 DEF Command, AddRecentItem, TrackUniqueViewer, IncrTrending
  <2>2. Exists(k) /\ k \notin volatile /\ k # key
    BY <2>1 DEF SetTTL, Exists
  <2>3. PICK v \in Workers : Expiring(k, v)
    BY <1>0, <2>2 DEF KeysExpire
  <2>4. v # w
    BY <1>0, <1>3, <2>2, <2>3 DEF Expiring, Within, Keys
  <2>5. CallUnchanged(v)
    BY <2>4, OtherCallsStay
  <2> QED BY <1>0, <2>3, <2>5, ExpiringStays
<1>4. CASE stage[w] = "trim"
  <2>1. /\ recent' = [recent EXCEPT ![u] = Newest(@)]
        /\ UNCHANGED <<trending, volatile>>
    BY <1>0, <1>4 DEF Command, AddRecentItem, TrackUniqueViewer, IncrTrending
  <2>2. Exists(k) /\ k \notin volatile
    BY <1>0, <2>1, NewestDomain DEF Exists, Keys
  <2> QED BY <1>1, <1>4, <2>2
<1>5. CASE stage[w] = "pfadd"
  <2>1. UNCHANGED <<recent, trending, volatile>>
    BY <1>0, <1>5 DEF Command, AddRecentItem, TrackUniqueViewer, IncrTrending
  <2> QED BY <1>1, <1>5, <2>1 DEF Exists
<1>6. CASE stage[w] = "zincrby"
  <2>1. UNCHANGED <<recent, volatile>>
    BY <1>0, <1>6 DEF Command, AddRecentItem, TrackUniqueViewer, IncrTrending
  <2>2. CASE k = Trending
    <3>1. stage'[w] = "expireTrending"
      BY <1>0, <1>6 DEF NextStage
    <3> QED BY <1>0, <2>2, <3>1 DEF Expiring, Within
  <2>3. CASE k # Trending
    BY <1>1, <1>6, <2>1, <2>3 DEF Exists
  <2> QED BY <2>2, <2>3
<1> QED BY <1>0, <1>2, <1>3, <1>4, <1>5, <1>6
        DEF Command, AddRecentItem, TrackUniqueViewer, IncrTrending

LEMMA KeysExpireStep ==
  PipelineInv /\ CallsOK /\ KeysExpire /\ [PipelineNext]_pipelineVars => KeysExpire'
<1> SUFFICES ASSUME PipelineInv, CallsOK, KeysExpire, [PipelineNext]_pipelineVars
             PROVE  KeysExpire'
  OBVIOUS
<1>0. GInv /\ [GroupNext]_groupVars /\ faults \in Nat
  BY PipelineStepIsGroupStep, ConsumerAssumption DEF PipelineInv, GInv, TypeOK
<1> USE DEF groupVars, loop, handler, redis, CallUnchanged
<1>1. CASE UNCHANGED pipelineVars
  BY <1>0, <1>1, KeysExpireQuiet DEF pipelineVars
<1>2. ASSUME NEW e \in Records, PublishEvent(e) PROVE KeysExpire'
  BY <1>0, <1>2, KeysExpireQuiet DEF PublishEvent, Publish
<1>3. CASE CoordinateGroup
  BY <1>0, <1>3, KeysExpireQuiet
     DEF CoordinateGroup, Coordinate, Assign, Rebalance, GiveTo, Fault
<1>4. ASSUME NEW k \in Keys, KeyLapses(k) PROVE KeysExpire'
  <2> SUFFICES ASSUME faults' = 0, NEW j \in Keys, Exists(j)', j \notin volatile'
               PROVE  \E w \in Workers : Expiring(j, w)'
    BY DEF KeysExpire
  <2>1. j # k /\ Exists(j)
    BY <1>4, PipelineAssumption DEF KeyLapses, Exists, Keys, PipelineInv, PipelineTypeOK
  <2>2. j \notin volatile /\ faults = 0
    BY <1>4, <2>1 DEF KeyLapses
  <2>3. PICK w \in Workers : Expiring(j, w)
    BY <2>1, <2>2 DEF KeysExpire
  <2>4. CallUnchanged(w)
    BY <1>4 DEF KeyLapses
  <2> QED BY <1>0, <2>3, <2>4, ExpiringStays
<1>5. ASSUME NEW w \in Workers, PollEvent(w) \/ ReturnFromHandler(w) PROVE KeysExpire'
  <2>1. /\ ~Within(w, {"expire", "expireTrending"})
        /\ UNCHANGED <<recent, trending, volatile, faults>>
    BY <1>5 DEF PollEvent, Poll, ReturnFromHandler, HandlerReturns, Within
  <2> QED BY <1>0, <1>5, <2>1, OtherCallsStay, KeysExpireQuiet
<1>6. ASSUME NEW w \in Workers, RunCommand(w) PROVE KeysExpire'
  BY <1>6, KeysExpireCommand
<1>7. ASSUME NEW w \in Workers, RetryHandler(w) \/ GiveUpHandler(w) PROVE KeysExpire'
  <2>1. RedisRaises(w) \/ TimestampRaises(w)
    BY <1>7 DEF RetryHandler, GiveUpHandler, HandleEventRaises
  <2>2. CASE RedisRaises(w)
    BY <1>0, <2>2 DEF RedisRaises, Fault, KeysExpire
  <2>3. CASE TimestampRaises(w)
    <3>1. /\ ~Within(w, {"expire", "expireTrending"})
          /\ UNCHANGED <<recent, trending, volatile, faults>>
      BY <2>3 DEF TimestampRaises, Within
    <3> QED BY <1>0, <1>7, <3>1, OtherCallsStay, KeysExpireQuiet
  <2> QED BY <2>1, <2>2, <2>3
<1>8. ASSUME NEW w \in Workers, GroupStep(w) PROVE KeysExpire'
  <2>1. CASE faults' = faults + 1
    BY <1>0, <2>1 DEF KeysExpire
  <2>2. CASE UNCHANGED faults /\ pc[w] # "handle"
    BY <1>0, <1>8, <2>2, OtherCallsStay, KeysExpireQuiet DEF GroupStep, Within
  <2> QED BY <1>8, <2>1, <2>2 DEF GroupStep, Commit, CommitFails, Crash, Restart, Fault
<1> QED BY <1>1, <1>2, <1>3, <1>4, <1>5, <1>6, <1>7, <1>8 DEF PipelineNext

\* The types and the places of the calls hold in every reachable state.
THEOREM PipelineInvariant == PipelineSpec => [](PipelineInv /\ CallsOK)
<1>1. PipelineInit => PipelineInv
  BY PipelineInvInit
<1>2. PipelineInv /\ [PipelineNext]_pipelineVars => PipelineInv'
  BY PipelineInvStep
<1> QED BY <1>1, <1>2, CallsInit, CallsStep, PTL DEF PipelineSpec

\* Without faults no key stays without its TTL.
THEOREM NoKeyStaysForever == PipelineSpec => []NoKeyForever
<1>1. KeysExpire => NoKeyForever
  BY PipelineAssumption DEF KeysExpire, NoKeyForever, Keys, Expiring
<1>2. PipelineInit => KeysExpire
  BY KeysExpireInit
<1>3. PipelineInv /\ CallsOK /\ KeysExpire /\ [PipelineNext]_pipelineVars => KeysExpire'
  BY KeysExpireStep
<1> QED BY <1>1, <1>2, <1>3, PipelineInvariant, PTL DEF PipelineSpec

-----------------------------------------------------------------------------
(* The scores of the sorted sets differ *)

\* No two members of a sorted set have one score, nor will two have: the stamps not yet sent
\* are different from one another and from every score.
ScoresOK ==
    /\ \A w \in Workers : stamp[w] <= clock
    /\ \A v, w \in Workers : v # w /\ stamp[v] = stamp[w] => stamp[w] = 0
    /\ \A u \in Users : \A i \in DOMAIN recent[u] :
         /\ recent[u][i] \in 1..clock
         /\ \A w \in Workers : stamp[w] # recent[u][i]
         /\ \A j \in DOMAIN recent[u] : recent[u][j] = recent[u][i] => j = i

\* The sorted sets lose members at most.
Shrinks ==
    \A u \in Users : /\ DOMAIN recent'[u] \subseteq DOMAIN recent[u]
                     /\ \A i \in DOMAIN recent'[u] : recent'[u][i] = recent[u][i]

Adds(w) ==
    /\ stage[w] = "zadd"
    /\ recent' = [recent EXCEPT ![User[Content(w)]] = ZAdd(@, Item[Content(w)], stamp[w])]

LEMMA CommandOnRecent ==
  ASSUME PipelineInv, NEW w \in Workers, pc[w] = "handle", Command(w) \/ UNCHANGED redis
  PROVE  Shrinks \/ Adds(w)
<1>0. User[Content(w)] \in Users /\ recent \in [Users -> Members]
  BY ContentType, PipelineAssumption DEF PipelineInv, PipelineTypeOK
<1>1. CASE UNCHANGED recent
  BY <1>1 DEF Shrinks
<1>2. CASE recent' = [recent EXCEPT ![User[Content(w)]] = Newest(@)]
  <2>1. \A m : /\ DOMAIN Newest(m) \subseteq DOMAIN m
               /\ \A i \in DOMAIN Newest(m) : Newest(m)[i] = m[i]
    BY DEF Newest, Restrict
  <2> QED BY <1>0, <1>2, <2>1 DEF Shrinks
<1> QED BY <1>1, <1>2 DEF Command, AddRecentItem, TrackUniqueViewer, IncrTrending, Adds, redis

\* The calls of the handler: a new stamp, or one stamp less.
Restamps(w) ==
    \/ clock' = clock + 1 /\ stamp' = [stamp EXCEPT ![w] = clock + 1]
    \/ clock' = clock /\ stamp' = [stamp EXCEPT ![w] = 0]

LEMMA RestampsTo ==
  ASSUME PipelineInv, NEW w \in Workers, Restamps(w)
  PROVE  /\ clock' \in Nat /\ clock <= clock'
         /\ \A v \in Workers \ {w} : stamp'[v] = stamp[v]
         /\ stamp'[w] = 0 \/ (stamp'[w] = clock' /\ clock' = clock + 1)
<1>1. stamp \in [Workers -> Nat] /\ clock \in Nat
  BY DEF PipelineInv, PipelineTypeOK
<1>2. CASE clock' = clock + 1 /\ stamp' = [stamp EXCEPT ![w] = clock + 1]
  BY <1>1, <1>2
<1>3. CASE clock' = clock /\ stamp' = [stamp EXCEPT ![w] = 0]
  BY <1>1, <1>3
<1> QED BY <1>2, <1>3 DEF Restamps

LEMMA ScoresShrink ==
  ASSUME PipelineInv, ScoresOK, Shrinks, NEW w \in Workers,
         Restamps(w) \/ UNCHANGED <<stamp, clock>>
  PROVE  ScoresOK'
<1>1. stamp \in [Workers -> Nat] /\ clock \in Nat
  BY DEF PipelineInv, PipelineTypeOK
<1>2. CASE UNCHANGED <<stamp, clock>>
  BY <1>1, <1>2 DEF ScoresOK, Shrinks
<1>3. CASE Restamps(w)
  <2>1. clock' \in Nat /\ clock <= clock'
    BY <1>3, RestampsTo
  <2>2. stamp'[w] = 0 \/ (stamp'[w] = clock' /\ clock' = clock + 1)
    BY <1>3, RestampsTo
  <2>3. \A v \in Workers \ {w} : stamp'[v] = stamp[v]
    BY <1>3, RestampsTo
  <2>4. \A v \in Workers : stamp'[v] <= clock'
    BY <1>1, <2>1, <2>2, <2>3 DEF ScoresOK
  <2>5. ASSUME NEW v \in Workers, NEW x \in Workers, v # x, stamp'[v] = stamp'[x]
        PROVE  stamp'[x] = 0
    BY <1>1, <2>1, <2>2, <2>3, <2>5 DEF ScoresOK
  <2>6. ASSUME NEW u \in Users, NEW i \in DOMAIN recent'[u]
        PROVE  /\ recent'[u][i] \in 1..clock'
               /\ \A v \in Workers : stamp'[v] # recent'[u][i]
               /\ \A j \in DOMAIN recent'[u] : recent'[u][j] = recent'[u][i] => j = i
    <3>1. /\ recent'[u][i] \in 1..clock /\ i \in DOMAIN recent[u]
          /\ recent'[u][i] = recent[u][i]
          /\ \A j \in DOMAIN recent'[u] : recent'[u][j] = recent[u][j] /\ j \in DOMAIN recent[u]
      BY DEF ScoresOK, Shrinks
    <3>2. \A v \in Workers : stamp[v] # recent[u][i]
      BY <3>1 DEF ScoresOK
    <3> QED BY <1>1, <2>1, <2>2, <2>3, <3>1, <3>2 DEF ScoresOK
  <2> QED BY <2>4, <2>5, <2>6 DEF ScoresOK
<1> QED BY <1>2, <1>3

LEMMA ScoresAdd ==
  ASSUME PipelineInv, ScoresOK, NEW w \in Workers, pc[w] = "handle", Adds(w), stamp[w] # 0,
         Restamps(w)
  PROVE  ScoresOK'
<1> DEFINE e == Content(w)
<1>1. /\ stamp \in [Workers -> Nat] /\ clock \in Nat
      /\ recent \in [Users -> Members]
      /\ User[e] \in Users /\ Item[e] \in Items
  BY ContentType, PipelineAssumption DEF PipelineInv, PipelineTypeOK
<1> HIDE DEF e
<1>2. recent' = [recent EXCEPT ![User[e]] = ZAdd(@, Item[e], stamp[w])]
  BY DEF Adds, e
<1>3. ASSUME NEW u \in Users, NEW i \in DOMAIN recent'[u]
      PROVE  \/ recent'[u][i] = stamp[w] /\ u = User[e] /\ i = Item[e]
             \/ i \in DOMAIN recent[u] /\ recent'[u][i] = recent[u][i]
  BY <1>1, <1>2 DEF ZAdd
<1>4. \A u \in Users : \A i \in DOMAIN recent[u] : recent[u][i] \in 1..clock /\ recent[u][i] # stamp[w]
  BY DEF ScoresOK
<1>5. stamp[w] \in 1..clock
  BY <1>1 DEF ScoresOK
<1>6. /\ clock' \in Nat /\ clock <= clock'
      /\ \A v \in Workers \ {w} : stamp'[v] = stamp[v]
      /\ stamp'[w] = 0 \/ (stamp'[w] = clock' /\ clock' = clock + 1)
  BY RestampsTo
<1>7. \A v \in Workers : stamp'[v] <= clock'
  BY <1>1, <1>6 DEF ScoresOK
<1>8. ASSUME NEW v \in Workers, NEW x \in Workers, v # x, stamp'[v] = stamp'[x]
      PROVE  stamp'[x] = 0
  BY <1>1, <1>6, <1>8 DEF ScoresOK
<1>9. ASSUME NEW u \in Users, NEW i \in DOMAIN recent'[u]
      PROVE  /\ recent'[u][i] \in 1..clock'
             /\ \A v \in Workers : stamp'[v] # recent'[u][i]
             /\ \A j \in DOMAIN recent'[u] : recent'[u][j] = recent'[u][i] => j = i
  <2>1. recent'[u][i] \in 1..clock
    BY <1>3, <1>4, <1>5
  <2>2. ASSUME NEW v \in Workers PROVE stamp'[v] # recent'[u][i]
    <3>1. CASE v = w
      BY <1>1, <1>6, <2>1, <3>1
    <3>2. CASE v # w
      <4>1. stamp'[v] = stamp[v]
        BY <1>6, <3>2
      <4>2. stamp[v] # stamp[w]
        BY <3>2 DEF ScoresOK
      <4>3. \A j \in DOMAIN recent[u] : stamp[v] # recent[u][j]
        BY DEF ScoresOK
      <4> QED BY <1>3, <4>1, <4>2, <4>3
    <3> QED BY <3>1, <3>2
  <2>3. ASSUME NEW j \in DOMAIN recent'[u], recent'[u][j] = recent'[u][i] PROVE j = i
    BY <1>3, <1>4, <2>3 DEF ScoresOK
  <2> QED BY <1>1, <1>6, <2>1, <2>2, <2>3
<1> QED BY <1>7, <1>8, <1>9 DEF ScoresOK

LEMMA ScoresInit == PipelineInit => ScoresOK
  BY DEF PipelineInit, ScoresOK

LEMMA ScoresStep ==
  PipelineInv /\ CallsOK /\ ScoresOK /\ [PipelineNext]_pipelineVars => ScoresOK'
<1> SUFFICES ASSUME PipelineInv, CallsOK, ScoresOK, [PipelineNext]_pipelineVars PROVE ScoresOK'
  OBVIOUS
<1> USE DEF handler, redis
<1>0. UNCHANGED <<stamp, clock, recent>> => ScoresOK'
  BY DEF ScoresOK
<1>1. CASE UNCHANGED pipelineVars
  BY <1>0, <1>1 DEF pipelineVars
<1>2. ASSUME NEW e \in Records, PublishEvent(e) PROVE ScoresOK'
  BY <1>0, <1>2 DEF PublishEvent
<1>3. CASE CoordinateGroup
  BY <1>0, <1>3 DEF CoordinateGroup
<1>4. ASSUME NEW k \in Keys, KeyLapses(k) PROVE ScoresOK'
  <2>1. UNCHANGED <<stamp, clock>>
    BY <1>4 DEF KeyLapses
  <2>2. CASE k = Trending
    BY <1>0, <1>4, <2>1, <2>2 DEF KeyLapses
  <2>3. CASE k # Trending
    <3>1. recent' = [recent EXCEPT ![k] = [i \in {} |-> 0]]
      BY <1>4, <2>3 DEF KeyLapses
    <3>2. Shrinks
      BY <3>1 DEF Shrinks, PipelineInv, PipelineTypeOK
    <3>3. \A u \in Users : \A i \in DOMAIN recent'[u] :
             i \in DOMAIN recent[u] /\ recent'[u][i] = recent[u][i]
      BY <3>2 DEF Shrinks
    <3> QED BY <2>1, <3>3 DEF ScoresOK
  <2> QED BY <2>2, <2>3
<1>5. ASSUME NEW w \in Workers, PollEvent(w) \/ ReturnFromHandler(w) \/ GroupStep(w)
      PROVE  ScoresOK'
  <2>1. Restamps(w) /\ Shrinks
    BY <1>5 DEF PollEvent, ReturnFromHandler, GroupStep, CallHandler, DropCall, Restamps, Shrinks
  <2> QED BY <2>1, ScoresShrink
<1>6. ASSUME NEW w \in Workers, RunCommand(w) \/ RetryHandler(w) \/ GiveUpHandler(w)
      PROVE  ScoresOK'
  <2>1. Restamps(w) /\ pc[w] = "handle"
    BY <1>6 DEF RunCommand, RetryHandler, GiveUpHandler, HandleEventRaises, CallHandler,
                DropCall, Restamps
  <2>2. Shrinks \/ Adds(w)
    <3>1. UNCHANGED redis \/ Command(w)
      BY <1>6 DEF RunCommand, RetryHandler, GiveUpHandler, HandleEventRaises, RedisRaises,
                  TimestampRaises
    <3> QED BY <2>1, <3>1, CommandOnRecent
  <2>3. Adds(w) => stamp[w] # 0
    BY <2>1 DEF CallsOK, CallOK, Within, Adds
  <2> QED BY <2>1, <2>2, <2>3, ScoresShrink, ScoresAdd
<1> QED BY <1>1, <1>2, <1>3, <1>4, <1>5, <1>6 DEF PipelineNext

-----------------------------------------------------------------------------
(* The sorted sets stay near their cap *)

\* ZREMRANGEBYRANK leaves at most Cap members: members of different scores have
\* different ranks.
LEMMA NewestBounded ==
  ASSUME NEW m, IsFiniteSet(DOMAIN m), m \in [DOMAIN m -> Nat],
         \A i, j \in DOMAIN m : m[i] = m[j] => i = j
  PROVE  IsFiniteSet(DOMAIN Newest(m)) /\ Cardinality(DOMAIN Newest(m)) <= Cap
<1> DEFINE Above(i) == {j \in DOMAIN m : m[j] > m[i]}
           S == DOMAIN Newest(m)
           rank == [i \in S |-> Cardinality(Above(i))]
<1>1. S = {i \in DOMAIN m : Cardinality(Above(i)) < Cap}
  BY DEF Newest, Restrict
<1>2. \A i \in S : IsFiniteSet(Above(i)) /\ Cardinality(Above(i)) \in 0..(Cap - 1)
  <2> SUFFICES ASSUME NEW i \in S
               PROVE  IsFiniteSet(Above(i)) /\ Cardinality(Above(i)) \in 0..(Cap - 1)
    OBVIOUS
  <2>1. Above(i) \in SUBSET DOMAIN m
    OBVIOUS
  <2>2. IsFiniteSet(Above(i)) /\ Cardinality(Above(i)) \in Nat
    BY <2>1, FS_Subset, FS_CardinalityType
  <2> QED BY <1>1, <2>2, PipelineAssumption
<1>3. ASSUME NEW i \in S, NEW j \in S, m[i] < m[j]
      PROVE  rank[i] # rank[j]
  <2>1. Above(j) \in SUBSET Above(i) /\ i \in DOMAIN m /\ j \in DOMAIN m
    BY <1>1, <1>3
  <2>2. j \in Above(i) /\ j \notin Above(j)
    BY <1>3, <2>1
  <2>3. Cardinality(Above(i)) # Cardinality(Above(j))
    BY <1>2, <2>1, <2>2, FS_Subset
  <2> QED BY <2>3
<1>4. rank \in Injection(S, 0..(Cap - 1))
  <2>1. rank \in [S -> 0..(Cap - 1)]
    BY <1>2
  <2>2. ASSUME NEW i \in S, NEW j \in S, rank[i] = rank[j] PROVE i = j
    <3>1. i \in DOMAIN m /\ j \in DOMAIN m /\ m[i] \in Nat /\ m[j] \in Nat
      BY <1>1
    <3>2. ~(m[i] < m[j]) /\ ~(m[j] < m[i])
      BY <1>3, <2>2
    <3> QED BY <3>1, <3>2
  <2> HIDE DEF rank
  <2> QED BY <2>1, <2>2 DEF Injection, IsInjective
<1>5. IsFiniteSet(0..(Cap - 1)) /\ Cardinality(0..(Cap - 1)) = Cap
  <2> DEFINE top == Cap - 1
  <2>1. 0 \in Int /\ top \in Int /\ ~(0 > top) /\ top - 0 + 1 = Cap
    BY PipelineAssumption
  <2> HIDE DEF top
  <2>2. IsFiniteSet(0..top) /\ Cardinality(0..top) = IF 0 > top THEN 0 ELSE top - 0 + 1
    BY <2>1, FS_Interval
  <2>3. Cardinality(0..top) = Cap
    BY <2>1, <2>2
  <2> QED BY <2>2, <2>3 DEF top
<1> QED BY <1>4, <1>5, FS_Injection

\* The sorted sets are finite: their scores are different readings of the clock.
LEMMA RecentFinite ==
  ASSUME PipelineInv, ScoresOK, NEW u \in Users
  PROVE  IsFiniteSet(DOMAIN recent[u]) /\ Cardinality(DOMAIN recent[u]) \in Nat
<1>1. clock \in Nat
  BY DEF PipelineInv, PipelineTypeOK
<1>2. recent[u] \in [DOMAIN recent[u] -> 1..clock]
  BY MembersType DEF ScoresOK, PipelineInv, PipelineTypeOK
<1>3. recent[u] \in Injection(DOMAIN recent[u], 1..clock)
  BY <1>2 DEF ScoresOK, Injection, IsInjective
<1>4. IsFiniteSet(1..clock)
  BY <1>1, FS_Interval
<1> QED BY <1>3, <1>4, FS_Injection, FS_CardinalityType

\* The workers between ZADD and ZREMRANGEBYRANK on the key of user u.
Trimming(u) == {w \in Workers : Within(w, {"expire", "trim"}) /\ User[Content(w)] = u}

LEMMA TrimmingFinite ==
  /\ \A u : IsFiniteSet(Trimming(u)) /\ Cardinality(Trimming(u)) \in Nat
  /\ \A u : IsFiniteSet(Trimming(u)') /\ Cardinality(Trimming(u)') \in Nat
<1>1. \A u : Trimming(u) \in SUBSET Workers /\ Trimming(u)' \in SUBSET Workers
  BY DEF Trimming
<1> QED BY <1>1, FiniteAssumption, FS_Subset, FS_CardinalityType

LEMMA TrimmingStays ==
  ASSUME GInv, [GroupNext]_groupVars, NEW u, NEW w \in Trimming(u), CallUnchanged(w)
  PROVE  w \in Trimming(u)'
<1>1. w \in Workers /\ pc[w] = "handle"
  BY DEF Trimming, Within
<1>2. Content(w)' = Content(w)
  BY <1>1, ContentStays DEF CallUnchanged
<1> QED BY <1>1, <1>2 DEF Trimming, CallUnchanged, Within

RecentBound(u) ==
    Cardinality(DOMAIN recent[u]) <= Cap + faults + Cardinality(Trimming(u))

\* A step that adds nothing and interrupts nobody.
LEMMA BoundKept ==
  ASSUME PipelineInv, PipelineInv', ScoresOK, ScoresOK', NEW u \in Users, RecentBound(u),
         DOMAIN recent'[u] \subseteq DOMAIN recent[u],
         Trimming(u) \subseteq Trimming(u)', faults <= faults'
  PROVE  RecentBound(u)'
<1>1. Cardinality(DOMAIN recent'[u]) <= Cardinality(DOMAIN recent[u])
  BY RecentFinite, FS_Subset
<1>2. Cardinality(Trimming(u)) <= Cardinality(Trimming(u)')
  BY TrimmingFinite, FS_Subset
<1>3. Cardinality(DOMAIN recent[u]) \in Nat /\ Cardinality(DOMAIN recent'[u]) \in Nat
  BY RecentFinite, FS_Subset, FS_CardinalityType
<1>4. /\ faults \in Nat /\ faults' \in Nat /\ Cap \in Nat
      /\ Cardinality(Trimming(u)) \in Nat /\ Cardinality(Trimming(u)') \in Nat
  BY TrimmingFinite, PipelineAssumption, ConsumerAssumption DEF PipelineInv, GInv, TypeOK
<1> QED BY <1>1, <1>2, <1>3, <1>4 DEF RecentBound

\* A step that adds a member, and has its worker trim the key or is a fault.
LEMMA BoundAdd ==
  ASSUME PipelineInv, PipelineInv', ScoresOK, ScoresOK', NEW u \in Users, RecentBound(u),
         NEW i, DOMAIN recent'[u] \subseteq DOMAIN recent[u] \cup {i},
         NEW w \in Workers \ Trimming(u),
         Trimming(u) \subseteq Trimming(u)',
         \/ faults' = faults + 1
         \/ faults' = faults /\ w \in Trimming(u)'
  PROVE  RecentBound(u)'
<1>1. Cardinality(DOMAIN recent'[u]) <= Cardinality(DOMAIN recent[u]) + 1
  <2>1. /\ IsFiniteSet(DOMAIN recent[u]) /\ Cardinality(DOMAIN recent[u]) \in Nat
    BY RecentFinite
  <2>2. /\ IsFiniteSet(DOMAIN recent[u] \cup {i})
        /\ \/ Cardinality(DOMAIN recent[u] \cup {i}) = Cardinality(DOMAIN recent[u])
           \/ Cardinality(DOMAIN recent[u] \cup {i}) = Cardinality(DOMAIN recent[u]) + 1
    BY <2>1, FS_AddElement
  <2>3. Cardinality(DOMAIN recent'[u]) <= Cardinality(DOMAIN recent[u] \cup {i})
    BY <2>2, FS_Subset
  <2>4. Cardinality(DOMAIN recent'[u]) \in Nat /\ Cardinality(DOMAIN recent[u] \cup {i}) \in Nat
    BY <2>2, FS_Subset, FS_CardinalityType
  <2> QED BY <2>1, <2>2, <2>3, <2>4
<1>2. Cardinality(DOMAIN recent[u]) \in Nat /\ Cardinality(DOMAIN recent'[u]) \in Nat
  BY RecentFinite, FS_AddElement, FS_Subset, FS_CardinalityType
<1>3. Cardinality(Trimming(u)) <= Cardinality(Trimming(u)')
  BY TrimmingFinite, FS_Subset
<1>4. ASSUME w \in Trimming(u)' PROVE Cardinality(Trimming(u)) + 1 <= Cardinality(Trimming(u)')
  <2>1. Trimming(u) \cup {w} \subseteq Trimming(u)'
    BY <1>4
  <2>2. Cardinality(Trimming(u) \cup {w}) = Cardinality(Trimming(u)) + 1
    BY TrimmingFinite, FS_AddElement
  <2> QED BY <2>1, <2>2, TrimmingFinite, FS_Subset
<1>5. /\ faults \in Nat /\ faults' \in Nat /\ Cap \in Nat
      /\ Cardinality(Trimming(u)) \in Nat /\ Cardinality(Trimming(u)') \in Nat
  BY TrimmingFinite, PipelineAssumption, ConsumerAssumption DEF PipelineInv, GInv, TypeOK
<1> QED BY <1>1, <1>2, <1>3, <1>4, <1>5 DEF RecentBound

\* A fault may interrupt a worker that has not trimmed yet.
LEMMA BoundFault ==
  ASSUME PipelineInv, PipelineInv', ScoresOK, ScoresOK', NEW u \in Users, RecentBound(u),
         DOMAIN recent'[u] \subseteq DOMAIN recent[u],
         NEW w \in Workers, Trimming(u) \ {w} \subseteq Trimming(u)', faults' = faults + 1
  PROVE  RecentBound(u)'
<1>1. Cardinality(DOMAIN recent'[u]) <= Cardinality(DOMAIN recent[u])
  BY RecentFinite, FS_Subset
<1>2. Cardinality(Trimming(u)) <= Cardinality(Trimming(u)') + 1
  <2>1. /\ IsFiniteSet(Trimming(u) \ {w})
        /\ \/ Cardinality(Trimming(u) \ {w}) = Cardinality(Trimming(u))
           \/ Cardinality(Trimming(u) \ {w}) = Cardinality(Trimming(u)) - 1
    BY TrimmingFinite, FS_RemoveElement
  <2>2. Cardinality(Trimming(u) \ {w}) <= Cardinality(Trimming(u)')
    BY TrimmingFinite, FS_Subset
  <2>3. Cardinality(Trimming(u) \ {w}) \in Nat
    BY <2>1, FS_CardinalityType
  <2> QED BY <2>1, <2>2, <2>3, TrimmingFinite
<1>3. Cardinality(DOMAIN recent[u]) \in Nat /\ Cardinality(DOMAIN recent'[u]) \in Nat
  BY RecentFinite, FS_Subset, FS_CardinalityType
<1>4. /\ faults \in Nat /\ faults' \in Nat /\ Cap \in Nat
      /\ Cardinality(Trimming(u)) \in Nat /\ Cardinality(Trimming(u)') \in Nat
  BY TrimmingFinite, PipelineAssumption, ConsumerAssumption DEF PipelineInv, GInv, TypeOK
<1> QED BY <1>1, <1>2, <1>3, <1>4 DEF RecentBound

RecentBounds == \A u \in Users : RecentBound(u)

LEMMA RecentBoundsInit == PipelineInit => RecentBounds
<1> SUFFICES ASSUME PipelineInit, NEW u \in Users PROVE RecentBound(u)
  BY DEF RecentBounds
<1>1. DOMAIN recent[u] = {} /\ faults = 0
  BY DEF PipelineInit, Init
<1>2. Cardinality(DOMAIN recent[u]) = 0
  BY <1>1, FS_EmptySet
<1> QED BY <1>1, <1>2, TrimmingFinite, PipelineAssumption DEF RecentBound

\* What a command does to the key of user u.
LEMMA BoundCommand ==
  ASSUME PipelineInv, PipelineInv', CallsOK, ScoresOK, ScoresOK', [PipelineNext]_pipelineVars,
         NEW u \in Users, RecentBound(u), NEW w \in Workers, RunCommand(w)
  PROVE  RecentBound(u)'
<1>0. /\ GInv /\ [GroupNext]_groupVars /\ faults \in Nat
      /\ recent \in [Users -> Members]
  BY PipelineStepIsGroupStep DEF PipelineInv, PipelineTypeOK, GInv, TypeOK
<1>1. /\ GInv /\ [GroupNext]_groupVars /\ pc[w] = "handle" /\ pc'[w] = "handle"
      /\ Content(w)' = Content(w) /\ User[Content(w)] \in Users
      /\ faults' = faults /\ faults \in Nat /\ stage'[w] = NextStage(w)
      /\ recent \in [Users -> Members] /\ Command(w)
  BY <1>0, ContentStays, ContentType, PipelineAssumption
     DEF RunCommand, groupVars, loop, PipelineInv, PipelineTypeOK
<1>2. \A v \in Trimming(u) \ {w} : v \in Trimming(u)'
  BY <1>1, OtherCallsStay, TrimmingStays DEF Trimming
<1>3. CASE Adds(w) /\ u = User[Content(w)]
  <2>1. DOMAIN recent'[u] \subseteq DOMAIN recent[u] \cup {Item[Content(w)]}
    BY <1>1, <1>3, ZAddDomain DEF Adds
  <2>2. w \notin Trimming(u) /\ stage'[w] = "expire"
    BY <1>1, <1>3 DEF Trimming, Within, NextStage, Adds
  <2>3. w \in Trimming(u)'
    BY <1>1, <1>3, <2>2 DEF Trimming, Within
  <2> QED BY <1>1, <1>2, <2>1, <2>2, <2>3, BoundAdd
<1>4. CASE stage[w] = "trim" /\ u = User[Content(w)]
  <2>1. recent'[u] = Newest(recent[u])
    BY <1>1, <1>4 DEF Command, AddRecentItem, TrackUniqueViewer, IncrTrending
  <2>2. recent[u] \in [DOMAIN recent[u] -> Nat] /\ IsFiniteSet(DOMAIN recent[u])
    BY <1>1, MembersType, RecentFinite
  <2>3. \A i, j \in DOMAIN recent[u] : recent[u][i] = recent[u][j] => i = j
    BY DEF ScoresOK
  <2>4. IsFiniteSet(DOMAIN recent'[u]) /\ Cardinality(DOMAIN recent'[u]) <= Cap
    BY <2>1, <2>2, <2>3, NewestBounded
  <2>5. Cardinality(DOMAIN recent'[u]) \in Nat /\ Cardinality(Trimming(u)') \in Nat /\ Cap \in Nat
    BY <2>4, FS_CardinalityType, TrimmingFinite, PipelineAssumption
  <2> QED BY <1>1, <2>4, <2>5 DEF RecentBound
<1>5. CASE ~Adds(w) /\ ~(stage[w] = "trim" /\ u = User[Content(w)])
  <2>1. DOMAIN recent'[u] \subseteq DOMAIN recent[u]
    BY <1>1, <1>5, CommandOnRecent DEF Shrinks
  <2>2. w \in Trimming(u) => w \in Trimming(u)'
    BY <1>1, <1>5 DEF Trimming, Within, NextStage
  <2> QED BY <1>1, <1>2, <2>1, <2>2, BoundKept
<1>6. CASE Adds(w) /\ u # User[Content(w)]
  <2>1. recent'[u] = recent[u] /\ w \notin Trimming(u)
    BY <1>1, <1>6 DEF Adds, Trimming
  <2> QED BY <1>1, <1>2, <2>1, BoundKept
<1> QED BY <1>3, <1>4, <1>5, <1>6

LEMMA RecentBoundsStep ==
  ASSUME PipelineInv, PipelineInv', CallsOK, ScoresOK, ScoresOK', RecentBounds,
         [PipelineNext]_pipelineVars
  PROVE  RecentBounds'
<1> SUFFICES ASSUME NEW u \in Users PROVE RecentBound(u)'
  BY DEF RecentBounds
<1>0. /\ GInv /\ [GroupNext]_groupVars /\ RecentBound(u) /\ faults \in Nat
      /\ recent \in [Users -> Members]
  BY PipelineStepIsGroupStep DEF PipelineInv, PipelineTypeOK, GInv, TypeOK, RecentBounds
<1> USE DEF handler, redis, groupVars, loop
<1>1. ASSUME \A w \in Workers : CallUnchanged(w), faults <= faults',
             DOMAIN recent'[u] \subseteq DOMAIN recent[u]
      PROVE  RecentBound(u)'
  <2>1. Trimming(u) \subseteq Trimming(u)'
    BY <1>0, <1>1, TrimmingStays DEF Trimming
  <2> QED BY <1>0, <1>1, <2>1, BoundKept
<1>2. CASE UNCHANGED pipelineVars
  BY <1>0, <1>1, <1>2 DEF pipelineVars, CallUnchanged
<1>3. ASSUME NEW e \in Records, PublishEvent(e) PROVE RecentBound(u)'
  BY <1>0, <1>1, <1>3 DEF PublishEvent, Publish, CallUnchanged
<1>4. CASE CoordinateGroup
  <2>1. faults <= faults' /\ \A w \in Workers : CallUnchanged(w)
    BY <1>0, <1>4 DEF CoordinateGroup, Coordinate, Assign, Rebalance, GiveTo, Fault, CallUnchanged
  <2> QED BY <1>1, <1>4, <2>1 DEF CoordinateGroup
<1>5. ASSUME NEW k \in Keys, KeyLapses(k) PROVE RecentBound(u)'
  <2>1. DOMAIN recent'[u] \subseteq DOMAIN recent[u]
    BY <1>0, <1>5 DEF KeyLapses, Keys
  <2>2. faults <= faults' /\ \A w \in Workers : CallUnchanged(w)
    BY <1>0, <1>5 DEF KeyLapses, CallUnchanged
  <2> QED BY <1>1, <2>1, <2>2
<1>6. ASSUME NEW w \in Workers, RunCommand(w) PROVE RecentBound(u)'
  BY <1>0, <1>6, BoundCommand
<1>7. ASSUME NEW w \in Workers,
             PollEvent(w) \/ ReturnFromHandler(w) \/ RetryHandler(w) \/ GiveUpHandler(w) \/ GroupStep(w)
      PROVE  RecentBound(u)'
  <2>1. \A v \in Trimming(u) \ {w} : v \in Trimming(u)'
    BY <1>0, <1>7, OtherCallsStay, TrimmingStays DEF Trimming
  <2>2. CASE PollEvent(w) \/ ReturnFromHandler(w)
    <3>1. w \notin Trimming(u) /\ UNCHANGED <<recent, faults>>
      BY <2>2 DEF PollEvent, Poll, ReturnFromHandler, HandlerReturns, Trimming, Within
    <3> QED BY <1>0, <2>1, <3>1, BoundKept
  <2>3. CASE GroupStep(w)
    <3>1. UNCHANGED recent
      BY <2>3 DEF GroupStep
    <3>2. \/ faults' = faults + 1
          \/ faults' = faults /\ w \notin Trimming(u)
      BY <2>3 DEF GroupStep, Commit, CommitFails, Crash, Restart, Fault, Trimming, Within
    <3> QED BY <1>0, <2>1, <3>1, <3>2, BoundKept, BoundFault
  <2>4. CASE RetryHandler(w) \/ GiveUpHandler(w)
    <3>1. pc[w] = "handle" /\ (RedisRaises(w) \/ TimestampRaises(w))
      BY <2>4 DEF RetryHandler, GiveUpHandler, HandleEventRaises
    <3>2. CASE TimestampRaises(w)
      <4>1. w \notin Trimming(u) /\ UNCHANGED <<recent, faults>>
        BY <3>2 DEF TimestampRaises, Trimming, Within
      <4> QED BY <1>0, <2>1, <4>1, BoundKept
    <3>3. CASE RedisRaises(w)
      <4>1. faults' = faults + 1 /\ (UNCHANGED redis \/ Command(w))
        BY <3>3 DEF RedisRaises, Fault
      <4>2. CASE Shrinks
        BY <1>0, <2>1, <4>1, <4>2, BoundFault DEF Shrinks
      <4>3. CASE Adds(w)
        <5>1. w \notin Trimming(u)
          BY <4>3 DEF Adds, Trimming, Within
        <5>2. DOMAIN recent'[u] \subseteq DOMAIN recent[u] \cup {Item[Content(w)]}
          <6>1. \A m : DOMAIN ZAdd(m, Item[Content(w)], stamp[w]) = DOMAIN m \cup {Item[Content(w)]}
            BY ZAddDomain
          <6> QED BY <1>0, <4>3, <6>1 DEF Adds
        <5> QED BY <1>0, <2>1, <4>1, <5>1, <5>2, BoundAdd
      <4> QED BY <3>1, <4>1, <4>2, <4>3, CommandOnRecent
    <3> QED BY <3>1, <3>2, <3>3
  <2> QED BY <1>7, <2>2, <2>3, <2>4
<1> QED BY <1>2, <1>3, <1>4, <1>5, <1>6, <1>7 DEF PipelineNext

\* The sorted set of a user exceeds its cap by the workers at work on it and the faults,
\* never more.
THEOREM RecentStaysBounded == PipelineSpec => []RecentBounded
<1>1. RecentBounds => RecentBounded
  BY DEF RecentBounds, RecentBound, RecentBounded, Trimming
<1>2. PipelineInv /\ CallsOK /\ ScoresOK /\ [PipelineNext]_pipelineVars => ScoresOK'
  BY ScoresStep
<1>3. PipelineInv /\ PipelineInv' /\ CallsOK /\ ScoresOK /\ ScoresOK' /\ RecentBounds
        /\ [PipelineNext]_pipelineVars => RecentBounds'
  BY RecentBoundsStep
<1> QED BY <1>1, <1>2, <1>3, ScoresInit, RecentBoundsInit, PipelineInvariant, PTL
        DEF PipelineSpec

-----------------------------------------------------------------------------
(* Finite sums *)

LEMMA PointsMember ==
  ASSUME NEW S, NEW f \in [S -> Nat], NEW z
  PROVE  z \in Points(f) <=> \E x \in S : \E k \in 1..f[x] : z = <<x, k>>
  BY DEF Points

LEMMA PointsOfOne ==
  ASSUME NEW x, NEW n \in Nat
  PROVE  IsFiniteSet({x} \X (1..n)) /\ Cardinality({x} \X (1..n)) = n
<1>1. IsFiniteSet({x}) /\ Cardinality({x}) = 1
  BY FS_Singleton
<1>2. IsFiniteSet(1..n) /\ Cardinality(1..n) = n
  BY FS_Interval
<1> DEFINE T == 1..n
<1> HIDE DEF T
<1>3. IsFiniteSet({x} \X T) /\ Cardinality({x} \X T) = Cardinality({x}) * Cardinality(T)
  BY <1>1, <1>2, FS_Product DEF T
<1> QED BY <1>1, <1>2, <1>3 DEF T

\* A finite sum of naturals is a natural.
LEMMA TotalType ==
  ASSUME NEW S, IsFiniteSet(S), NEW f \in [S -> Nat]
  PROVE  IsFiniteSet(Points(f)) /\ Total(f) \in Nat
<1> DEFINE Column == [x \in S |-> {x} \X (1..f[x])]
           Columns == {Column[x] : x \in S}
<1>1. Column \in Surjection(S, Columns)
  BY DEF Surjection
<1>2. IsFiniteSet(Columns)
  BY <1>1, FS_Surjection
<1>3. \A c \in Columns : IsFiniteSet(c)
  <2> SUFFICES ASSUME NEW x \in S PROVE IsFiniteSet(Column[x])
    OBVIOUS
  <2>1. f[x] \in Nat
    OBVIOUS
  <2> QED BY <2>1, PointsOfOne
<1>4. Points(f) = UNION Columns
  BY DEF Points
<1>5. IsFiniteSet(Points(f))
  BY <1>2, <1>3, <1>4, FS_UNION
<1> QED BY <1>5, FS_CardinalityType DEF Total

\* Adding a summand.
LEMMA TotalAdd ==
  ASSUME NEW S, IsFiniteSet(S), NEW x, x \notin S,
         NEW T, T = S \cup {x},
         NEW f \in [S -> Nat], NEW g \in [T -> Nat], \A y \in S : g[y] = f[y]
  PROVE  Total(g) = Total(f) + g[x]
<1> DEFINE C == {x} \X (1..g[x])
<1>1. g[x] \in Nat
  OBVIOUS
<1>2. IsFiniteSet(C) /\ Cardinality(C) = g[x]
  BY <1>1, PointsOfOne
<1>3. Points(g) = Points(f) \cup C
  BY DEF Points
<1>4. Points(f) \cap C = {}
  BY DEF Points
<1>5. IsFiniteSet(Points(f)) /\ Cardinality(Points(f)) \in Nat
  BY TotalType DEF Total
<1>6. Cardinality(Points(f) \cup C) = Cardinality(Points(f)) + Cardinality(C) - Cardinality({})
  BY <1>2, <1>4, <1>5, FS_Union
<1> QED BY <1>1, <1>2, <1>3, <1>5, <1>6, FS_EmptySet DEF Total

\* A sum of smaller or fewer summands.
LEMMA TotalMonotone ==
  ASSUME NEW S, IsFiniteSet(S), NEW T \in SUBSET S,
         NEW f \in [S -> Nat], NEW g \in [T -> Nat], \A y \in T : g[y] <= f[y]
  PROVE  Total(g) <= Total(f)
<1>1. Points(g) \subseteq Points(f)
  <2> SUFFICES ASSUME NEW z \in Points(g) PROVE z \in Points(f)
    OBVIOUS
  <2>1. PICK y \in T : \E k \in 1..g[y] : z = <<y, k>>
    BY PointsMember
  <2>2. g[y] \in Nat /\ f[y] \in Nat /\ g[y] <= f[y] /\ y \in S
    OBVIOUS
  <2> QED BY <2>1, <2>2, PointsMember
<1> QED BY <1>1, TotalType, FS_Subset DEF Total

\* Changing one summand.
LEMMA TotalChange ==
  ASSUME NEW S, IsFiniteSet(S), NEW x \in S,
         NEW f \in [S -> Nat], NEW g \in [S -> Nat], \A y \in S \ {x} : g[y] = f[y]
  PROVE  Total(g) = Total(f) - f[x] + g[x]
<1> DEFINE T == S \ {x}
           h == [y \in T |-> f[y]]
<1>1. IsFiniteSet(T)
  BY FS_Difference
<1>2. h \in [T -> Nat] /\ T \cup {x} = S /\ x \notin T
  OBVIOUS
<1>3. (\A y \in T : f[y] = h[y]) /\ (\A y \in T : g[y] = h[y])
  OBVIOUS
<1> HIDE DEF T, h
<1>4. Total(f) = Total(h) + f[x] /\ Total(g) = Total(h) + g[x]
  BY <1>1, <1>2, <1>3, TotalAdd
<1>5. Total(h) \in Nat /\ f[x] \in Nat /\ g[x] \in Nat
  BY <1>1, <1>2, TotalType
<1> QED BY <1>4, <1>5

LEMMA TotalEmpty == \A f : DOMAIN f = {} => Total(f) = 0
<1> SUFFICES ASSUME NEW f, DOMAIN f = {} PROVE Total(f) = 0
  OBVIOUS
<1>1. Points(f) = {}
  BY DEF Points
<1> QED BY <1>1, FS_EmptySet DEF Total

LEMMA TotalOfZeros ==
  ASSUME NEW S, NEW f \in [S -> Nat], \A x \in S : f[x] = 0
  PROVE  Total(f) = 0
<1>1. Points(f) = {}
  BY DEF Points
<1> QED BY <1>1, FS_EmptySet DEF Total

-----------------------------------------------------------------------------
\* The places of a log, and the sum of what the records at some of them are worth.
Logs == [Partitions -> Seq(Records)]
Places(l) == Points([p \in Partitions |-> Len(l[p])])
SumIn(l, g, X) == Total([x \in X |-> g[l[x[1]][x[2]]]])

\* A record is worth what it adds to item i at a time, or what a delivery of it may add.
GainOf(i) == [e \in Records |-> Gain(i, e)]
MostOf(i) == [e \in Records |-> Most(i, e)]

LEMMA PlacesMember ==
  ASSUME NEW l \in Logs
  PROVE  /\ IsFiniteSet(Places(l))
         /\ \A p, o : <<p, o>> \in Places(l) <=> p \in Partitions /\ o \in 1..Len(l[p])
         /\ \A x \in Places(l) : x = <<x[1], x[2]>> /\ l[x[1]][x[2]] \in Records
<1> DEFINE f == [p \in Partitions |-> Len(l[p])]
<1>1. f \in [Partitions -> Nat] /\ \A p \in Partitions : f[p] = Len(l[p])
  BY DEF Logs
<1> HIDE DEF f
<1>2. \A z : z \in Points(f) <=> \E p \in Partitions : \E o \in 1..f[p] : z = <<p, o>>
  BY <1>1, PointsMember
<1>3. IsFiniteSet(Points(f))
  BY <1>1, FiniteAssumption, TotalType
<1>4. Places(l) = Points(f)
  BY DEF Places, f
<1>5. ASSUME NEW x \in Places(l) PROVE x = <<x[1], x[2]>> /\ l[x[1]][x[2]] \in Records
  <2>1. PICK p \in Partitions : \E o \in 1..Len(l[p]) : x = <<p, o>>
    BY <1>1, <1>2, <1>4
  <2>2. \A o \in 1..Len(l[p]) : l[p][o] \in Records
    BY DEF Logs
  <2> QED BY <2>1, <2>2
<1> QED BY <1>1, <1>2, <1>3, <1>4, <1>5

LEMMA GainType ==
  ASSUME NEW e \in Records, NEW i
  PROVE  Gain(i, e) \in Nat
  BY PipelineAssumption DEF Gain

LEMMA GainOfType ==
  ASSUME NEW i
  PROVE  /\ GainOf(i) \in [Records -> Nat] /\ MostOf(i) \in [Records -> Nat]
         /\ \A e \in Records : Gain(i, e) <= Most(i, e)
<1>1. \A e \in Records : Calls(e) \in Nat /\ Calls(e) >= 1
  BY ConsumerAssumption DEF Calls
<1>2. \A n, g \in Nat : n * g \in Nat /\ (n >= 1 => g <= n * g)
  <2> SUFFICES ASSUME NEW n \in Nat, NEW g \in Nat PROVE n * g \in Nat /\ (n >= 1 => g <= n * g)
    OBVIOUS
  <2>1. ASSUME n >= 1 PROVE g <= n * g
    <3>1. PICK m \in Nat : n = m + 1
      <4>1. n - 1 \in Nat /\ n = (n - 1) + 1
        BY <2>1
      <4> QED BY <4>1
    <3>2. n * g = m * g + g /\ m * g \in Nat
      BY <3>1
    <3> QED BY <3>2
  <2> QED BY <2>1
<1>3. \A e \in Records : Most(i, e) \in Nat /\ Gain(i, e) <= Most(i, e)
  BY <1>1, <1>2, GainType DEF Most
<1> QED BY <1>3, GainType DEF GainOf, MostOf

LEMMA SumType ==
  ASSUME NEW l \in Logs, NEW g \in [Records -> Nat], NEW X \in SUBSET Places(l)
  PROVE  /\ IsFiniteSet(X)
         /\ [x \in X |-> g[l[x[1]][x[2]]]] \in [X -> Nat]
         /\ SumIn(l, g, X) \in Nat
<1>1. IsFiniteSet(X)
  BY PlacesMember, FS_Subset
<1>2. [x \in X |-> g[l[x[1]][x[2]]]] \in [X -> Nat]
  BY PlacesMember
<1> QED BY <1>1, <1>2, TotalType DEF SumIn

LEMMA SumMonotone ==
  ASSUME NEW l \in Logs, NEW g \in [Records -> Nat],
         NEW Y \in SUBSET Places(l), NEW X \in SUBSET Y
  PROVE  SumIn(l, g, X) <= SumIn(l, g, Y)
<1> DEFINE f == [x \in X |-> g[l[x[1]][x[2]]]]
           h == [x \in Y |-> g[l[x[1]][x[2]]]]
<1>1. IsFiniteSet(Y) /\ f \in [X -> Nat] /\ h \in [Y -> Nat]
  BY SumType
<1>2. \A x \in X : f[x] <= h[x]
  BY <1>1
<1> HIDE DEF f, h
<1>3. Total(f) <= Total(h)
  BY <1>1, <1>2, TotalMonotone
<1> QED BY <1>3 DEF SumIn, f, h

LEMMA SumAdd ==
  ASSUME NEW l \in Logs, NEW g \in [Records -> Nat],
         NEW X \in SUBSET Places(l), NEW z \in Places(l)
  PROVE  SumIn(l, g, X \cup {z}) =
             IF z \in X THEN SumIn(l, g, X)
                        ELSE SumIn(l, g, X) + g[l[z[1]][z[2]]]
<1>1. CASE z \in X
  <2>1. X \cup {z} = X
    BY <1>1
  <2> QED BY <1>1, <2>1
<1>2. CASE z \notin X
  <2> DEFINE Y == X \cup {z}
             f == [x \in X |-> g[l[x[1]][x[2]]]]
             h == [x \in Y |-> g[l[x[1]][x[2]]]]
  <2>1. IsFiniteSet(X) /\ f \in [X -> Nat] /\ h \in [Y -> Nat]
    <3>1. Y \in SUBSET Places(l)
      OBVIOUS
    <3> QED BY <3>1, SumType
  <2>2. (\A x \in X : h[x] = f[x]) /\ h[z] = g[l[z[1]][z[2]]]
    OBVIOUS
  <2>3. SumIn(l, g, X) = Total(f) /\ SumIn(l, g, Y) = Total(h)
    BY DEF SumIn
  <2>5. Y = X \cup {z}
    OBVIOUS
  <2> HIDE DEF Y, f, h
  <2>4. Total(h) = Total(f) + h[z]
    BY <1>2, <2>1, <2>2, <2>5, TotalAdd
  <2> QED BY <1>2, <2>2, <2>3, <2>4, <2>5
<1> QED BY <1>1, <1>2

LEMMA SumStays ==
  ASSUME NEW l, NEW k, NEW g, NEW X, \A x \in X : k[x[1]][x[2]] = l[x[1]][x[2]]
  PROVE  SumIn(k, g, X) = SumIn(l, g, X)
<1>1. [x \in X |-> g[k[x[1]][x[2]]]] = [x \in X |-> g[l[x[1]][x[2]]]]
  OBVIOUS
<1> QED BY <1>1 DEF SumIn

\* The log keeps its places and what they hold.
LEMMA PlacesStay ==
  ASSUME GInv, [GroupNext]_groupVars
  PROVE  /\ Places(log) \subseteq Places(log')
         /\ \A x \in Places(log) : log'[x[1]][x[2]] = log[x[1]][x[2]]
<1>0. log \in Logs /\ log' \in Logs
  BY GroupTypeStep DEF GInv, TypeOK, Logs
<1>1. ASSUME NEW x \in Places(log)
      PROVE  x \in Places(log') /\ log'[x[1]][x[2]] = log[x[1]][x[2]]
  <2>1. x[1] \in Partitions /\ x[2] \in 1..Len(log[x[1]]) /\ x = <<x[1], x[2]>>
    BY <1>0, PlacesMember
  <2>2. x[2] \in 1..Len(log'[x[1]]) /\ log'[x[1]][x[2]] = log[x[1]][x[2]]
    BY <2>1, LogGrows
  <2> QED BY <1>0, <2>1, <2>2, PlacesMember
<1> QED BY <1>1

-----------------------------------------------------------------------------
(* What is done is applied *)

\* The viewer of the record at place x of the log is among those counted.
Counted(l, seen, x) == <<Item[l[x[1]][x[2]]], User[l[x[1]][x[2]]]>> \in seen

\* The records whose weight is in trending:global: those of finished calls, and those whose
\* worker is past ZINCRBY.
Credited ==
    Offsets(done) \cup {record[w] : w \in {v \in Workers : Within(v, {"expireTrending", "end"})}}

Applied ==
    /\ \A p \in Partitions : done[p] \subseteq started[p]
    /\ \A w \in Workers : Within(w, {"zincrby", "expireTrending", "end"}) => Counted(log, viewers, record[w])
    /\ \A x \in Offsets(done) : Counted(log, viewers, x)
    /\ \A i \in Items : trending[i] >= 0
    /\ Trending \notin lapsed => \A i \in Items : trending[i] >= SumIn(log, GainOf(i), Credited)

LEMMA OffsetsMember ==
  ASSUME NEW sets
  PROVE  \A x : x \in Offsets(sets) <=> \E p \in Partitions : \E o \in sets[p] : x = <<p, o>>
  BY DEF Offsets

\* A busy worker's record, and the offsets that were started, are places of the log.
LEMMA RecordPlace ==
  ASSUME GInv, NEW w \in Workers, pc[w] = "handle"
  PROVE  /\ record[w] \in Places(log) /\ record[w] \in Offsets(started)
         /\ log[record[w][1]][record[w][2]] = Content(w) /\ Content(w) \in Records
         /\ \E p \in Partitions : \E o \in Nat \ {0} : record[w] = <<p, o>> /\ o \in started[p]
<1>1. /\ record[w] \in Partitions \X (Nat \ {0})
      /\ record[w][2] \in started[record[w][1]]
      /\ record[w][2] \in 1..Len(log[record[w][1]])
  BY DEF GInv, OffsetsInv, Busy
<1>2. record[w] = <<record[w][1], record[w][2]>> /\ record[w][1] \in Partitions
  BY <1>1
<1>3. log \in Logs
  BY DEF GInv, TypeOK, Logs
<1>4. record[w] \in Places(log)
  BY <1>1, <1>2, <1>3, PlacesMember
<1>5. record[w] \in Offsets(started)
  BY <1>1, <1>2, OffsetsMember
<1> QED BY <1>1, <1>2, <1>4, <1>5, ContentType DEF Content

LEMMA StartedPlaces ==
  ASSUME GInv
  PROVE  Offsets(started) \subseteq Places(log)
<1>1. log \in Logs
  BY DEF GInv, TypeOK, Logs
<1>2. \A p \in Partitions : started[p] \subseteq 1..Len(log[p])
  BY DEF GInv, OffsetsInv
<1> QED BY <1>1, <1>2, PlacesMember, OffsetsMember

LEMMA CreditedPlaces ==
  ASSUME GInv, Applied
  PROVE  Credited \subseteq Places(log)
<1>1. Offsets(done) \subseteq Offsets(started)
  BY OffsetsMember DEF Applied
<1>2. \A w \in Workers : pc[w] = "handle" => record[w] \in Places(log)
  BY RecordPlace
<1> QED BY <1>1, <1>2, StartedPlaces DEF Credited, Within

\* What a command does to the trending set and to the viewers.
LEMMA CommandOnTrending ==
  ASSUME PipelineInv, NEW w \in Workers, CallOK(w), pc[w] = "handle", Command(w)
  PROVE  /\ viewers \subseteq viewers' /\ lapsed' = lapsed
         /\ stage[w] = "pfadd" => <<Item[Content(w)], User[Content(w)]>> \in viewers'
         /\ \A i \in Items : trending'[i] =
              IF stage[w] = "zincrby" THEN trending[i] + Gain(i, Content(w)) ELSE trending[i]
<1> DEFINE e == Content(w)
<1>1. /\ Item[e] \in Items /\ Weight[e] \in Int
      /\ trending \in [Items -> Int]
  BY ContentType, PipelineAssumption DEF PipelineInv, PipelineTypeOK
<1>2. viewers \subseteq viewers' /\ lapsed' = lapsed
  BY DEF Command, AddRecentItem, TrackUniqueViewer, IncrTrending
<1>3. stage[w] = "pfadd" => <<Item[e], User[e]>> \in viewers'
  BY DEF Command, AddRecentItem, TrackUniqueViewer, IncrTrending
<1>4. CASE stage[w] = "zincrby"
  <2>1. Weight[e] > 0
    BY <1>4 DEF CallOK, Within
  <2>2. trending' = [trending EXCEPT ![Item[e]] = @ + Weight[e]]
    BY <1>4 DEF Command, AddRecentItem, TrackUniqueViewer, IncrTrending
  <2> HIDE DEF e
  <2>3. \A i \in Items : trending'[i] = trending[i] + Gain(i, e)
    BY <1>1, <2>1, <2>2 DEF Gain
  <2> QED BY <1>2, <1>3, <1>4, <2>3 DEF e
<1>5. CASE stage[w] # "zincrby"
  <2>1. trending' = trending
    BY <1>5 DEF Command, AddRecentItem, TrackUniqueViewer, IncrTrending
  <2> QED BY <1>2, <1>3, <1>5, <2>1
<1> QED BY <1>4, <1>5

\* A record's viewer stays counted.
LEMMA CountedStays ==
  ASSUME GInv, [GroupNext]_groupVars, viewers \subseteq viewers',
         NEW x \in Places(log), Counted(log, viewers, x)
  PROVE  Counted(log', viewers', x)
<1>1. log'[x[1]][x[2]] = log[x[1]][x[2]]
  BY PlacesStay
<1> QED BY <1>1 DEF Counted

LEMMA AppliedInit == PipelineInit => Applied
<1> SUFFICES ASSUME PipelineInit PROVE Applied
  OBVIOUS
<1>1. Offsets(done) = {}
  BY OffsetsMember DEF PipelineInit, Init
<1>2. \A w \in Workers : ~Within(w, {"zincrby", "expireTrending", "end"})
  BY DEF PipelineInit, Init, Within
<1>3. Credited = {}
  BY <1>1, <1>2 DEF Credited, Within
<1>4. \A i \in Items : SumIn(log, GainOf(i), Credited) = 0
  BY <1>3, TotalEmpty DEF SumIn
<1>5. \A i \in Items : trending[i] = 0
  BY DEF PipelineInit
<1>6. \A p \in Partitions : done[p] \subseteq started[p]
  BY DEF PipelineInit, Init
<1> QED BY <1>1, <1>2, <1>4, <1>5, <1>6 DEF Applied

-----------------------------------------------------------------------------
\* A call goes on where it was, unless it is called anew, ends, or runs its command.
LEMMA CallMoves ==
  ASSUME PipelineInv, [PipelineNext]_pipelineVars, NEW v \in Workers
  PROVE  CallUnchanged(v) \/ stage'[v] = "zadd" \/ RunCommand(v)
<1> USE DEF handler, redis, groupVars, loop, CallUnchanged
<1>1. CASE UNCHANGED pipelineVars
  BY <1>1 DEF pipelineVars
<1>2. ASSUME NEW e \in Records, PublishEvent(e) PROVE CallUnchanged(v)
  BY <1>2 DEF PublishEvent, Publish
<1>3. CASE CoordinateGroup
  BY <1>3 DEF CoordinateGroup, Coordinate, Assign, Rebalance, GiveTo
<1>4. ASSUME NEW k \in Keys, KeyLapses(k) PROVE CallUnchanged(v)
  BY <1>4 DEF KeyLapses
<1>5. ASSUME NEW w \in Workers,
             \/ PollEvent(w) \/ ReturnFromHandler(w)
             \/ RetryHandler(w) \/ GiveUpHandler(w) \/ GroupStep(w)
      PROVE  stage'[w] = "zadd"
  BY <1>5 DEF PollEvent, ReturnFromHandler, RetryHandler, GiveUpHandler, GroupStep,
              CallHandler, DropCall, PipelineInv, PipelineTypeOK
<1>6. ASSUME NEW w \in Workers, w # v,
             \/ PollEvent(w) \/ RunCommand(w) \/ ReturnFromHandler(w)
             \/ RetryHandler(w) \/ GiveUpHandler(w) \/ GroupStep(w)
      PROVE  CallUnchanged(v)
  BY <1>6, OtherCallsStay
<1> QED BY <1>1, <1>2, <1>3, <1>4, <1>5, <1>6 DEF PipelineNext

\* An offset is done when its handler returns from its last command.
LEMMA DoneStep ==
  ASSUME PipelineInv, [PipelineNext]_pipelineVars, NEW x \in Offsets(done')
  PROVE  x \in Offsets(done)
           \/ \E w \in Workers : pc[w] = "handle" /\ stage[w] = "end" /\ x = record[w]
<1>0. \A p \in Partitions : \A o \in done'[p] :
         o \in done[p] \/ \E w \in Workers : /\ pc[w] = "handle" /\ stage[w] = "end"
                                             /\ record[w] = <<p, o>>
  <2> USE DEF groupVars, loop, ghosts
  <2>1. CASE UNCHANGED done
    BY <2>1
  <2>2. ASSUME NEW w \in Workers, ReturnFromHandler(w), NEW p \in Partitions, NEW o \in done'[p]
        PROVE  o \in done[p] \/ (pc[w] = "handle" /\ stage[w] = "end" /\ record[w] = <<p, o>>)
    <3>1. done' = AddOffset(done, w) /\ pc[w] = "handle" /\ stage[w] = "end"
      BY <2>2 DEF ReturnFromHandler, HandlerReturns
    <3>2. PICK q \in Partitions, n \in Nat : record[w] = <<q, n>>
      BY <3>1, RecordPlace DEF PipelineInv
    <3>3. done' = [done EXCEPT ![q] = @ \cup {n}]
      BY <3>1, <3>2 DEF AddOffset
    <3>4. done \in [Partitions -> SUBSET (Nat \ {0})]
      BY DEF PipelineInv, GInv, TypeOK
    <3> QED BY <2>2, <3>1, <3>2, <3>3, <3>4
  <2>3. ASSUME NEW w \in Workers,
               PollEvent(w) \/ RunCommand(w) \/ RetryHandler(w) \/ GiveUpHandler(w) \/ GroupStep(w)
        PROVE  UNCHANGED done
    BY <2>3 DEF PollEvent, Poll, RunCommand, RetryHandler, GiveUpHandler, GroupStep, HandlerRetries,
                HandlerGivesUp, Commit, CommitFails, Crash, Restart, GoDown
  <2>4. ASSUME NEW e \in Records, PublishEvent(e) PROVE UNCHANGED done
    BY <2>4 DEF PublishEvent, Publish
  <2>5. CASE CoordinateGroup
    BY <2>1, <2>5 DEF CoordinateGroup, Coordinate, Assign, Rebalance, GiveTo
  <2>6. ASSUME NEW k \in Keys, KeyLapses(k) PROVE UNCHANGED done
    BY <2>6 DEF KeyLapses
  <2>7. CASE UNCHANGED pipelineVars
    BY <2>1, <2>7 DEF pipelineVars
  <2> QED BY <2>1, <2>2, <2>3, <2>4, <2>5, <2>6, <2>7 DEF PipelineNext
<1>1. PICK p \in Partitions : \E m \in done'[p] : x = <<p, m>>
  BY OffsetsMember
<1>2. PICK o \in done'[p] : x = <<p, o>>
  BY <1>1
<1>3. o \in done[p] => x \in Offsets(done)
  BY <1>2, OffsetsMember
<1> QED BY <1>0, <1>2, <1>3

\* Who is credited: only a command adds a record.
LEMMA CreditedStays ==
  ASSUME PipelineInv, [PipelineNext]_pipelineVars, \A w \in Workers : ~RunCommand(w)
  PROVE  Credited' \subseteq Credited
<1>1. Offsets(done') \subseteq Credited
  BY DoneStep DEF Credited, Within
<1>2. ASSUME NEW w \in Workers, Within(w, {"expireTrending", "end"})'
      PROVE  record'[w] \in Credited
  <2>1. CallUnchanged(w)
    BY <1>2, CallMoves DEF Within
  <2> QED BY <1>2, <2>1 DEF Credited, Within, CallUnchanged
<1>3. Credited' = Offsets(done') \cup
                  {record'[v] : v \in {x \in Workers : Within(x, {"expireTrending", "end"})'}}
  BY DEF Credited, Offsets
<1> QED BY <1>1, <1>2, <1>3

LEMMA CreditedCommand ==
  ASSUME PipelineInv, CallsOK, NEW w \in Workers, RunCommand(w)
  PROVE  /\ Credited' \subseteq Credited \cup {record[w]}
         /\ \/ Credited' \subseteq Credited
            \/ stage[w] = "zincrby"
            \/ stage[w] = "pfadd" /\ ~(Weight[Content(w)] > 0)
<1>1. /\ pc[w] = "handle" /\ pc'[w] = "handle" /\ UNCHANGED <<done, record>>
      /\ stage'[w] = NextStage(w) /\ stage[w] \in Stages \ {"end"}
      /\ \A v \in Workers \ {w} : CallUnchanged(v)
  BY OtherCallsStay DEF RunCommand, Command, AddRecentItem, TrackUniqueViewer, IncrTrending,
     groupVars, loop, ghosts, PipelineInv, PipelineTypeOK
<1>2. Offsets(done)' = Offsets(done)
  BY <1>1 DEF Offsets
<1>3. \A v \in Workers \ {w} : Within(v, {"expireTrending", "end"})' <=> Within(v, {"expireTrending", "end"})
  BY <1>1 DEF CallUnchanged, Within
<1>4. Credited' \subseteq Credited \cup {record[w]}
  BY <1>1, <1>2, <1>3 DEF Credited
<1>5. CASE stage[w] \in {"zadd", "expire", "trim"}
  <2>1. ~Within(w, {"expireTrending", "end"})'
    BY <1>1, <1>5 DEF NextStage, Within
  <2> QED BY <1>1, <1>2, <1>3, <1>4, <2>1 DEF Credited
<1>6. CASE stage[w] = "expireTrending"
  <2>1. record[w] \in Credited
    BY <1>1, <1>6 DEF Credited, Within
  <2> QED BY <1>4, <2>1
<1>7. CASE stage[w] = "pfadd" /\ Weight[Content(w)] > 0
  <2>1. ~Within(w, {"expireTrending", "end"})'
    BY <1>1, <1>7 DEF NextStage, Within
  <2> QED BY <1>1, <1>2, <1>3, <1>4, <2>1 DEF Credited
<1> QED BY <1>1, <1>4, <1>5, <1>6, <1>7 DEF Stages

\* What is credited stays below the trending set.
LEMMA CreditKept ==
  ASSUME PipelineInv, Applied, [GroupNext]_groupVars, NEW i \in Items,
         Trending \notin lapsed, trending'[i] \in Int,
         Credited' \subseteq Credited, trending'[i] >= trending[i]
  PROVE  trending'[i] >= SumIn(log', GainOf(i), Credited')
<1>0. GInv /\ log \in Logs /\ trending[i] \in Int
  BY DEF PipelineInv, PipelineTypeOK, GInv, TypeOK, Logs
<1>1. Credited \subseteq Places(log)
  BY <1>0, CreditedPlaces
<1>2. SumIn(log', GainOf(i), Credited') = SumIn(log, GainOf(i), Credited')
  BY <1>0, <1>1, PlacesStay, SumStays
<1>3. SumIn(log, GainOf(i), Credited') <= SumIn(log, GainOf(i), Credited)
  BY <1>0, <1>1, GainOfType, SumMonotone
<1>4. SumIn(log, GainOf(i), Credited') \in Nat /\ SumIn(log, GainOf(i), Credited) \in Nat
  BY <1>0, <1>1, GainOfType, SumType
<1>5. trending[i] >= SumIn(log, GainOf(i), Credited)
  BY DEF Applied
<1> QED BY <1>0, <1>2, <1>3, <1>4, <1>5

LEMMA CreditAdded ==
  ASSUME PipelineInv, Applied, [GroupNext]_groupVars, NEW i \in Items,
         Trending \notin lapsed, trending'[i] \in Int, NEW x \in Places(log),
         Credited' \subseteq Credited \cup {x},
         trending'[i] >= trending[i] + Gain(i, log[x[1]][x[2]])
  PROVE  trending'[i] >= SumIn(log', GainOf(i), Credited')
<1>0. GInv /\ log \in Logs /\ trending[i] \in Int /\ Gain(i, log[x[1]][x[2]]) \in Nat
  BY PlacesMember, GainType DEF PipelineInv, PipelineTypeOK, GInv, TypeOK, Logs
<1> DEFINE X == Credited \cup {x}
<1>1. Credited \subseteq Places(log) /\ X \subseteq Places(log) /\ Credited' \subseteq X
  BY <1>0, CreditedPlaces
<1>2. SumIn(log, GainOf(i), X) <= SumIn(log, GainOf(i), Credited) + Gain(i, log[x[1]][x[2]])
  <2>1. GainOf(i)[log[x[1]][x[2]]] = Gain(i, log[x[1]][x[2]])
    BY <1>0, PlacesMember DEF GainOf
  <2> QED BY <1>0, <1>1, <2>1, GainOfType, SumAdd, SumType
<1> HIDE DEF X
<1>3. SumIn(log', GainOf(i), Credited') = SumIn(log, GainOf(i), Credited')
  BY <1>0, <1>1, PlacesStay, SumStays
<1>4. SumIn(log, GainOf(i), Credited') <= SumIn(log, GainOf(i), X)
  BY <1>0, <1>1, GainOfType, SumMonotone
<1>5. /\ SumIn(log, GainOf(i), Credited') \in Nat /\ SumIn(log, GainOf(i), Credited) \in Nat
      /\ SumIn(log, GainOf(i), X) \in Nat
  BY <1>0, <1>1, GainOfType, SumType
<1>6. trending[i] >= SumIn(log, GainOf(i), Credited)
  BY DEF Applied
<1> QED BY <1>0, <1>2, <1>3, <1>4, <1>5, <1>6

\* Redis forgets no viewer, and loses a score only when the key lapses.
LEMMA RedisStep ==
  ASSUME PipelineInv, CallsOK, [PipelineNext]_pipelineVars
  PROVE  /\ viewers \subseteq viewers' /\ lapsed \subseteq lapsed'
         /\ \/ Trending \in lapsed' /\ \A i \in Items : trending'[i] = 0
            \/ \A i \in Items : trending'[i] >= trending[i]
<1>0. \A i \in Items : trending[i] \in Int
  BY DEF PipelineInv, PipelineTypeOK
<1>1. CASE UNCHANGED redis
  BY <1>0, <1>1 DEF redis
<1>2. ASSUME NEW w \in Workers, pc[w] = "handle", Command(w)
      PROVE  /\ viewers \subseteq viewers' /\ lapsed' = lapsed
             /\ \A i \in Items : trending'[i] >= trending[i]
  <2>1. Content(w) \in Records /\ CallOK(w)
    BY <1>2, ContentType DEF PipelineInv, CallsOK
  <2>2. \A i \in Items : Gain(i, Content(w)) \in Nat
    BY <2>1, GainType
  <2>3. \A i \in Items : trending'[i] = 
           IF stage[w] = "zincrby" THEN trending[i] + Gain(i, Content(w)) ELSE trending[i]
    BY <1>2, <2>1, CommandOnTrending
  <2>4. viewers \subseteq viewers' /\ lapsed' = lapsed
    BY <1>2, <2>1, CommandOnTrending
  <2> QED BY <1>0, <2>2, <2>3, <2>4
<1>3. ASSUME NEW k \in Keys, KeyLapses(k)
      PROVE  /\ viewers \subseteq viewers' /\ lapsed \subseteq lapsed'
             /\ \/ Trending \in lapsed' /\ \A i \in Items : trending'[i] = 0
                \/ \A i \in Items : trending'[i] >= trending[i]
  BY <1>0, <1>3 DEF KeyLapses
<1>4. CASE UNCHANGED pipelineVars
  BY <1>1, <1>4 DEF pipelineVars
<1>5. ASSUME NEW w \in Workers,
             \/ PollEvent(w) \/ RunCommand(w) \/ ReturnFromHandler(w)
             \/ RetryHandler(w) \/ GiveUpHandler(w) \/ GroupStep(w)
      PROVE  UNCHANGED redis \/ (pc[w] = "handle" /\ Command(w))
  BY <1>5 DEF PollEvent, RunCommand, ReturnFromHandler, RetryHandler, GiveUpHandler, GroupStep,
              HandleEventRaises, RedisRaises, TimestampRaises
<1>6. ASSUME NEW e \in Records, PublishEvent(e) PROVE UNCHANGED redis
  BY <1>6 DEF PublishEvent
<1>7. CASE CoordinateGroup
  BY <1>1, <1>7 DEF CoordinateGroup
<1> QED BY <1>1, <1>2, <1>3, <1>4, <1>5, <1>6, <1>7 DEF PipelineNext

\* The calls that are past PFADD, and the finished ones, are counted.
LEMMA CountedStep ==
  ASSUME PipelineInv, CallsOK, Applied, [PipelineNext]_pipelineVars
  PROVE  /\ \A w \in Workers : Within(w, {"zincrby", "expireTrending", "end"})' =>
              Counted(log', viewers', record'[w])
         /\ \A x \in Offsets(done') : Counted(log', viewers', x)
<1>0. GInv /\ [GroupNext]_groupVars /\ viewers \subseteq viewers'
  BY PipelineStepIsGroupStep, RedisStep DEF PipelineInv
<1>1. ASSUME NEW w \in Workers, Within(w, {"zincrby", "expireTrending", "end"})
      PROVE  Counted(log', viewers', record[w])
  <2>1. Counted(log, viewers, record[w]) /\ record[w] \in Places(log)
    BY <1>0, <1>1, RecordPlace DEF Applied, Within
  <2> QED BY <1>0, <2>1, CountedStays
<1>2. ASSUME NEW w \in Workers, Within(w, {"zincrby", "expireTrending", "end"})'
      PROVE  Counted(log', viewers', record'[w])
  <2>1. CASE CallUnchanged(w)
    BY <1>1, <1>2, <2>1 DEF CallUnchanged, Within
  <2>2. CASE RunCommand(w)
    <3>1. /\ pc[w] = "handle" /\ record'[w] = record[w] /\ stage'[w] = NextStage(w) /\ Command(w)
          /\ stage[w] \in Stages \ {"end"}
      BY <2>2 DEF RunCommand, Command, AddRecentItem, TrackUniqueViewer, IncrTrending,
         groupVars, loop, PipelineInv, PipelineTypeOK
    <3>2. CASE stage[w] = "pfadd"
      <4>1. <<Item[Content(w)], User[Content(w)]>> \in viewers'
        BY <3>1, <3>2, CommandOnTrending DEF CallsOK
      <4>2. log'[record[w][1]][record[w][2]] = Content(w)
        BY <1>0, <3>1, RecordPlace, PlacesStay
      <4> QED BY <3>1, <4>1, <4>2 DEF Counted
    <3>3. CASE stage[w] # "pfadd"
      BY <1>1, <1>2, <3>1, <3>3 DEF Within, NextStage, Stages
    <3> QED BY <3>2, <3>3
  <2>3. stage'[w] # "zadd"
    BY <1>2 DEF Within
  <2> QED BY <2>1, <2>2, <2>3, CallMoves
<1>3. ASSUME NEW x \in Offsets(done') PROVE Counted(log', viewers', x)
  <2>1. CASE x \in Offsets(done)
    <3>1. x \in Places(log) /\ Counted(log, viewers, x)
      BY <1>0, <2>1, CreditedPlaces DEF Credited, Applied
    <3> QED BY <1>0, <3>1, CountedStays
  <2>2. CASE \E w \in Workers : pc[w] = "handle" /\ stage[w] = "end" /\ x = record[w]
    BY <1>1, <2>2 DEF Within
  <2> QED BY <2>1, <2>2, DoneStep
<1> QED BY <1>2, <1>3

LEMMA StartedGrows ==
  ASSUME GInv, [GroupNext]_groupVars, NEW p \in Partitions
  PROVE  started[p] \subseteq started'[p]
<1>1. started \in [Partitions -> SUBSET (Nat \ {0})]
  BY DEF GInv, TypeOK
<1>2. ASSUME NEW w \in Workers, NEW q \in Partitions, Poll(w, q) PROVE started[p] \subseteq started'[p]
  BY <1>1, <1>2 DEF Poll
<1> QED
  BY <1>2 DEF GroupNext, groupVars, ghosts, Publish, Coordinate, Consume, Assign, Rebalance, GiveTo,
     HandlerReturns, HandlerRetries, HandlerGivesUp, Commit, CommitFails, Crash, Restart, GoDown

LEMMA AppliedStep ==
  ASSUME PipelineInv, PipelineInv', CallsOK, Applied, [PipelineNext]_pipelineVars
  PROVE  Applied'
<1>0. /\ GInv /\ GInv' /\ [GroupNext]_groupVars /\ lapsed \subseteq lapsed'
      /\ \A i \in Items : trending[i] \in Int /\ trending'[i] \in Int
  BY PipelineStepIsGroupStep, RedisStep DEF PipelineInv, PipelineTypeOK
<1>1. \A p \in Partitions : done'[p] \subseteq started'[p]
  <2>1. \A p \in Partitions : started[p] \subseteq started'[p]
    BY <1>0, StartedGrows
  <2> SUFFICES ASSUME NEW p \in Partitions, NEW o \in done'[p] PROVE o \in started[p]
    BY <2>1
  <2>2. <<p, o>> \in Offsets(done')
    BY OffsetsMember
  <2>3. <<p, o>> \in Offsets(started)
    BY <1>0, <2>2, DoneStep, RecordPlace, OffsetsMember DEF Applied
  <2> QED BY <2>3, OffsetsMember
<1>2. \A i \in Items : trending'[i] >= 0
  BY <1>0, RedisStep DEF Applied
<1>3. ASSUME Trending \notin lapsed', NEW i \in Items
      PROVE  trending'[i] >= SumIn(log', GainOf(i), Credited')
  <2>1. Trending \notin lapsed /\ trending'[i] >= trending[i] /\ trending'[i] \in Int
    BY <1>0, <1>3, RedisStep
  <2>2. CASE Credited' \subseteq Credited
    BY <1>0, <2>1, <2>2, CreditKept
  <2>3. ASSUME NEW w \in Workers, RunCommand(w), ~(Credited' \subseteq Credited)
        PROVE  trending'[i] >= SumIn(log', GainOf(i), Credited')
    <3>1. /\ Credited' \subseteq Credited \cup {record[w]}
          /\ stage[w] = "zincrby" \/ (stage[w] = "pfadd" /\ ~(Weight[Content(w)] > 0))
      BY <2>3, CreditedCommand
    <3>2. /\ pc[w] = "handle" /\ Command(w) /\ CallOK(w)
          /\ record[w] \in Places(log) /\ log[record[w][1]][record[w][2]] = Content(w)
      BY <1>0, <2>3, RecordPlace DEF RunCommand, CallsOK
    <3>3. trending'[i] = IF stage[w] = "zincrby" THEN trending[i] + Gain(i, Content(w)) ELSE trending[i]
      BY <3>2, CommandOnTrending
    <3>4. stage[w] = "pfadd" => Gain(i, Content(w)) = 0
      BY <3>1 DEF Gain
    <3>5. trending'[i] >= trending[i] + Gain(i, Content(w))
      BY <1>0, <2>1, <3>1, <3>3, <3>4
    <3> QED BY <1>0, <2>1, <3>1, <3>2, <3>5, CreditAdded
  <2> QED BY <2>2, <2>3, CreditedStays
<1>4. Applied' <=>
        /\ \A p \in Partitions : done'[p] \subseteq started'[p]
        /\ \A w \in Workers : Within(w, {"zincrby", "expireTrending", "end"})' =>
              Counted(log', viewers', record'[w])
        /\ \A x \in Offsets(done') : Counted(log', viewers', x)
        /\ \A i \in Items : trending'[i] >= 0
        /\ Trending \notin lapsed' => \A i \in Items : trending'[i] >= SumIn(log', GainOf(i), Credited')
  BY DEF Applied, Offsets, Counted, SumIn, GainOf, Gain
<1> QED BY <1>1, <1>2, <1>3, <1>4, CountedStep

\* A record whose handler returned has left its mark, whatever failed, was retried, was killed
\* or was taken over since: its viewer is counted and its weight is in the trending set.
THEOREM DoneStaysApplied == PipelineSpec => []DoneIsApplied
<1>1. PipelineInv /\ CallsOK /\ Applied => DoneIsApplied
  <2> SUFFICES ASSUME PipelineInv, Applied PROVE DoneIsApplied
    OBVIOUS
  <2>1. \A x \in Offsets(done) : <<Item[log[x[1]][x[2]]], User[log[x[1]][x[2]]]>> \in viewers
    BY DEF Applied, Counted
  <2>2. ASSUME NEW i \in Items, Trending \notin lapsed PROVE trending[i] >= Signal(i, Offsets(done))
    <3>1. Credited \subseteq Places(log) /\ Offsets(done) \subseteq Credited /\ log \in Logs
      BY CreditedPlaces DEF Credited, PipelineInv, GInv, TypeOK, Logs
    <3>2. SumIn(log, GainOf(i), Offsets(done)) <= SumIn(log, GainOf(i), Credited)
      BY <3>1, GainOfType, SumMonotone
    <3>3. SumIn(log, GainOf(i), Offsets(done)) \in Nat /\ SumIn(log, GainOf(i), Credited) \in Nat
      BY <3>1, GainOfType, SumType
    <3>4. trending[i] >= SumIn(log, GainOf(i), Credited) /\ trending[i] \in Int
      BY <2>2 DEF Applied, PipelineInv, PipelineTypeOK
    <3>5. Signal(i, Offsets(done)) = SumIn(log, GainOf(i), Offsets(done))
      <4>1. \A x \in Offsets(done) : log[x[1]][x[2]] \in Records
        BY <3>1, PlacesMember
      <4>2. [x \in Offsets(done) |-> GainOf(i)[log[x[1]][x[2]]]]
                = [x \in Offsets(done) |-> Gain(i, log[x[1]][x[2]])]
        BY <4>1 DEF GainOf
      <4> QED BY <4>2 DEF Signal, SumIn
    <3> QED BY <3>2, <3>3, <3>4, <3>5
  <2> QED BY <2>1, <2>2 DEF DoneIsApplied
<1>2. PipelineInv /\ PipelineInv' /\ CallsOK /\ Applied /\ [PipelineNext]_pipelineVars => Applied'
  BY AppliedStep
<1> QED BY <1>1, <1>2, AppliedInit, PipelineInvariant, PTL DEF PipelineSpec

-----------------------------------------------------------------------------
(* What a fault can make count twice *)

\* A finite set of integers that is not empty has a greatest member.
LEMMA MaxOfFinite ==
  ASSUME NEW S \in SUBSET Int, IsFiniteSet(S), S # {}
  PROVE  Max(S) \in S /\ \A y \in S : Max(S) >= y
<1> DEFINE Above(x) == {y \in S : y > x}
           T == {Above(x) : x \in S}
<1>1. T \subseteq SUBSET S /\ T # {}
  OBVIOUS
<1>2. IsWellFoundedOn(StrictSubsetOrdering(S), SUBSET S)
  BY FS_StrictSubsetOrderingWellFounded, FS_FiniteSubsetsOfFinite
<1>3. PICK A \in T : \A B \in T : <<B, A>> \notin StrictSubsetOrdering(S)
  <2> HIDE DEF T
  <2> QED BY <1>1, <1>2, WFMin
<1>4. PICK m \in S : A = Above(m)
  OBVIOUS
<1>5. \A y \in S : m >= y
  <2> SUFFICES ASSUME NEW y \in S, y > m PROVE FALSE
    OBVIOUS
  <2>1. Above(y) \in T /\ Above(y) \in SUBSET S /\ A \in SUBSET S
    BY <1>1
  <2>2. Above(y) \subseteq A /\ Above(y) # A
    <3>1. y \in A /\ y \notin Above(y)
      BY <1>4
    <3>2. \A z \in S : z > y => z > m
      OBVIOUS
    <3> QED BY <1>4, <3>1, <3>2
  <2>3. <<Above(y), A>> \in StrictSubsetOrdering(S)
    BY <2>1, <2>2 DEF StrictSubsetOrdering
  <2> QED BY <1>3, <2>1, <2>3
<1>6. \E x \in S : \A y \in S : x >= y
  BY <1>5
<1> QED BY <1>6 DEF Max

\* No delivery adds more than the heaviest signal.
LEMMA MostBounded ==
  /\ HeaviestSignal \in Nat
  /\ \A e \in Records : \A i : Most(i, e) <= HeaviestSignal
<1> DEFINE W == {Calls(e) * Weight[e] : e \in Records}
           S == {0} \cup W
<1>1. IsFiniteSet({0}) /\ IsFiniteSet(W)
  BY FS_Singleton, FiniteAssumption
<1>2. IsFiniteSet(S)
  BY <1>1, FS_Union
<1>3. S \in SUBSET Int /\ S # {} /\ 0 \in S /\ \A e \in Records : Calls(e) * Weight[e] \in S
  BY PipelineAssumption, ConsumerAssumption DEF Calls
<1>4. HeaviestSignal = Max(S)
  BY DEF HeaviestSignal
<1> HIDE DEF S
<1>5. HeaviestSignal \in S /\ \A y \in S : HeaviestSignal >= y
  BY <1>2, <1>3, <1>4, MaxOfFinite
<1>6. HeaviestSignal \in Nat
  BY <1>3, <1>5
<1>7. \A e \in Records : HeaviestSignal >= Calls(e) * Weight[e]
  BY <1>3, <1>5
<1>c. \A e \in Records : Calls(e) \in Nat
  BY ConsumerAssumption DEF Calls
<1> HIDE DEF W
<1>8. \A n \in Nat : n * 0 = 0
  OBVIOUS
<1>9. \A e \in Records : \A i : Most(i, e) = Calls(e) * Weight[e] \/ Most(i, e) = 0
  BY <1>c, <1>8 DEF Most, Gain
<1> QED BY <1>3, <1>6, <1>7, <1>9

-----------------------------------------------------------------------------
\* What may be read again: an owner is at most one record ahead of the committed offset, the
\* one it is busy with, and no record behind that one was ever started.
Replays ==
    \A p \in Partitions :
        /\ owner[p] # NoWorker /\ position[p] # committed[p] =>
             /\ position[p] = committed[p] + 1
             /\ pc[owner[p]] \in Busy
             /\ record[owner[p]] = <<p, position[p]>>
        /\ started[p] \subseteq 1..(committed[p] + 1)

LEMMA ReplaysInit == Init => Replays
  BY DEF Init, Replays

\* The worker polls: all it owns is committed.
LEMMA PollingCommitted ==
  ASSUME GInv, Replays, NEW w \in Workers, pc[w] \notin Busy, NEW p \in Partitions, owner[p] = w
  PROVE  position[p] = committed[p]
  BY ConsumerAssumption DEF Replays

LEMMA ReplaysStep == GInv /\ Replays /\ [GroupNext]_groupVars => Replays'
<1> SUFFICES ASSUME GInv, Replays, [GroupNext]_groupVars, NEW p \in Partitions
             PROVE  /\ owner'[p] # NoWorker /\ position'[p] # committed'[p] =>
                         /\ position'[p] = committed'[p] + 1
                         /\ pc'[owner'[p]] \in Busy
                         /\ record'[owner'[p]] = <<p, position'[p]>>
                    /\ started'[p] \subseteq 1..(committed'[p] + 1)
  BY DEF Replays
<1> DEFINE Goal == /\ owner'[p] # NoWorker /\ position'[p] # committed'[p] =>
                         /\ position'[p] = committed'[p] + 1
                         /\ pc'[owner'[p]] \in Busy
                         /\ record'[owner'[p]] = <<p, position'[p]>>
                   /\ started'[p] \subseteq 1..(committed'[p] + 1)
<1>0. /\ committed \in [Partitions -> Nat] /\ position \in [Partitions -> Nat]
      /\ owner \in [Partitions -> Workers \cup {NoWorker}] /\ NoWorker \notin Workers
      /\ pc \in [Workers -> {"poll", "handle", "commit", "skip", "down"}]
      /\ DOMAIN record = Workers /\ record = [w \in Workers |-> record[w]]
      /\ started \in [Partitions -> SUBSET (Nat \ {0})]
  BY ConsumerAssumption DEF GInv, TypeOK
<1>a. /\ owner[p] # NoWorker /\ position[p] # committed[p] =>
           /\ position[p] = committed[p] + 1
           /\ pc[owner[p]] \in Busy
           /\ record[owner[p]] = <<p, position[p]>>
      /\ started[p] \subseteq 1..(committed[p] + 1)
  BY DEF Replays
<1>b. owner[p] # NoWorker => committed[p] <= position[p] /\ pc[owner[p]] # "down"
  BY DEF GInv, OffsetsInv
<1> USE DEF Busy, broker, loop, ghosts
<1>1. CASE UNCHANGED groupVars
  BY <1>1, <1>a DEF groupVars
<1>2. ASSUME NEW q \in Partitions, NEW r \in Records, Publish(q, r) PROVE Goal
  BY <1>2, <1>a DEF Publish
<1>3. ASSUME NEW q \in Partitions, NEW w \in Workers, Assign(q, w) \/ Rebalance(q, w) PROVE Goal
  <2>1. GiveTo(q, w) /\ UNCHANGED <<committed, pc, record, started>>
    BY <1>3 DEF Assign, Rebalance, GiveTo
  <2>2. /\ position'[p] = IF q = p THEN committed[p] ELSE position[p]
        /\ owner'[p] = IF q = p THEN w ELSE owner[p]
    BY <1>0, <2>1 DEF GiveTo
  <2> QED BY <1>a, <2>1, <2>2
<1>4. ASSUME NEW w \in Workers, NEW q \in Partitions, Poll(w, q) PROVE Goal
  <2>1. \A r \in Partitions : owner[r] = w => position[r] = committed[r]
    BY <1>4, PollingCommitted DEF Poll
  <2>2. CASE q = p
    <3>1. position[p] = committed[p] /\ owner'[p] = w /\ committed' = committed /\ pc'[w] = "handle"
      BY <1>0, <1>4, <2>1, <2>2 DEF Poll
    <3>2. /\ position'[p] = committed[p] + 1 /\ record'[w] = <<p, position[p] + 1>>
          /\ started'[p] = started[p] \cup {committed[p] + 1}
      BY <1>0, <1>4, <2>2, <3>1 DEF Poll
    <3> QED BY <1>0, <1>a, <3>1, <3>2
  <2>3. CASE q # p
    <3>1. /\ position'[p] = position[p] /\ owner' = owner /\ committed' = committed
          /\ started'[p] = started[p]
          /\ \A v \in Workers \ {w} : pc'[v] = pc[v] /\ record'[v] = record[v]
      BY <1>0, <1>4, <2>3 DEF Poll
    <3>2. CASE owner[p] = w
      BY <1>a, <2>1, <3>1, <3>2
    <3>3. CASE owner[p] # NoWorker /\ owner[p] # w
      <4>1. pc'[owner[p]] = pc[owner[p]] /\ record'[owner[p]] = record[owner[p]]
        BY <1>0, <3>1, <3>3
      <4> QED BY <1>a, <3>1, <4>1
    <3>4. CASE owner[p] = NoWorker
      BY <1>a, <3>1, <3>4
    <3> QED BY <3>2, <3>3, <3>4
  <2> QED BY <2>2, <2>3
<1>5. ASSUME NEW w \in Workers, HandlerReturns(w) \/ HandlerRetries(w) \/ HandlerGivesUp(w) PROVE Goal
  <2>1. /\ UNCHANGED <<committed, owner, position, record, started>>
        /\ \A v \in Workers : pc[v] \in Busy => pc'[v] \in Busy
    BY <1>0, <1>5 DEF HandlerReturns, HandlerRetries, HandlerGivesUp
  <2> QED BY <1>0, <1>a, <2>1
<1>6. ASSUME NEW w \in Workers, Commit(w) PROVE Goal
  <2>1. /\ UNCHANGED <<owner, position, started>>
        /\ committed'[p] = IF owner[p] = w THEN position[p] ELSE committed[p]
        /\ \A v \in Workers \ {w} : pc'[v] = pc[v] /\ record'[v] = record[v]
    BY <1>0, <1>6 DEF Commit, CommitOwned
  <2>2. CASE owner[p] = w
    BY <1>0, <1>a, <1>b, <2>1, <2>2
  <2>3. CASE owner[p] # w
    BY <1>0, <1>a, <2>1, <2>3
  <2> QED BY <2>2, <2>3
<1>7. ASSUME NEW w \in Workers, CommitFails(w) \/ Crash(w) PROVE Goal
  <2>1. /\ UNCHANGED <<position, started>>
        /\ \/ committed'[p] = committed[p]
           \/ committed'[p] = IF owner[p] = w THEN position[p] ELSE committed[p]
        /\ owner'[p] = IF owner[p] = w THEN NoWorker ELSE owner[p]
        /\ \A v \in Workers \ {w} : pc'[v] = pc[v] /\ record'[v] = record[v]
    BY <1>0, <1>7 DEF CommitFails, Crash, CommitOwned, GoDown
  <2>2. CASE owner[p] = w
    <3>1. owner'[p] = NoWorker
      BY <2>1, <2>2
    <3>2. started'[p] \subseteq 1..(committed'[p] + 1)
      BY <1>0, <1>a, <1>b, <2>1, <2>2
    <3> QED BY <3>1, <3>2
  <2>3. CASE owner[p] # w
    <3>1. committed'[p] = committed[p] /\ owner'[p] = owner[p]
      BY <2>1, <2>3
    <3>2. owner[p] # NoWorker => pc'[owner[p]] = pc[owner[p]] /\ record'[owner[p]] = record[owner[p]]
      BY <1>0, <2>1, <2>3
    <3> QED BY <1>a, <2>1, <3>1, <3>2
  <2> QED BY <2>2, <2>3
<1>8. ASSUME NEW w \in Workers, Restart(w) PROVE Goal
  <2>1. /\ UNCHANGED <<committed, owner, position, record, started>>
        /\ \A v \in Workers : pc[v] \in Busy => pc'[v] \in Busy
    BY <1>0, <1>8 DEF Restart
  <2> QED BY <1>0, <1>a, <2>1
<1> QED BY <1>1, <1>2, <1>3, <1>4, <1>5, <1>6, <1>7, <1>8 DEF GroupNext, Coordinate, Consume

\* What the calls to come of worker w's record add to the score of item i, and with them what
\* the present one may still add.
Rest(i, w) ==
    IF pc[w] = "handle" /\ Content(w) \in Poison
    THEN (MaxRetries - attempt[w]) * Gain(i, Content(w)) ELSE 0
Token(i, w) ==
    (IF Within(w, Stages \ {"expireTrending", "end"}) THEN Gain(i, Content(w)) ELSE 0) + Rest(i, w)

\* What the one record of partition p that will be read again may add once more.
Pending(i, p) ==
    IF committed[p] + 1 \in started[p] /\ (owner[p] = NoWorker \/ position[p] = committed[p])
    THEN Most(i, log[p][committed[p] + 1]) ELSE 0

TokensOf(i) == [w \in Workers |-> Token(i, w)]
PendingOf(i) == [p \in Partitions |-> Pending(i, p)]

\* Both are naturals that no delivery exceeds.
SummandsOK ==
    \A i : /\ \A w \in Workers :
                 /\ Rest(i, w) \in Nat /\ Token(i, w) \in Nat /\ Token(i, w) <= HeaviestSignal
                 /\ pc[w] = "handle" => Token(i, w) <= Most(i, Content(w))
          /\ \A p \in Partitions : Pending(i, p) \in Nat /\ Pending(i, p) <= HeaviestSignal

\* A call and those to come are at most all the calls of a delivery.
LEMMA CallsCount ==
  ASSUME NEW i, NEW e \in Records, e \in Poison, NEW a \in 0..MaxRetries
  PROVE  /\ (MaxRetries - a) * Gain(i, e) \in Nat
         /\ Gain(i, e) + (MaxRetries - a) * Gain(i, e) <= Most(i, e)
<1>1. Gain(i, e) \in Nat /\ MaxRetries \in Nat /\ MaxRetries - a \in Nat
  BY GainType, ConsumerAssumption
<1>2. PICK n \in Nat, g \in Nat : n = MaxRetries - a /\ g = Gain(i, e)
  BY <1>1
<1>3. \A k, m \in Nat : k * g \in Nat /\ (k + m + 1) * g = k * g + m * g + g
  BY <1>2
<1>4. n * g \in Nat /\ a * g \in Nat /\ (n + a + 1) * g = n * g + a * g + g
  <2>1. a \in Nat
    BY <1>1
  <2> QED BY <1>3, <2>1
<1>5. Most(i, e) = (n + a + 1) * g
  <2>1. n + a + 1 = MaxRetries + 1
    BY <1>1, <1>2
  <2> QED BY <1>2, <2>1 DEF Most, Calls
<1> QED BY <1>2, <1>4, <1>5

LEMMA SummandsBounded == GInv => SummandsOK
<1>1. ASSUME GInv, NEW i, NEW w \in Workers
      PROVE  /\ Rest(i, w) \in Nat /\ Token(i, w) \in Nat /\ Token(i, w) <= HeaviestSignal
             /\ pc[w] = "handle" => Token(i, w) <= Most(i, Content(w))
  <2>1. CASE pc[w] # "handle"
    BY <2>1, MostBounded DEF Token, Rest, Within
  <2>2. CASE pc[w] = "handle"
    <3>1. /\ Content(w) \in Records /\ attempt[w] \in 0..MaxRetries
          /\ Gain(i, Content(w)) \in Nat /\ Most(i, Content(w)) \in Nat
          /\ Gain(i, Content(w)) <= Most(i, Content(w)) /\ Most(i, Content(w)) <= HeaviestSignal
      <4>1. Content(w) \in Records /\ attempt[w] \in 0..MaxRetries
        BY <1>1, <2>2, ContentType DEF GInv, TypeOK
      <4>2. MostOf(i)[Content(w)] \in Nat /\ Gain(i, Content(w)) <= Most(i, Content(w))
        BY <4>1, GainOfType
      <4> QED BY <4>1, <4>2, GainType, MostBounded DEF MostOf
    <3>2. Rest(i, w) \in Nat /\ Gain(i, Content(w)) + Rest(i, w) <= Most(i, Content(w))
      BY <3>1, CallsCount DEF Rest
    <3>3. HeaviestSignal \in Nat
      BY MostBounded
    <3>4. Token(i, w) = Rest(i, w) \/ Token(i, w) = Gain(i, Content(w)) + Rest(i, w)
      BY <3>1, <3>2 DEF Token
    <3> QED BY <3>1, <3>2, <3>3, <3>4
  <2> QED BY <2>1, <2>2
<1>2. ASSUME GInv, NEW i, NEW p \in Partitions
      PROVE  Pending(i, p) \in Nat /\ Pending(i, p) <= HeaviestSignal
  <2>1. committed[p] + 1 \in started[p] => log[p][committed[p] + 1] \in Records
    <3>1. started[p] \subseteq 1..Len(log[p]) /\ log[p] \in Seq(Records)
      BY <1>2 DEF GInv, OffsetsInv, TypeOK
    <3> QED BY <3>1
  <2>2. \A e \in Records : Most(i, e) \in Nat
    BY GainOfType DEF MostOf
  <2> QED BY <2>1, <2>2, MostBounded DEF Pending
<1> QED BY <1>1, <1>2 DEF SummandsOK

LEMMA SummandsNext == GInv' => SummandsOK'
  BY SummandsBounded, PTL

\* Summands that fall, and one that may rise.
LEMMA TotalRise ==
  ASSUME NEW S, IsFiniteSet(S), NEW x \in S,
         NEW f \in [S -> Nat], NEW g \in [S -> Nat], \A y \in S \ {x} : g[y] <= f[y]
  PROVE  Total(g) + f[x] <= Total(f) + g[x]
<1> DEFINE h == [f EXCEPT ![x] = g[x]]
<1>1. h \in [S -> Nat] /\ h[x] = g[x] /\ \A y \in S \ {x} : h[y] = f[y]
  OBVIOUS
<1> HIDE DEF h
<1>2. Total(h) = Total(f) - f[x] + g[x]
  BY <1>1, TotalChange
<1>3. S \in SUBSET S /\ \A y \in S : g[y] <= h[y]
  BY <1>1
<1>4. Total(g) <= Total(h)
  BY <1>1, <1>3, TotalMonotone
<1>5. Total(f) \in Nat /\ Total(g) \in Nat /\ Total(h) \in Nat /\ f[x] \in Nat /\ g[x] \in Nat
  BY <1>1, TotalType
<1> QED BY <1>2, <1>4, <1>5

Tokens(i) == Total(TokensOf(i))
Pendings(i) == Total(PendingOf(i))

\* The sums as a step finds them and leaves them.
LEMMA SumsType ==
  ASSUME GInv, GInv', NEW i
  PROVE  /\ TokensOf(i) \in [Workers -> Nat] /\ TokensOf(i)' \in [Workers -> Nat]
         /\ PendingOf(i) \in [Partitions -> Nat] /\ PendingOf(i)' \in [Partitions -> Nat]
         /\ Tokens(i) \in Nat /\ Tokens(i)' \in Nat /\ Pendings(i) \in Nat /\ Pendings(i)' \in Nat
<1>1. /\ TokensOf(i) \in [Workers -> Nat] /\ TokensOf(i)' \in [Workers -> Nat]
      /\ PendingOf(i) \in [Partitions -> Nat] /\ PendingOf(i)' \in [Partitions -> Nat]
  BY SummandsBounded, SummandsNext DEF SummandsOK, TokensOf, PendingOf
<1>2. Tokens(i)' = Total(TokensOf(i)') /\ Pendings(i)' = Total(PendingOf(i)')
  BY DEF Tokens, Pendings, Total, Points
<1> QED BY <1>1, <1>2, FiniteAssumption, TotalType DEF Tokens, Pendings

\* A step of one worker changes its summand only.
LEMMA TokensStep ==
  ASSUME GInv, GInv', NEW i, NEW w \in Workers,
         \A v \in Workers \ {w} : Token(i, v)' = Token(i, v)
  PROVE  Tokens(i)' = Tokens(i) - Token(i, w) + Token(i, w)'
<1>1. TokensOf(i) \in [Workers -> Nat] /\ TokensOf(i)' \in [Workers -> Nat]
  BY SumsType
<1>2. /\ \A v \in Workers \ {w} : TokensOf(i)'[v] = TokensOf(i)[v]
      /\ TokensOf(i)[w] = Token(i, w) /\ TokensOf(i)'[w] = Token(i, w)'
  BY DEF TokensOf
<1>3. Total(TokensOf(i)') = Total(TokensOf(i)) - TokensOf(i)[w] + TokensOf(i)'[w]
  BY <1>1, <1>2, FiniteAssumption, TotalChange
<1>4. Tokens(i)' = Total(TokensOf(i)')
  BY DEF Tokens, Total, Points
<1> QED BY <1>2, <1>3, <1>4 DEF Tokens

LEMMA TokensSame ==
  ASSUME NEW i, \A v \in Workers : Token(i, v)' = Token(i, v)
  PROVE  Tokens(i)' = Tokens(i)
<1>1. TokensOf(i)' = TokensOf(i)
  BY DEF TokensOf
<1> QED BY <1>1 DEF Tokens, Total, Points

LEMMA PendingsFall ==
  ASSUME GInv, GInv', NEW i, \A p \in Partitions : Pending(i, p)' <= Pending(i, p)
  PROVE  Pendings(i)' <= Pendings(i)
<1>1. PendingOf(i) \in [Partitions -> Nat] /\ PendingOf(i)' \in [Partitions -> Nat]
  BY SumsType
<1>2. \A p \in Partitions : PendingOf(i)'[p] <= PendingOf(i)[p]
  BY DEF PendingOf
<1>3. Total(PendingOf(i)') <= Total(PendingOf(i))
  BY <1>1, <1>2, FiniteAssumption, TotalMonotone
<1>4. Pendings(i)' = Total(PendingOf(i)')
  BY DEF Pendings, Total, Points
<1> QED BY <1>3, <1>4 DEF Pendings

LEMMA PendingsRise ==
  ASSUME GInv, GInv', NEW i, NEW q \in Partitions,
         \A p \in Partitions \ {q} : Pending(i, p)' <= Pending(i, p)
  PROVE  Pendings(i)' + Pending(i, q) <= Pendings(i) + Pending(i, q)'
<1>1. PendingOf(i) \in [Partitions -> Nat] /\ PendingOf(i)' \in [Partitions -> Nat]
  BY SumsType
<1>2. /\ \A p \in Partitions \ {q} : PendingOf(i)'[p] <= PendingOf(i)[p]
      /\ PendingOf(i)[q] = Pending(i, q) /\ PendingOf(i)'[q] = Pending(i, q)'
  BY DEF PendingOf
<1>3. Total(PendingOf(i)') + PendingOf(i)[q] <= Total(PendingOf(i)) + PendingOf(i)'[q]
  BY <1>1, <1>2, FiniteAssumption, TotalRise
<1>4. Pendings(i)' = Total(PendingOf(i)')
  BY DEF Pendings, Total, Points
<1> QED BY <1>2, <1>3, <1>4 DEF Pendings

\* What the deliveries of the records that were taken up add, and what the faults allow on top.
Credits(i) == SumIn(log, MostOf(i), Offsets(started))
Allowance == faults * HeaviestSignal

\* The potential: what is counted, and what may be counted without another fault, is paid for
\* by a record that was taken up or by a fault.
PaidFor(i) == trending[i] + Tokens(i) + Pendings(i) <= Credits(i) + Allowance

LEMMA CreditsStep ==
  ASSUME GInv, GInv', [GroupNext]_groupVars, NEW i
  PROVE  /\ Credits(i) \in Nat /\ Credits(i)' \in Nat /\ Credits(i) <= Credits(i)'
         /\ Credits(i)' = SumIn(log', MostOf(i), Offsets(started'))
         /\ log' \in Logs /\ Offsets(started) \subseteq Offsets(started')
         /\ Offsets(started') \subseteq Places(log')
         /\ SumIn(log', MostOf(i), Offsets(started)) = Credits(i)
<1>1. log \in Logs /\ log' \in Logs
  BY DEF GInv, TypeOK, Logs
<1>2. Offsets(started) \subseteq Places(log)
  BY StartedPlaces
<1>3. \A p \in Partitions : started'[p] \subseteq 1..Len(log'[p])
  BY DEF GInv, OffsetsInv
<1>4. Offsets(started') \subseteq Places(log')
  BY <1>1, <1>3, PlacesMember, OffsetsMember
<1>5. Offsets(started) \subseteq Offsets(started')
  BY StartedGrows, OffsetsMember
<1>6. SumIn(log', MostOf(i), Offsets(started)) = Credits(i)
  BY <1>2, PlacesStay, SumStays DEF Credits
<1>7. Credits(i)' = SumIn(log', MostOf(i), Offsets(started'))
  BY DEF Credits, SumIn, Total, Points, Offsets, MostOf, Most, Calls, Gain
<1>8. SumIn(log', MostOf(i), Offsets(started)) <= SumIn(log', MostOf(i), Offsets(started'))
  BY <1>1, <1>4, <1>5, GainOfType, SumMonotone
<1>9. SumIn(log', MostOf(i), Offsets(started')) \in Nat /\ SumIn(log, MostOf(i), Offsets(started)) \in Nat
  BY <1>1, <1>2, <1>4, GainOfType, SumType
<1> QED BY <1>1, <1>4, <1>5, <1>6, <1>7, <1>8, <1>9 DEF Credits

LEMMA AllowanceStep ==
  ASSUME GInv, GInv'
  PROVE  /\ Allowance \in Nat /\ Allowance' \in Nat
         /\ faults' = faults => Allowance' = Allowance
         /\ faults' = faults + 1 => Allowance' = Allowance + HeaviestSignal
<1>1. faults \in Nat /\ faults' \in Nat
  BY ConsumerAssumption DEF GInv, TypeOK
<1>2. \A n, h \in Nat : n * h \in Nat /\ (n + 1) * h = n * h + h
  OBVIOUS
<1>3. HeaviestSignal \in Nat
  BY MostBounded
<1> DEFINE H == HeaviestSignal
<1>4. Allowance = faults * H /\ Allowance' = faults' * H
  BY DEF Allowance, HeaviestSignal, Calls
<1> HIDE DEF H
<1>5. faults * H \in Nat /\ faults' * H \in Nat /\ (faults + 1) * H = faults * H + H
  BY <1>1, <1>2, <1>3 DEF H
<1>6. faults' = faults => Allowance' = Allowance
  BY <1>4
<1>7. faults' = faults + 1 => Allowance' = Allowance + H
  BY <1>4, <1>5
<1> QED BY <1>4, <1>5, <1>6, <1>7 DEF H

LEMMA StepFacts ==
  ASSUME PipelineInv, PipelineInv', [PipelineNext]_pipelineVars, NEW i \in Items
  PROVE  /\ trending[i] \in Int /\ trending'[i] \in Int
         /\ Tokens(i) \in Nat /\ Tokens(i)' \in Nat
         /\ Pendings(i) \in Nat /\ Pendings(i)' \in Nat
         /\ Credits(i) \in Nat /\ Credits(i)' \in Nat /\ Credits(i) <= Credits(i)'
         /\ Allowance \in Nat /\ Allowance' \in Nat /\ HeaviestSignal \in Nat
         /\ faults' = faults => Allowance' = Allowance
         /\ faults' = faults + 1 => Allowance' = Allowance + HeaviestSignal
<1>1. GInv /\ GInv' /\ [GroupNext]_groupVars
  BY PipelineStepIsGroupStep DEF PipelineInv
<1>2. trending[i] \in Int /\ trending'[i] \in Int
  BY DEF PipelineInv, PipelineTypeOK
<1>3. Tokens(i) \in Nat /\ Tokens(i)' \in Nat /\ Pendings(i) \in Nat /\ Pendings(i)' \in Nat
  BY <1>1, SumsType
<1>4. Credits(i) \in Nat /\ Credits(i)' \in Nat /\ Credits(i) <= Credits(i)'
  BY <1>1, CreditsStep
<1>5. /\ Allowance \in Nat /\ Allowance' \in Nat /\ HeaviestSignal \in Nat
      /\ faults' = faults => Allowance' = Allowance
      /\ faults' = faults + 1 => Allowance' = Allowance + HeaviestSignal
  BY <1>1, AllowanceStep, MostBounded
<1> QED BY <1>2, <1>3, <1>4, <1>5

LEMMA TokenStays ==
  ASSUME GInv, [GroupNext]_groupVars, NEW i, NEW w \in Workers, CallUnchanged(w)
  PROVE  Token(i, w)' = Token(i, w)
<1>1. CASE pc[w] = "handle"
  <2>1. Content(w)' = Content(w)
    BY <1>1, ContentStays DEF CallUnchanged
  <2> QED BY <2>1 DEF Token, Rest, Within, CallUnchanged, Gain
<1>2. CASE pc[w] # "handle"
  BY <1>2 DEF Token, Rest, Within, CallUnchanged
<1> QED BY <1>1, <1>2

\* The record that would be read again stays the same one.
LEMMA PendingStays ==
  ASSUME GInv, [GroupNext]_groupVars, NEW i, NEW p \in Partitions,
         committed'[p] = committed[p], started'[p] = started[p],
         owner'[p] = NoWorker \/ position'[p] = committed'[p] =>
             owner[p] = NoWorker \/ position[p] = committed[p],
         Pending(i, p) >= 0
  PROVE  Pending(i, p)' <= Pending(i, p)
<1>1. CASE committed[p] + 1 \in started[p]
  <2>1. committed[p] + 1 \in 1..Len(log[p])
    BY <1>1 DEF GInv, OffsetsInv
  <2>2. log'[p][committed[p] + 1] = log[p][committed[p] + 1] /\ log[p][committed[p] + 1] \in Records
    <3>1. log[p] \in Seq(Records)
      BY DEF GInv, TypeOK
    <3> QED BY <2>1, <3>1, LogGrows
  <2>3. Most(i, log[p][committed[p] + 1]) \in Nat
    BY <2>2, GainOfType DEF MostOf
  <2>4. Most(i, log'[p][committed'[p] + 1]) = Most(i, log[p][committed[p] + 1])
    BY <2>2
  <2>5. Pending(i, p)' = IF owner'[p] = NoWorker \/ position'[p] = committed'[p]
                         THEN Most(i, log'[p][committed'[p] + 1]) ELSE 0
    BY <1>1 DEF Pending, Most, Calls, Gain
  <2>6. Pending(i, p) = IF owner[p] = NoWorker \/ position[p] = committed[p]
                        THEN Most(i, log[p][committed[p] + 1]) ELSE 0
    BY <1>1 DEF Pending
  <2> QED BY <2>3, <2>4, <2>5, <2>6
<1>2. CASE committed[p] + 1 \notin started[p]
  BY <1>2 DEF Pending
<1> QED BY <1>1, <1>2

Paying(i) ==
    /\ PipelineInv /\ PipelineInv' /\ CallsOK /\ Applied /\ Replays
    /\ [PipelineNext]_pipelineVars /\ PaidFor(i)

\* A step that interrupts no call and owns the partitions as before.
LEMMA PaidQuietly ==
  ASSUME NEW i \in Items, Paying(i),
         \A w \in Workers : CallUnchanged(w), trending'[i] <= trending[i], faults' = faults,
         \A p \in Partitions : Pending(i, p)' <= Pending(i, p)
  PROVE  PaidFor(i)'
<1>1. GInv /\ GInv' /\ [GroupNext]_groupVars
  BY PipelineStepIsGroupStep DEF Paying, PipelineInv
<1>2. Tokens(i)' = Tokens(i)
  BY <1>1, TokenStays, TokensSame
<1>3. Pendings(i)' <= Pendings(i)
  BY <1>1, PendingsFall
<1> QED BY <1>2, <1>3, StepFacts DEF Paying, PaidFor

\* A TTL that runs out takes back what was counted.
LEMMA PaidLapse ==
  ASSUME NEW i \in Items, Paying(i), NEW k \in Keys, KeyLapses(k)
  PROVE  PaidFor(i)'
<1>1. GInv /\ GInv' /\ [GroupNext]_groupVars
  BY PipelineStepIsGroupStep DEF Paying, PipelineInv
<1>2. UNCHANGED groupVars /\ \A w \in Workers : CallUnchanged(w)
  BY DEF KeyLapses, CallUnchanged, groupVars, loop, handler
<1>3. trending[i] >= 0 /\ trending[i] \in Int
  BY DEF Paying, Applied, PipelineInv, PipelineTypeOK
<1>4. trending'[i] <= trending[i]
  BY <1>3 DEF KeyLapses
<1>5. \A p \in Partitions : Pending(i, p)' <= Pending(i, p)
  BY <1>1, <1>2, SummandsBounded, PendingStays DEF SummandsOK, groupVars, broker, ghosts
<1> QED BY <1>2, <1>4, <1>5, PaidQuietly DEF groupVars

LEMMA PaidPublish ==
  ASSUME NEW i \in Items, Paying(i), NEW e \in Records, PublishEvent(e)
  PROVE  PaidFor(i)'
<1>1. GInv /\ GInv' /\ [GroupNext]_groupVars
  BY PipelineStepIsGroupStep DEF Paying, PipelineInv
<1>2. /\ UNCHANGED <<committed, owner, position, started, faults, trending>>
      /\ \A w \in Workers : CallUnchanged(w)
  BY DEF PublishEvent, Publish, CallUnchanged, loop, ghosts, handler, redis
<1>3. \A p \in Partitions : Pending(i, p)' <= Pending(i, p)
  BY <1>1, <1>2, SummandsBounded, PendingStays DEF SummandsOK
<1>4. trending'[i] <= trending[i]
  BY <1>2 DEF Paying, PipelineInv, PipelineTypeOK
<1> QED BY <1>2, <1>3, <1>4, PaidQuietly

\* An assignment rereads what was pending; a rebalance makes one record pending anew.
LEMMA PaidCoordinate ==
  ASSUME NEW i \in Items, Paying(i), CoordinateGroup
  PROVE  PaidFor(i)'
<1>1. GInv /\ GInv' /\ [GroupNext]_groupVars
  BY PipelineStepIsGroupStep DEF Paying, PipelineInv
<1>2. PICK q \in Partitions, w \in Workers : Assign(q, w) \/ Rebalance(q, w)
  BY DEF CoordinateGroup, Coordinate
<1>3. /\ UNCHANGED <<committed, started, trending>> /\ \A v \in Workers : CallUnchanged(v)
      /\ \A p \in Partitions \ {q} : owner'[p] = owner[p] /\ position'[p] = position[p]
  BY <1>1, <1>2 DEF CoordinateGroup, Assign, Rebalance, GiveTo, CallUnchanged, loop, ghosts,
                    handler, redis, GInv, TypeOK
<1>4. \A p \in Partitions \ {q} : Pending(i, p)' <= Pending(i, p)
  BY <1>1, <1>3, SummandsBounded, PendingStays DEF SummandsOK
<1>5. trending'[i] = trending[i]
  BY <1>3
<1>6. CASE Assign(q, w)
  <2>1. owner[q] = NoWorker /\ faults' = faults
    BY <1>6 DEF Assign
  <2>2. Pending(i, q)' <= Pending(i, q)
    BY <1>1, <1>3, <2>1, SummandsBounded, PendingStays DEF SummandsOK
  <2>3. trending'[i] <= trending[i]
    BY <1>5, StepFacts DEF Paying
  <2> QED BY <1>3, <1>4, <2>1, <2>2, <2>3, PaidQuietly
<1>7. CASE Rebalance(q, w)
  <2>1. faults' = faults + 1
    BY <1>7 DEF Rebalance, Fault
  <2>2. Pendings(i)' + Pending(i, q) <= Pendings(i) + Pending(i, q)'
    BY <1>1, <1>4, PendingsRise
  <2>3. Pending(i, q) \in Nat /\ Pending(i, q)' \in Nat /\ Pending(i, q)' <= HeaviestSignal
    BY <1>1, SummandsBounded, SummandsNext DEF SummandsOK
  <2>4. Tokens(i)' = Tokens(i)
    BY <1>1, <1>3, TokenStays, TokensSame
  <2> QED BY <1>5, <2>1, <2>2, <2>3, <2>4, StepFacts DEF Paying, PaidFor
<1> QED BY <1>2, <1>6, <1>7

\* Taking a record up: its weight is due for the first time, or it was pending.
LEMMA PaidPoll ==
  ASSUME NEW i \in Items, Paying(i), NEW w \in Workers, PollEvent(w)
  PROVE  PaidFor(i)'
<1>1. GInv /\ GInv' /\ [GroupNext]_groupVars
  BY PipelineStepIsGroupStep DEF Paying, PipelineInv
<1>2. PICK q \in Partitions : Poll(w, q)
  BY DEF PollEvent
<1>3. /\ pc[w] = "poll" /\ owner[q] = w /\ owner[q] # NoWorker
      /\ position[q] = committed[q] /\ committed[q] \in Nat /\ committed' = committed
      /\ owner' = owner /\ log' = log /\ UNCHANGED <<trending, faults>>
  <2>1. pc[w] = "poll" /\ owner[q] = w /\ NoWorker \notin Workers
    BY <1>2, ConsumerAssumption DEF Poll
  <2>2. position[q] = committed[q]
    BY <1>1, <2>1, PollingCommitted DEF Paying, Busy
  <2> QED BY <1>1, <1>2, <2>1, <2>2 DEF Poll, PollEvent, redis, GInv, TypeOK
<1>4. /\ position'[q] = committed[q] + 1 /\ pc'[w] = "handle"
      /\ record'[w] = <<q, committed[q] + 1>>
      /\ started'[q] = started[q] \cup {committed[q] + 1}
      /\ \A p \in Partitions \ {q} : position'[p] = position[p] /\ started'[p] = started[p]
  <2>1. /\ position \in [Partitions -> Nat] /\ started \in [Partitions -> SUBSET (Nat \ {0})]
        /\ pc \in [Workers -> {"poll", "handle", "commit", "skip", "down"}]
        /\ record \in [Workers -> (Partitions \X (Nat \ {0})) \cup {NoRecord}]
    BY <1>1 DEF GInv, TypeOK
  <2> QED BY <1>2, <1>3, <2>1 DEF Poll
<1> DEFINE e == log[q][committed[q] + 1]
<1>5. Most(i, e) \in Nat
  <2>1. Content(w)' = e
    BY <1>3, <1>4 DEF Content
  <2>2. Content(w)' \in Records
    <3>1. /\ position[q] < Len(log[q]) /\ log[q] \in Seq(Records)
      BY <1>1, <1>2 DEF Poll, GInv, TypeOK
    <3> QED BY <1>3, <2>1, <3>1
  <2> QED BY <2>1, <2>2, GainOfType DEF MostOf
<1>6. Tokens(i)' <= Tokens(i) + Most(i, e)
  <2>1. \A v \in Workers \ {w} : Token(i, v)' = Token(i, v)
    BY <1>1, OtherCallsStay, TokenStays DEF Paying
  <2>2. Tokens(i)' = Tokens(i) - Token(i, w) + Token(i, w)'
    BY <1>1, <2>1, TokensStep
  <2>3. Token(i, w) = 0
    BY <1>3 DEF Token, Rest, Within
  <2>4. Token(i, w)' \in Nat /\ Token(i, w)' <= Most(i, e)
    <3>1. Content(w)' = e
      BY <1>3, <1>4 DEF Content
    <3>2. /\ Token(i, w)' \in Nat
          /\ pc'[w] = "handle" => Token(i, w)' <= Most(i, Content(w))'
      BY <1>1, SummandsNext DEF SummandsOK
    <3>3. Most(i, Content(w))' = Most(i, Content(w)')
      BY DEF Most, Calls, Gain
    <3> QED BY <1>4, <3>1, <3>2, <3>3
  <2> QED BY <1>5, <2>2, <2>3, <2>4, StepFacts DEF Paying
<1>7. \A p \in Partitions \ {q} : Pending(i, p)' <= Pending(i, p)
  BY <1>1, <1>3, <1>4, SummandsBounded, PendingStays DEF SummandsOK
<1>8. Pending(i, q)' = 0
  BY <1>3, <1>4 DEF Pending
<1>9. Pendings(i)' + Pending(i, q) <= Pendings(i)
  <2>1. Pendings(i)' + Pending(i, q) <= Pendings(i) + Pending(i, q)'
    BY <1>1, <1>7, PendingsRise
  <2> QED BY <1>8, <2>1, StepFacts DEF Paying
<1>10. CASE committed[q] + 1 \in started[q]
  <2>1. Pending(i, q) = Most(i, e)
    BY <1>3, <1>10 DEF Pending
  <2> HIDE DEF e
  <2> QED BY <1>3, <1>5, <1>6, <1>9, <2>1, StepFacts DEF Paying, PaidFor
<1>11. CASE committed[q] + 1 \notin started[q]
  <2>1. Pending(i, q) = 0
    BY <1>11 DEF Pending
  <2> DEFINE z == <<q, committed[q] + 1>>
  <2>2. z \in Offsets(started') /\ z \notin Offsets(started)
    BY <1>4, <1>11, OffsetsMember
  <2>3. Credits(i)' = Credits(i) + Most(i, e)
    <3> DEFINE X == Offsets(started)
    <3>1. Offsets(started') = X \cup {z}
      <4>1. \A p \in Partitions : \A o \in started'[p] : o \in started[p] \/ <<p, o>> = z
        BY <1>4
      <4>2. ASSUME NEW x \in Offsets(started') PROVE x \in X \/ x = z
        <5>1. PICK p \in Partitions : \E o \in started'[p] : x = <<p, o>>
          BY OffsetsMember
        <5> QED BY <4>1, <5>1, OffsetsMember
      <4>3. X \subseteq Offsets(started')
        BY <1>1, CreditsStep
      <4> QED BY <2>2, <4>2, <4>3
    <3>2. /\ log' \in Logs /\ X \subseteq Places(log') /\ z \in Places(log')
      BY <1>1, <2>2, CreditsStep
    <3>3. z[1] = q /\ z[2] = committed[q] + 1
      OBVIOUS
    <3> HIDE DEF z, X
    <3>4. SumIn(log', MostOf(i), X \cup {z}) = SumIn(log', MostOf(i), X) + MostOf(i)[log'[z[1]][z[2]]]
      BY <2>2, <3>2, GainOfType, SumAdd DEF X
    <3>5. MostOf(i)[log'[z[1]][z[2]]] = Most(i, e)
      <4>1. log'[z[1]][z[2]] = e /\ log'[z[1]][z[2]] \in Records
        BY <1>3, <3>2, <3>3, PlacesMember
      <4> QED BY <4>1 DEF MostOf
    <3> QED BY <1>1, <3>1, <3>4, <3>5, CreditsStep DEF X
  <2> HIDE DEF e
  <2> QED BY <1>3, <1>5, <1>6, <1>9, <2>1, <2>3, StepFacts DEF Paying, PaidFor
<1> QED BY <1>10, <1>11

\* What the command of a call pays out it had on hand.
LEMMA CommandPays ==
  ASSUME NEW i \in Items, Paying(i), NEW w \in Workers, pc[w] = "handle", Command(w)
  PROVE  /\ Gain(i, Content(w)) \in Nat
         /\ trending'[i] =
               IF stage[w] = "zincrby" THEN trending[i] + Gain(i, Content(w)) ELSE trending[i]
         /\ stage[w] = "zincrby" => Token(i, w) = Gain(i, Content(w)) + Rest(i, w)
<1>1. Content(w) \in Records /\ CallOK(w) /\ PipelineInv
  BY ContentType DEF Paying, PipelineInv, CallsOK
<1>2. Gain(i, Content(w)) \in Nat
  BY <1>1, GainType
<1>3. trending'[i] = IF stage[w] = "zincrby" THEN trending[i] + Gain(i, Content(w)) ELSE trending[i]
  BY <1>1, CommandOnTrending
<1>4. stage[w] = "zincrby" => Token(i, w) = Gain(i, Content(w)) + Rest(i, w)
  BY DEF Token, Within, Stages
<1> QED BY <1>2, <1>3, <1>4

LEMMA PaidCommand ==
  ASSUME NEW i \in Items, Paying(i), NEW w \in Workers, RunCommand(w)
  PROVE  PaidFor(i)'
<1>1. GInv /\ GInv' /\ [GroupNext]_groupVars
  BY PipelineStepIsGroupStep DEF Paying, PipelineInv
<1>2. /\ UNCHANGED <<committed, owner, position, started, faults>>
      /\ pc[w] = "handle" /\ pc'[w] = "handle" /\ record'[w] = record[w]
      /\ attempt'[w] = attempt[w] /\ Command(w) /\ stage'[w] = NextStage(w)
      /\ stage[w] \in Stages \ {"end"}
  BY DEF RunCommand, Command, AddRecentItem, TrackUniqueViewer, IncrTrending, groupVars, broker, loop,
         ghosts, Paying, PipelineInv, PipelineTypeOK
<1>3. \A v \in Workers \ {w} : Token(i, v)' = Token(i, v)
  BY <1>1, OtherCallsStay, TokenStays DEF Paying
<1>4. Tokens(i)' = Tokens(i) - Token(i, w) + Token(i, w)'
  BY <1>1, <1>3, TokensStep
<1>5. \A p \in Partitions : Pending(i, p)' <= Pending(i, p)
  BY <1>1, <1>2, SummandsBounded, PendingStays DEF SummandsOK
<1>6. Pendings(i)' <= Pendings(i)
  BY <1>1, <1>5, PendingsFall
<1>7. /\ Rest(i, w)' = Rest(i, w) /\ Rest(i, w) \in Nat
      /\ Token(i, w) \in Nat /\ Token(i, w)' \in Nat /\ Gain(i, Content(w)) \in Nat
  <2>1. Content(w)' = Content(w)
    BY <1>1, <1>2, ContentStays
  <2>2. Rest(i, w)' = Rest(i, w)
    BY <1>2, <2>1 DEF Rest, Gain
  <2> QED BY <1>1, <1>2, <2>2, SummandsBounded, SummandsNext, CommandPays DEF SummandsOK
<1>8. /\ Token(i, w)' = Rest(i, w)' \/ Token(i, w)' = Gain(i, Content(w)) + Rest(i, w)'
      /\ stage[w] \in {"zincrby", "expireTrending"} => Token(i, w)' = Rest(i, w)'
      /\ stage[w] # "expireTrending" => Token(i, w) = Gain(i, Content(w)) + Rest(i, w)
      /\ stage[w] = "expireTrending" => Token(i, w) = Rest(i, w)
  <2>1. Content(w)' = Content(w)
    BY <1>1, <1>2, ContentStays
  <2>2. Token(i, w)' = (IF stage'[w] \in Stages \ {"expireTrending", "end"}
                        THEN Gain(i, Content(w)) ELSE 0) + Rest(i, w)'
    BY <1>2, <2>1 DEF Token, Within, Gain
  <2>3. Token(i, w) = (IF stage[w] \in Stages \ {"expireTrending", "end"}
                       THEN Gain(i, Content(w)) ELSE 0) + Rest(i, w)
    BY <1>2 DEF Token, Within
  <2>4. stage[w] \in {"zincrby", "expireTrending"} => stage'[w] \in {"expireTrending", "end"}
    BY <1>2 DEF NextStage
  <2> QED BY <1>2, <1>7, <2>2, <2>3, <2>4
<1>9. trending'[i] + Token(i, w)' <= trending[i] + Token(i, w)
  <2>1. trending'[i] = IF stage[w] = "zincrby" THEN trending[i] + Gain(i, Content(w)) ELSE trending[i]
    BY <1>2, CommandPays
  <2> QED BY <1>7, <1>8, <2>1, StepFacts DEF Paying
<1> QED BY <1>2, <1>4, <1>6, <1>7, <1>9, StepFacts DEF Paying, PaidFor

\* The call ends, or has ended: nothing is due any more.
LEMMA PaidReturn ==
  ASSUME NEW i \in Items, Paying(i), NEW w \in Workers, ReturnFromHandler(w)
  PROVE  PaidFor(i)'
<1>1. GInv /\ GInv' /\ [GroupNext]_groupVars
  BY PipelineStepIsGroupStep DEF Paying, PipelineInv
<1>2. /\ UNCHANGED <<committed, owner, position, started, faults, trending>> /\ pc'[w] # "handle"
  BY DEF ReturnFromHandler, HandlerReturns, broker, redis, Paying, PipelineInv, GInv, TypeOK
<1>3. \A v \in Workers \ {w} : Token(i, v)' = Token(i, v)
  BY <1>1, OtherCallsStay, TokenStays DEF Paying
<1>4. Tokens(i)' = Tokens(i) - Token(i, w) + Token(i, w)'
  BY <1>1, <1>3, TokensStep
<1>5. Token(i, w)' = 0 /\ Token(i, w) \in Nat
  BY <1>1, <1>2, SummandsBounded DEF SummandsOK, Token, Rest, Within
<1>6. Pendings(i)' <= Pendings(i)
  BY <1>1, <1>2, SummandsBounded, PendingStays, PendingsFall DEF SummandsOK
<1> QED BY <1>2, <1>4, <1>5, <1>6, StepFacts DEF Paying, PaidFor

\* A call that raised is begun anew, or given up.
LEMMA PaidRaise ==
  ASSUME NEW i \in Items, Paying(i), NEW w \in Workers, RetryHandler(w) \/ GiveUpHandler(w)
  PROVE  PaidFor(i)'
<1>1. GInv /\ GInv' /\ [GroupNext]_groupVars
  BY PipelineStepIsGroupStep DEF Paying, PipelineInv
<1>2. /\ UNCHANGED <<committed, owner, position, started>> /\ HandleEventRaises(w)
  BY DEF RetryHandler, GiveUpHandler, HandlerRetries, HandlerGivesUp, broker, ghosts
<1>3. \A v \in Workers \ {w} : Token(i, v)' = Token(i, v)
  BY <1>1, OtherCallsStay, TokenStays DEF Paying
<1>4. Tokens(i)' = Tokens(i) - Token(i, w) + Token(i, w)'
  BY <1>1, <1>3, TokensStep
<1>5. Pendings(i)' <= Pendings(i)
  BY <1>1, <1>2, SummandsBounded, PendingStays, PendingsFall DEF SummandsOK
<1>6. /\ Token(i, w) \in Nat /\ Token(i, w)' \in Nat /\ Token(i, w)' <= HeaviestSignal
  BY <1>1, SummandsBounded, SummandsNext DEF SummandsOK
<1>7. pc[w] = "handle"
  BY <1>2 DEF HandleEventRaises
<1>8. CASE TimestampRaises(w)
  <2>1. faults' = faults /\ trending'[i] = trending[i]
    BY <1>8 DEF TimestampRaises, redis
  <2>2. Token(i, w) = Rest(i, w) /\ Rest(i, w) \in Nat /\ Content(w) \in Poison
    <3>1. ~Within(w, Stages \ {"expireTrending", "end"}) /\ Content(w) \in Poison
      BY <1>8 DEF TimestampRaises, Within
    <3>2. Rest(i, w) \in Nat
      BY <1>1, SummandsBounded DEF SummandsOK
    <3> QED BY <3>1, <3>2 DEF Token
  <2>3. Token(i, w)' <= Token(i, w)
    <3>1. CASE RetryHandler(w)
      <4>1. /\ pc'[w] = "handle" /\ record'[w] = record[w]
            /\ attempt[w] \in 0..MaxRetries /\ attempt[w] < MaxRetries
            /\ attempt'[w] = attempt[w] + 1
        BY <1>1, <1>7, <3>1 DEF RetryHandler, HandlerRetries, GInv, TypeOK
      <4>2. Content(w)' = Content(w) /\ Content(w) \in Records
        BY <1>1, <1>7, <4>1, ContentStays, ContentType
      <4>3. PICK g \in Nat : g = Gain(i, Content(w))
        BY <4>2, GainType
      <4>4. Gain(i, Content(w))' = g
        BY <4>2, <4>3 DEF Gain
      <4>5. /\ Rest(i, w)' = (MaxRetries - (attempt[w] + 1)) * g
            /\ Rest(i, w) = (MaxRetries - attempt[w]) * g
        BY <1>7, <2>2, <4>1, <4>2, <4>3, <4>4 DEF Rest
      <4>6. PICK n \in Nat : MaxRetries - attempt[w] = n + 1 /\ MaxRetries - (attempt[w] + 1) = n
        <5>1. MaxRetries - (attempt[w] + 1) \in Nat
          BY <4>1, ConsumerAssumption
        <5> QED BY <4>1, <5>1, ConsumerAssumption
      <4>7. (n + 1) * g = n * g + g /\ n * g \in Nat
        OBVIOUS
      <4>8. Rest(i, w) = Rest(i, w)' + g /\ Rest(i, w)' \in Nat
        BY <4>5, <4>6, <4>7
      <4>9. Token(i, w)' = 0 + Rest(i, w)' \/ Token(i, w)' = g + Rest(i, w)'
        BY <4>4 DEF Token
      <4> QED BY <2>2, <4>8, <4>9
    <3>2. CASE GiveUpHandler(w)
      <4>1. pc'[w] # "handle"
        BY <1>1, <3>2 DEF GiveUpHandler, HandlerGivesUp, GInv, TypeOK
      <4>2. Token(i, w)' = 0
        BY <4>1 DEF Token, Rest, Within
      <4> QED BY <1>6, <4>2
    <3> QED BY <3>1, <3>2
  <2> QED BY <1>4, <1>5, <1>6, <2>1, <2>3, StepFacts DEF Paying, PaidFor
<1>9. CASE RedisRaises(w)
  <2>1. faults' = faults + 1 /\ (UNCHANGED redis \/ Command(w))
    BY <1>9 DEF RedisRaises, Fault
  <2>2. trending'[i] <= trending[i] + Token(i, w)
    <3>1. CASE UNCHANGED redis
      <4>1. trending'[i] = trending[i]
        BY <3>1 DEF redis
      <4> QED BY <1>6, <4>1, StepFacts DEF Paying
    <3>2. CASE Command(w)
      <4>1. Rest(i, w) \in Nat
        BY <1>1, SummandsBounded DEF SummandsOK
      <4>2. /\ Gain(i, Content(w)) \in Nat
            /\ trending'[i] =
                  IF stage[w] = "zincrby" THEN trending[i] + Gain(i, Content(w)) ELSE trending[i]
            /\ stage[w] = "zincrby" => Token(i, w) = Gain(i, Content(w)) + Rest(i, w)
        BY <1>7, <3>2, CommandPays
      <4> QED BY <1>6, <4>1, <4>2, StepFacts DEF Paying
    <3> QED BY <2>1, <3>1, <3>2
  <2> QED BY <1>4, <1>5, <1>6, <2>1, <2>2, StepFacts DEF Paying, PaidFor
<1> QED BY <1>2, <1>8, <1>9 DEF HandleEventRaises

\* A commit, stored or not, and the end of a process.
LEMMA PendingCommitted ==
  ASSUME NEW i \in Items, Paying(i), NEW p \in Partitions, NEW w \in Workers, owner[p] = w,
         committed'[p] = position[p], started'[p] = started[p]
  PROVE  Pending(i, p)' <= Pending(i, p)
<1>1. GInv /\ GInv' /\ [GroupNext]_groupVars /\ owner[p] # NoWorker
  BY PipelineStepIsGroupStep, ConsumerAssumption DEF Paying, PipelineInv
<1>2. Pending(i, p) \in Nat
  BY <1>1, SummandsBounded DEF SummandsOK
<1>3. CASE position[p] = committed[p]
  BY <1>1, <1>2, <1>3, PendingStays
<1>4. CASE position[p] # committed[p]
  <2>1. committed'[p] = committed[p] + 1 /\ started[p] \subseteq 1..(committed[p] + 1)
    BY <1>1, <1>4 DEF Paying, Replays
  <2>2. committed[p] \in Nat
    BY <1>1 DEF GInv, TypeOK
  <2>3. committed'[p] + 1 \notin started'[p]
    BY <2>1, <2>2
  <2> QED BY <1>2, <2>3 DEF Pending
<1> QED BY <1>3, <1>4

LEMMA PaidGroupStep ==
  ASSUME NEW i \in Items, Paying(i), NEW w \in Workers, GroupStep(w)
  PROVE  PaidFor(i)'
<1>1. GInv /\ GInv' /\ [GroupNext]_groupVars
  BY PipelineStepIsGroupStep DEF Paying, PipelineInv
<1>2. /\ UNCHANGED <<started, position, trending>> /\ pc'[w] # "handle"
  BY <1>1 DEF GroupStep, Commit, CommitFails, Crash, Restart, GoDown, broker, ghosts, redis, GInv, TypeOK
<1>3. \A v \in Workers \ {w} : Token(i, v)' = Token(i, v)
  BY <1>1, OtherCallsStay, TokenStays DEF Paying
<1>4. Tokens(i)' <= Tokens(i)
  <2>1. Tokens(i)' = Tokens(i) - Token(i, w) + Token(i, w)'
    BY <1>1, <1>3, TokensStep
  <2>2. Token(i, w)' = 0 /\ Token(i, w) \in Nat
    BY <1>1, <1>2, SummandsBounded DEF SummandsOK, Token, Rest, Within
  <2> QED BY <2>1, <2>2, StepFacts DEF Paying
<1>5. trending'[i] = trending[i]
  BY <1>2
<1>6. CASE Restart(w)
  <2>1. UNCHANGED <<committed, owner, faults>>
    BY <1>6 DEF Restart, broker
  <2>2. Pendings(i)' <= Pendings(i)
    BY <1>1, <1>2, <2>1, SummandsBounded, PendingStays, PendingsFall DEF SummandsOK
  <2> QED BY <1>4, <1>5, <2>1, <2>2, StepFacts DEF Paying, PaidFor
<1>7. CASE Commit(w) \/ (CommitFails(w) /\ committed' # committed)
  <2>1. /\ \A p \in Partitions : owner[p] = w => committed'[p] = position[p]
        /\ \A p \in Partitions : owner[p] # w => committed'[p] = committed[p] /\ owner'[p] = owner[p]
        /\ faults' = faults \/ faults' = faults + 1
    BY <1>1, <1>7 DEF Commit, CommitFails, CommitOwned, GoDown, Fault, GInv, TypeOK
  <2>2. ASSUME NEW p \in Partitions PROVE Pending(i, p)' <= Pending(i, p)
    <3>1. CASE owner[p] = w
      BY <1>2, <2>1, <3>1, PendingCommitted
    <3>2. CASE owner[p] # w
      BY <1>1, <1>2, <2>1, <3>2, SummandsBounded, PendingStays DEF SummandsOK
    <3> QED BY <3>1, <3>2
  <2>3. Pendings(i)' <= Pendings(i)
    BY <1>1, <2>2, PendingsFall
  <2> QED BY <1>4, <1>5, <2>1, <2>3, StepFacts DEF Paying, PaidFor
<1>8. CASE Crash(w) \/ (CommitFails(w) /\ committed' = committed)
  <2>1. /\ faults' = faults + 1 /\ committed' = committed
        /\ \A p \in Partitions : owner'[p] = IF owner[p] = w THEN NoWorker ELSE owner[p]
    BY <1>1, <1>8 DEF Crash, CommitFails, GoDown, Fault, GInv, TypeOK
  <2>2. ASSUME NEW p \in Partitions,
               ~(pc[w] \in Busy /\ record[w] = <<p, position[p]>>)
        PROVE  Pending(i, p)' <= Pending(i, p)
    <3>1. owner[p] = w => position[p] = committed[p]
      BY <2>2, ConsumerAssumption DEF Paying, Replays
    <3> QED BY <1>1, <1>2, <2>1, <3>1, SummandsBounded, PendingStays DEF SummandsOK
  <2>3. CASE \E q \in Partitions : pc[w] \in Busy /\ record[w] = <<q, position[q]>>
    <3>1. PICK q \in Partitions : record[w] = <<q, position[q]>>
      BY <2>3
    <3>2. \A p \in Partitions \ {q} : Pending(i, p)' <= Pending(i, p)
      BY <2>2, <3>1
    <3>3. Pendings(i)' + Pending(i, q) <= Pendings(i) + Pending(i, q)'
      BY <1>1, <3>2, PendingsRise
    <3>4. Pending(i, q) \in Nat /\ Pending(i, q)' \in Nat /\ Pending(i, q)' <= HeaviestSignal
      BY <1>1, SummandsBounded, SummandsNext DEF SummandsOK
    <3> QED BY <1>4, <1>5, <2>1, <3>3, <3>4, StepFacts DEF Paying, PaidFor
  <2>4. CASE ~\E q \in Partitions : pc[w] \in Busy /\ record[w] = <<q, position[q]>>
    <3>1. Pendings(i)' <= Pendings(i)
      BY <1>1, <2>2, <2>4, PendingsFall
    <3> QED BY <1>4, <1>5, <2>1, <3>1, StepFacts DEF Paying, PaidFor
  <2> QED BY <2>3, <2>4
<1> QED BY <1>6, <1>7, <1>8 DEF GroupStep

AllPaid == \A i \in Items : PaidFor(i)

LEMMA PaidInit == PipelineInit => AllPaid
<1> SUFFICES ASSUME PipelineInit, NEW i \in Items PROVE PaidFor(i)
  BY DEF AllPaid
<1>1. GInv
  BY PipelineInvInit DEF PipelineInv
<1>2. trending[i] = 0 /\ faults = 0
  BY DEF PipelineInit, Init
<1>3. Tokens(i) = 0
  <2>1. \A w \in Workers : Token(i, w) = 0
    BY DEF Token, Rest, Within, PipelineInit, Init
  <2>2. TokensOf(i) \in [Workers -> Nat] /\ \A w \in Workers : TokensOf(i)[w] = 0
    BY <2>1 DEF TokensOf
  <2> QED BY <2>2, TotalOfZeros DEF Tokens
<1>4. Pendings(i) = 0
  <2>1. \A p \in Partitions : Pending(i, p) = 0
    BY DEF Pending, PipelineInit, Init
  <2>2. PendingOf(i) \in [Partitions -> Nat] /\ \A p \in Partitions : PendingOf(i)[p] = 0
    BY <2>1 DEF PendingOf
  <2> QED BY <2>2, TotalOfZeros DEF Pendings
<1>5. Credits(i) \in Nat
  <2>1. log \in Logs /\ Offsets(started) \subseteq Places(log)
    BY <1>1, StartedPlaces DEF GInv, TypeOK, Logs
  <2> QED BY <2>1, GainOfType, SumType DEF Credits
<1>6. Allowance = 0
  <2>1. \A h \in Nat : 0 * h = 0
    OBVIOUS
  <2> QED BY <1>2, <2>1, MostBounded DEF Allowance
<1> QED BY <1>2, <1>3, <1>4, <1>5, <1>6 DEF PaidFor

LEMMA PaidStep ==
  ASSUME PipelineInv, PipelineInv', CallsOK, Applied, Replays, AllPaid, [PipelineNext]_pipelineVars
  PROVE  AllPaid'
<1> SUFFICES ASSUME NEW i \in Items PROVE PaidFor(i)'
  BY DEF AllPaid
<1>1. Paying(i)
  BY DEF Paying, AllPaid
<1>2. CASE UNCHANGED pipelineVars
  <2>1. /\ \A w \in Workers : CallUnchanged(w)
        /\ UNCHANGED <<trending, faults, committed, owner, position, started>>
    BY <1>2 DEF pipelineVars, groupVars, broker, loop, ghosts, handler, redis, CallUnchanged
  <2>2. GInv /\ GInv' /\ [GroupNext]_groupVars
    BY PipelineStepIsGroupStep DEF PipelineInv
  <2>3. \A p \in Partitions : Pending(i, p)' <= Pending(i, p)
    BY <2>1, <2>2, SummandsBounded, PendingStays DEF SummandsOK
  <2>4. trending'[i] <= trending[i]
    BY <2>1, StepFacts
  <2> QED BY <1>1, <2>1, <2>3, <2>4, PaidQuietly
<1> QED BY <1>1, <1>2, PaidPublish, PaidPoll, PaidCommand, PaidReturn, PaidRaise, PaidGroupStep,
           PaidCoordinate, PaidLapse DEF PipelineNext

\* Replays inflate the trending set, but only so far: a record that was taken up counts once, or
\* once for each of its calls when its date makes every one raise at the end, and what is counted
\* beyond that is at most one delivery of the heaviest signal for each fault.
THEOREM OvercountStaysBounded == PipelineSpec => []OvercountBounded
<1>1. PipelineInv /\ AllPaid => OvercountBounded
  <2> SUFFICES ASSUME PipelineInv, AllPaid, NEW i \in Items
               PROVE  trending[i] <= MostSignal(i, Offsets(started)) + faults * HeaviestSignal
    BY DEF OvercountBounded
  <2>1. GInv /\ trending[i] \in Int
    BY DEF PipelineInv, PipelineTypeOK
  <2>2. Tokens(i) \in Nat /\ Pendings(i) \in Nat
    BY <2>1, SummandsBounded, FiniteAssumption, TotalType
       DEF SummandsOK, TokensOf, PendingOf, Tokens, Pendings
  <2>3. Credits(i) \in Nat /\ Allowance \in Nat
    <3>1. log \in Logs /\ Offsets(started) \subseteq Places(log)
      BY <2>1, StartedPlaces DEF GInv, TypeOK, Logs
    <3>2. \A n, h \in Nat : n * h \in Nat
      OBVIOUS
    <3>3. faults \in Nat
      BY <2>1, ConsumerAssumption DEF GInv, TypeOK
    <3> QED BY <3>1, <3>2, <3>3, SumType, GainOfType, MostBounded DEF Credits, Allowance
  <2>4. Credits(i) = MostSignal(i, Offsets(started))
    <3>1. \A x \in Offsets(started) : log[x[1]][x[2]] \in Records
      BY <2>1, StartedPlaces, PlacesMember DEF GInv, TypeOK, Logs
    <3>2. [x \in Offsets(started) |-> MostOf(i)[log[x[1]][x[2]]]]
              = [x \in Offsets(started) |-> Most(i, log[x[1]][x[2]])]
      BY <3>1 DEF MostOf
    <3> QED BY <3>2 DEF Credits, SumIn, MostSignal
  <2>5. trending[i] + Tokens(i) + Pendings(i) <= Credits(i) + Allowance
    BY DEF AllPaid, PaidFor
  <2>6. trending[i] <= Credits(i) + Allowance
    BY <2>1, <2>2, <2>3, <2>5
  <2> QED BY <2>4, <2>6 DEF Allowance
<1>2. PipelineInv /\ PipelineInv' /\ CallsOK /\ Applied /\ Replays /\ AllPaid
        /\ [PipelineNext]_pipelineVars => AllPaid'
  BY PaidStep
<1>3. PipelineInv /\ PipelineInv' /\ CallsOK /\ Applied /\ [PipelineNext]_pipelineVars => Applied'
  BY AppliedStep
<1>4. PipelineInv /\ Replays /\ [PipelineNext]_pipelineVars => Replays'
  BY PipelineStepIsGroupStep, ReplaysStep DEF PipelineInv
<1>5. PipelineInit => Replays
  BY ReplaysInit DEF PipelineInit
<1> QED BY <1>1, <1>2, <1>3, <1>4, <1>5, AppliedInit, PaidInit, PipelineInvariant, PTL DEF PipelineSpec
====

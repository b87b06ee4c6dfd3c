---- MODULE EventPipelineProofs ----
(***************************************************************************)
(* Proofs about POST /events (EventIngestion) and about the path that its  *)
(* records take to the workers (EventPipeline), for any requests, events,  *)
(* partitions, workers and retry limits.                                   *)
(*                                                                         *)
(* Types, publication order and audit are one argument (how far a handler  *)
(* has come says what the stores hold); the dedupe marker is a second one  *)
(* (how often it was lost says how many requests won it); the copies of a  *)
(* record are a third (each used up an attempt of a winner).  The path     *)
(* adds that no partition holds more records than attempts were used up,   *)
(* and that the workers handle only what is in the log.                    *)
(***************************************************************************)
EXTENDS EventPipeline, FiniteSetTheorems, TLAPS

-----------------------------------------------------------------------------
(* Types *)

LEMMA TypeInit == Init => TypeOK
  BY IngestionAssumption DEF Init, TypeOK

LEMMA TargetType ==
  ASSUME NEW r \in Requests
  PROVE  Target(r) \in Partitions /\ Event[r] \in Events
  BY RequestsAssumption, PartitionAssumption DEF Target

LEMMA AppendedType ==
  ASSUME TypeOK, NEW p \in Partitions, NEW e \in Events
  PROVE  Appended(p, e) \in [Partitions -> Seq(Events)]
  BY DEF TypeOK, Appended

LEMMA TypeStep == TypeOK /\ [Next]_vars => TypeOK'
<1> SUFFICES ASSUME TypeOK, [Next]_vars PROVE TypeOK'
  OBVIOUS
<1> USE DEF TypeOK, InFlight, Answers, Sending
<1>1. CASE UNCHANGED vars
  BY <1>1 DEF vars
<1>2. ASSUME NEW e \in Events, MarkerExpires(e) PROVE TypeOK'
  BY <1>2 DEF MarkerExpires
<1>3. ASSUME NEW r \in Requests,
             Receive(r) \/ RejectTimestamp(r) \/ Handle(r) \/ PodDies(r)
      PROVE  TypeOK'
  <2>0. Appended(Target(r), Event[r]) \in [Partitions -> Seq(Events)] /\ Event[r] \in Events
    BY TargetType, AppendedType
  <2>1. CASE Receive(r) \/ RejectTimestamp(r) \/ PodDies(r)
    BY <2>1 DEF Receive, RejectTimestamp, PodDies, Step
  <2>2. CASE MarkNew(r) \/ FindDuplicate(r) \/ MarkFails(r)
    BY <2>0, <2>2 DEF MarkNew, FindDuplicate, MarkFails, Step
  <2>3. CASE SendSucceeds(r)
    <3>1. log' \in [Partitions -> Seq(Events)]
      BY <2>0, <2>3 DEF SendSucceeds
    <3>2. pc' \in [Requests -> {"new"} \cup InFlight \cup Answers]
      BY <2>3 DEF SendSucceeds, AfterSend
    <3>3. attempt' \in [Requests -> 0..MaxRetries]
      BY <2>3, IngestionAssumption DEF SendSucceeds
    <3> QED BY <2>3, <3>1, <3>2, <3>3 DEF SendSucceeds
  <2>4. CASE SendRetries(r) \/ SendGivesUp(r)
    <3>1. log' \in [Partitions -> Seq(Events)]
      BY <2>0, <2>4 DEF SendRetries, SendGivesUp, SendErrs
    <3>2. attempt' \in [Requests -> 0..MaxRetries]
      BY <2>4, IngestionAssumption DEF SendRetries, SendGivesUp
    <3> QED BY <2>4, <3>1, <3>2 DEF SendRetries, SendGivesUp, SendErrs
  <2>5. CASE Record(r) \/ RecordFails(r) \/ CommitRow(r) \/ CommitFails(r)
    BY <2>5 DEF Record, RecordFails, CommitRow, CommitFails, Step
  <2> QED BY <1>3, <2>1, <2>2, <2>3, <2>4, <2>5 DEF Handle
<1> QED BY <1>1, <1>2, <1>3 DEF Next

\* Every reachable state is well typed.
THEOREM TypeCorrect == Spec => []TypeOK
  BY TypeInit, TypeStep, PTL DEF Spec

-----------------------------------------------------------------------------
(* How far a handler has come says what the stores hold *)

\* The strengthening: what the topics and the audit table hold is fixed by the
\* place of the handler, and only the winners of the marker get past validate.
Journey ==
    \A r \in Requests :
        /\ pc[r] \in {"item", "record", "commit", "accepted"} => InUserTopic(Event[r])
        /\ pc[r] \in {"record", "commit", "accepted"} => InItemTopic(Event[r])
        /\ pc[r] = "accepted" => r \in rows
        /\ pc[r] \in Sending \cup {"record", "commit", "accepted"} => r \in won
        /\ r \in rows => r \in won /\ InItemTopic(Event[r])
        /\ r \in won => pc[r] \notin {"new", "validate", "duplicate"}

UserFirst == \A e \in Events : InItemTopic(e) => InUserTopic(e)

MarkedWasWon == \A e \in marked : \E r \in won : Event[r] = e

IInv == TypeOK /\ Journey /\ UserFirst /\ MarkedWasWon

\* Appending publishes the record in its partition and takes nothing back.
LEMMA AppendPublishes ==
  ASSUME TypeOK, NEW p \in Partitions, NEW e \in Events, log' = Appended(p, e),
         NEW f, NEW q \in Partitions
  PROVE  /\ Published(e, p)'
         /\ Published(f, q) => Published(f, q)'
         /\ Published(f, q)' => Published(f, q) \/ (f = e /\ q = p)
<1> USE DEF TypeOK
<1>1. /\ log'[q] = IF q = p THEN Append(log[p], e) ELSE log[q]
      /\ log'[p] = Append(log[p], e)
  BY DEF Appended
<1>2. /\ log[p] \in Seq(Events)
      /\ Len(log[p]) \in Nat
      /\ Len(log'[p]) = Len(log[p]) + 1
      /\ log'[p][Len(log[p]) + 1] = e
      /\ \A i \in 1..Len(log[p]) : log'[p][i] = log[p][i]
  BY <1>1
<1>3. Published(e, p)'
  BY <1>2 DEF Published
<1>4. CASE q = p
  <2>1. ASSUME Published(f, q) PROVE Published(f, q)'
    <3>1. PICK i \in 1..Len(log[p]) : log[p][i] = f
      BY <1>4, <2>1 DEF Published
    <3>2. i \in 1..Len(log'[p]) /\ log'[p][i] = f
      BY <1>2, <3>1
    <3> QED BY <1>4, <3>2 DEF Published
  <2>2. ASSUME Published(f, q)' PROVE Published(f, q) \/ f = e
    <3>1. PICK i \in 1..(Len(log[p]) + 1) : log'[p][i] = f
      BY <1>2, <1>4, <2>2 DEF Published
    <3>2. CASE i \in 1..Len(log[p])
      BY <1>2, <1>4, <3>1, <3>2 DEF Published
    <3>3. CASE i = Len(log[p]) + 1
      BY <1>2, <3>1, <3>3
    <3> QED BY <1>2, <3>2, <3>3
  <2> QED BY <1>3, <1>4, <2>1, <2>2
<1>5. CASE q # p
  BY <1>1, <1>3, <1>5 DEF Published
<1> QED BY <1>4, <1>5

LEMMA JourneyInit == Init => IInv
  BY TypeInit, RequestsAssumption, PartitionAssumption
  DEF Init, IInv, Journey, UserFirst, MarkedWasWon, Published, InUserTopic, InItemTopic,
      Sending

\* A step that appends nothing leaves publication as it was.
LEMMA SameLog ==
  ASSUME UNCHANGED log
  PROVE  \A e, p : Published(e, p)' <=> Published(e, p)
  BY DEF Published

\* The steps that leave the topics alone.
LEMMA QuietStep ==
  ASSUME IInv, UNCHANGED log, NEW r \in Requests,
         \/ Receive(r) \/ RejectTimestamp(r) \/ PodDies(r)
         \/ MarkNew(r) \/ FindDuplicate(r) \/ MarkFails(r)
         \/ Record(r) \/ RecordFails(r) \/ CommitRow(r) \/ CommitFails(r)
  PROVE  Journey' /\ UserFirst' /\ MarkedWasWon'
<1> USE RequestsAssumption DEF IInv, TypeOK, InFlight, Sending
<1>1. \A e : /\ InUserTopic(e)' <=> InUserTopic(e)
             /\ InItemTopic(e)' <=> InItemTopic(e)
  BY SameLog DEF InUserTopic, InItemTopic
<1>2. UserFirst'
  BY <1>1 DEF UserFirst
<1>3. CASE Receive(r)
  <2>1. Journey'
    BY <1>1, <1>3 DEF Receive, Step, Journey
  <2>2. MarkedWasWon'
    BY <1>3 DEF Receive, Step, MarkedWasWon
  <2> QED BY <1>2, <2>1, <2>2
<1>4. CASE RejectTimestamp(r)
  <2>1. Journey'
    BY <1>1, <1>4 DEF RejectTimestamp, Step, Journey
  <2>2. MarkedWasWon'
    BY <1>4 DEF RejectTimestamp, Step, MarkedWasWon
  <2> QED BY <1>2, <2>1, <2>2
<1>5. CASE PodDies(r)
  <2>1. Journey'
    BY <1>1, <1>5 DEF PodDies, Step, Journey
  <2>2. MarkedWasWon'
    BY <1>5 DEF PodDies, Step, MarkedWasWon
  <2> QED BY <1>2, <2>1, <2>2
<1>6. CASE MarkNew(r)
  <2>1. Journey'
    BY <1>1, <1>6 DEF MarkNew, Step, Journey
  <2>2. MarkedWasWon'
    BY <1>6 DEF MarkNew, Step, MarkedWasWon
  <2> QED BY <1>2, <2>1, <2>2
<1>7. CASE FindDuplicate(r)
  <2>1. Journey'
    BY <1>1, <1>7 DEF FindDuplicate, Step, Journey
  <2>2. MarkedWasWon'
    BY <1>7 DEF FindDuplicate, Step, MarkedWasWon
  <2> QED BY <1>2, <2>1, <2>2
<1>8. CASE MarkFails(r)
  <2>1. Journey'
    BY <1>1, <1>8 DEF MarkFails, Step, Journey
  <2>2. MarkedWasWon'
    BY <1>8 DEF MarkFails, Step, MarkedWasWon
  <2> QED BY <1>2, <2>1, <2>2
<1>9. CASE Record(r)
  <2>1. Journey'
    BY <1>1, <1>9 DEF Record, Step, Journey
  <2>2. MarkedWasWon'
    BY <1>9 DEF Record, Step, MarkedWasWon
  <2> QED BY <1>2, <2>1, <2>2
<1>10. CASE RecordFails(r)
  <2>1. Journey'
    BY <1>1, <1>10 DEF RecordFails, Step, Journey
  <2>2. MarkedWasWon'
    BY <1>10 DEF RecordFails, Step, MarkedWasWon
  <2> QED BY <1>2, <2>1, <2>2
<1>11. CASE CommitRow(r)
  <2>1. Journey'
    BY <1>1, <1>11 DEF CommitRow, Step, Journey
  <2>2. MarkedWasWon'
    BY <1>11 DEF CommitRow, Step, MarkedWasWon
  <2> QED BY <1>2, <2>1, <2>2
<1>12. CASE CommitFails(r)
  <2>1. Journey'
    BY <1>1, <1>12 DEF CommitFails, Step, Journey
  <2>2. MarkedWasWon'
    BY <1>12 DEF CommitFails, Step, MarkedWasWon
  <2> QED BY <1>2, <2>1, <2>2
<1> QED BY <1>3, <1>4, <1>5, <1>6, <1>7, <1>8, <1>9, <1>10, <1>11, <1>12

\* The steps of send(): acknowledged, or failed with or without the record.
LEMMA SendStep ==
  ASSUME IInv, NEW r \in Requests, SendSucceeds(r) \/ SendRetries(r) \/ SendGivesUp(r)
  PROVE  Journey' /\ UserFirst' /\ MarkedWasWon'
<1> USE RequestsAssumption, PartitionAssumption DEF IInv, TypeOK, Sending
<1>1. pc[r] \in Sending /\ UNCHANGED <<marked, rows, won>>
  BY DEF SendSucceeds, SendRetries, SendGivesUp, SendErrs
<1>2. /\ \/ UNCHANGED log
         \/ log' = Appended(Target(r), Event[r])
      /\ SendSucceeds(r) => log' = Appended(Target(r), Event[r])
  BY DEF SendSucceeds, SendRetries, SendGivesUp, SendErrs
<1>3. \A e \in Events : /\ InUserTopic(e) => InUserTopic(e)'
                        /\ InItemTopic(e) => InItemTopic(e)'
  BY <1>2, SameLog, AppendPublishes, TargetType DEF InUserTopic, InItemTopic
<1>4. MarkedWasWon'
  BY <1>1 DEF MarkedWasWon
<1>5. UserFirst'
  <2> SUFFICES ASSUME NEW e \in Events, InItemTopic(e)' PROVE InUserTopic(e)'
    BY DEF UserFirst
  <2>1. CASE InItemTopic(e)
    BY <1>3, <2>1 DEF UserFirst
  <2>2. CASE ~InItemTopic(e)
    <3>1. log' = Appended(Target(r), Event[r])
      BY <1>2, <2>2, SameLog DEF InItemTopic
    <3>2. e = Event[r] /\ ItemPartition[e] = Target(r)
      BY <2>2, <3>1, AppendPublishes, TargetType DEF InItemTopic
    <3>3. pc[r] = "item"
      BY <1>1, <3>2 DEF Target
    <3> QED BY <1>3, <3>2, <3>3 DEF Journey
  <2> QED BY <2>1, <2>2
<1>6. Journey'
  <2>1. CASE SendRetries(r)
    BY <1>1, <1>3, <2>1 DEF SendRetries, Journey
  <2>2. CASE SendGivesUp(r)
    BY <1>1, <1>3, <2>2 DEF SendGivesUp, Journey
  <2>3. CASE SendSucceeds(r)
    <3>1. /\ pc[r] = "user" => InUserTopic(Event[r])'
          /\ pc[r] = "item" => InItemTopic(Event[r])'
      BY <1>1, <1>2, <2>3, AppendPublishes, TargetType DEF Target, InUserTopic, InItemTopic
    <3>2. pc' = [pc EXCEPT ![r] = IF pc[r] = "user" THEN "item" ELSE "record"]
      BY <2>3 DEF SendSucceeds, AfterSend
    <3> QED BY <1>1, <1>3, <3>1, <3>2 DEF Journey
  <2> QED BY <2>1, <2>2, <2>3
<1> QED BY <1>4, <1>5, <1>6

LEMMA JourneyStep == IInv /\ [Next]_vars => IInv'
<1> SUFFICES ASSUME IInv, [Next]_vars PROVE IInv'
  OBVIOUS
<1>1. TypeOK'
  BY TypeStep DEF IInv
<1>2. CASE UNCHANGED vars
  BY <1>1, <1>2
  DEF vars, IInv, Journey, UserFirst, MarkedWasWon, Published, InUserTopic, InItemTopic
<1>3. ASSUME NEW e \in Events, MarkerExpires(e) PROVE IInv'
  <2>1. UNCHANGED <<pc, log, rows, won>> /\ marked' \subseteq marked
    BY <1>3 DEF MarkerExpires
  <2> QED BY <1>1, <2>1
          DEF IInv, Journey, UserFirst, MarkedWasWon, Published, InUserTopic, InItemTopic
<1>4. ASSUME NEW r \in Requests,
             Receive(r) \/ RejectTimestamp(r) \/ Handle(r) \/ PodDies(r)
      PROVE  IInv'
  <2>1. CASE SendSucceeds(r) \/ SendRetries(r) \/ SendGivesUp(r)
    BY <1>1, <2>1, SendStep DEF IInv
  <2>2. CASE ~(SendSucceeds(r) \/ SendRetries(r) \/ SendGivesUp(r))
    <3>1. \/ Receive(r) \/ RejectTimestamp(r) \/ PodDies(r)
          \/ MarkNew(r) \/ FindDuplicate(r) \/ MarkFails(r)
          \/ Record(r) \/ RecordFails(r) \/ CommitRow(r) \/ CommitFails(r)
      BY <1>4, <2>2 DEF Handle
    <3>2. UNCHANGED log
      BY <3>1 DEF Receive, RejectTimestamp, PodDies, MarkNew, FindDuplicate, MarkFails,
                  Record, RecordFails, CommitRow, CommitFails
    <3> QED BY <1>1, <3>1, <3>2, QuietStep DEF IInv
  <2> QED BY <2>1, <2>2
<1> QED BY <1>2, <1>3, <1>4 DEF Next

\* How far each handler has come says what the stores hold, in every reachable state.
THEOREM JourneyInvariant == Spec => []IInv
  BY JourneyInit, JourneyStep, PTL DEF Spec

\* A 200 "accepted" means that both topics and the audit table have the event.
THEOREM AcceptedDurable == Spec => []AcceptedIsDurable
<1>1. IInv => AcceptedIsDurable
  BY DEF IInv, Journey, AcceptedIsDurable
<1> QED BY <1>1, JourneyInvariant, PTL

\* user-events is filled before item-events, and both before the audit table.
THEOREM StreamFirst == Spec => []StreamBeforeAudit
<1>1. IInv => StreamBeforeAudit
  BY DEF IInv, TypeOK, Journey, UserFirst, StreamBeforeAudit
<1> QED BY <1>1, JourneyInvariant, PTL

\* An event that is marked but lost was reported lost to the sender that won it.
THEOREM LossReported == Spec => []LossIsReported
<1>1. IInv => LossIsReported
  <2> SUFFICES ASSUME IInv, NEW e \in Events, e \in marked, Unhandled(e), ~InUserTopic(e)
               PROVE  /\ \E r \in Winners(e) : pc[r] \in {"error", "dropped"}
                      /\ \A r \in Requests : Event[r] = e => pc[r] # "accepted"
    BY DEF LossIsReported
  <2>1. PICK r \in won : Event[r] = e
    BY DEF IInv, MarkedWasWon
  <2>2. pc[r] \in {"accepted", "error", "dropped"}
    BY <2>1 DEF IInv, TypeOK, Journey, Unhandled, InFlight, Answers
  <2>3. \A q \in Requests : Event[q] = e => pc[q] # "accepted"
    BY DEF IInv, Journey
  <2> QED BY <2>1, <2>2, <2>3 DEF Winners, IInv, TypeOK
<1> QED BY <1>1, JourneyInvariant, PTL

-----------------------------------------------------------------------------
(* One publisher per life of the marker *)

\* Each winner of an event has used up one life of its marker: the lives that
\* have ended, and the present one if the event is marked.
WinnersCounted ==
    \A e \in Events :
        Cardinality(Winners(e)) <= expiries[e] + (IF e \in marked THEN 1 ELSE 0)

LEMMA WinnersFinite ==
  ASSUME TypeOK, NEW e
  PROVE  IsFiniteSet(Winners(e)) /\ Cardinality(Winners(e)) \in Nat
<1>1. Winners(e) \in SUBSET Requests
  BY DEF Winners, TypeOK
<1> QED BY <1>1, RequestsAssumption, FS_Subset, FS_CardinalityType

LEMMA WinnersInit == Init => WinnersCounted
<1> SUFFICES ASSUME Init, NEW e \in Events
             PROVE  Cardinality(Winners(e)) <= expiries[e] + (IF e \in marked THEN 1 ELSE 0)
  BY DEF WinnersCounted
<1>1. Winners(e) = {}
  BY DEF Init, Winners
<1> QED BY <1>1, FS_EmptySet DEF Init

\* A request that wins takes the marker of its event; no other step adds a winner.
LEMMA WinnersStep == TypeOK /\ WinnersCounted /\ [Next]_vars => WinnersCounted'
<1> SUFFICES ASSUME TypeOK, WinnersCounted, [Next]_vars, NEW e \in Events
             PROVE  Cardinality(Winners(e)') <=
                        expiries'[e] + (IF e \in marked' THEN 1 ELSE 0)
  BY DEF WinnersCounted
<1> USE RequestsAssumption DEF TypeOK
<1>1. ASSUME UNCHANGED <<won, marked, expiries>>
      PROVE  Cardinality(Winners(e)') <= expiries'[e] + (IF e \in marked' THEN 1 ELSE 0)
  <2>1. Winners(e)' = Winners(e)
    BY <1>1 DEF Winners
  <2> QED BY <1>1, <2>1 DEF WinnersCounted
<1>2. ASSUME NEW r \in Requests, Event[r] \notin marked, won' = won \cup {r},
             marked' = marked \cup {Event[r]}, UNCHANGED expiries
      PROVE  Cardinality(Winners(e)') <= expiries'[e] + (IF e \in marked' THEN 1 ELSE 0)
  <2>1. CASE e = Event[r]
    <3>1. Winners(e)' = Winners(e) \cup {r}
      BY <1>2, <2>1 DEF Winners
    <3>2. Cardinality(Winners(e)') <= Cardinality(Winners(e)) + 1
      <4>1. IsFiniteSet(Winners(e)) /\ Cardinality(Winners(e)) \in Nat
        BY WinnersFinite
      <4>2. Cardinality(Winners(e) \cup {r}) =
              IF r \in Winners(e) THEN Cardinality(Winners(e)) ELSE Cardinality(Winners(e)) + 1
        BY <4>1, FS_AddElement
      <4> QED BY <3>1, <4>1, <4>2
    <3>3. Cardinality(Winners(e)) <= expiries[e] /\ e \in marked'
      BY <1>2, <2>1, WinnersFinite DEF WinnersCounted
    <3>4. Cardinality(Winners(e)') \in Nat
      BY <3>1, WinnersFinite, FS_AddElement, FS_CardinalityType
    <3> QED BY <1>2, <3>2, <3>3, <3>4, WinnersFinite
  <2>2. CASE e # Event[r]
    <3>1. Winners(e)' = Winners(e)
      BY <1>2, <2>2 DEF Winners
    <3> QED BY <1>2, <2>2, <3>1 DEF WinnersCounted
  <2> QED BY <2>1, <2>2
<1>3. CASE UNCHANGED vars
  BY <1>1, <1>3 DEF vars
<1>4. ASSUME NEW f \in Events, MarkerExpires(f)
      PROVE  Cardinality(Winners(e)') <= expiries'[e] + (IF e \in marked' THEN 1 ELSE 0)
  <2>1. Winners(e)' = Winners(e)
    BY <1>4 DEF MarkerExpires, Winners
  <2>2. /\ f \in marked
        /\ marked' = marked \ {f}
        /\ expiries'[e] = IF e = f THEN expiries[e] + 1 ELSE expiries[e]
    BY <1>4 DEF MarkerExpires
  <2> QED BY <2>1, <2>2, WinnersFinite DEF WinnersCounted
<1>5. ASSUME NEW r \in Requests,
             Receive(r) \/ RejectTimestamp(r) \/ Handle(r) \/ PodDies(r)
      PROVE  Cardinality(Winners(e)') <= expiries'[e] + (IF e \in marked' THEN 1 ELSE 0)
  <2>1. CASE MarkNew(r) \/ MarkFails(r)
    BY <1>1, <1>2, <2>1 DEF MarkNew, MarkFails
  <2>2. CASE ~(MarkNew(r) \/ MarkFails(r))
    <3>1. UNCHANGED <<won, marked, expiries>>
      BY <1>5, <2>2 DEF Handle, Receive, RejectTimestamp, PodDies, FindDuplicate,
         SendSucceeds, SendRetries, SendGivesUp, SendErrs, Record, RecordFails, CommitRow,
         CommitFails
    <3> QED BY <1>1, <3>1
  <2> QED BY <2>1, <2>2
<1> QED BY <1>3, <1>4, <1>5 DEF Next

\* However many requests race, one event is published and recorded by at most one of
\* them per life of the dedupe marker.
THEOREM OnePublisher == Spec => []OnePublisherPerMarker
<1>1. IInv /\ WinnersCounted => OnePublisherPerMarker
  <2> SUFFICES ASSUME IInv, WinnersCounted, NEW e \in Events
               PROVE  /\ Cardinality(Winners(e)) <= 1 + expiries[e]
                      /\ RowsOf(e) \subseteq Winners(e)
    BY DEF OnePublisherPerMarker
  <2>1. expiries[e] \in Nat /\ Cardinality(Winners(e)) \in Nat
    BY WinnersFinite DEF IInv, TypeOK
  <2>2. Cardinality(Winners(e)) <= 1 + expiries[e]
    BY <2>1 DEF WinnersCounted
  <2>3. RowsOf(e) \subseteq Winners(e)
    BY DEF IInv, TypeOK, Journey, RowsOf, Winners
  <2> QED BY <2>2, <2>3
<1>2. IInv => TypeOK
  BY DEF IInv
<1> QED BY <1>1, <1>2, JourneyInvariant, WinnersInit, WinnersStep, PTL DEF Spec

-----------------------------------------------------------------------------
(* Copies in the topics *)

\* The attempts of the winners to send to partition p that are used up: the k-th attempt of
\* request r, for a send that is over, and those before the present one of a send in progress.
Unused(r, k, p) ==
    \/ pc[r] = "user" /\ (p # UserPartition[Event[r]] \/ k >= attempt[r])
    \/ pc[r] = "item" /\ p = ItemPartition[Event[r]] /\ k >= attempt[r]

Used(p) == {x \in won \X (0..MaxRetries) : ~Unused(x[1], x[2], p)}
UsedFor(e, p) == {x \in Used(p) : Event[x[1]] = e}

\* A record in a topic has used up an attempt of one of the event's publishers.
CopiesCounted ==
    \A e \in Events, p \in Partitions : Copies(e, p) <= Cardinality(UsedFor(e, p))

LEMMA AttemptsFinite ==
  IsFiniteSet(Requests \X (0..MaxRetries))
<1>1. IsFiniteSet(0..MaxRetries)
  BY IngestionAssumption, FS_Interval
<1> QED BY <1>1, RequestsAssumption, FS_Product

LEMMA UsedFinite ==
  ASSUME TypeOK, NEW e, NEW p
  PROVE  IsFiniteSet(UsedFor(e, p)) /\ Cardinality(UsedFor(e, p)) \in Nat
<1>1. UsedFor(e, p) \in SUBSET (Requests \X (0..MaxRetries))
  BY DEF TypeOK, Used, UsedFor
<1> QED BY <1>1, AttemptsFinite, FS_Subset, FS_CardinalityType

\* An attempt that is used up stays so.
LEMMA UsedStays ==
  ASSUME IInv, [Next]_vars, NEW p \in Partitions
  PROVE  Used(p) \subseteq Used(p)'
<1> SUFFICES ASSUME NEW r \in won, NEW k \in 0..MaxRetries, ~Unused(r, k, p)
             PROVE  r \in won' /\ ~Unused(r, k, p)'
  BY DEF Used
<1> USE RequestsAssumption DEF IInv, TypeOK
<1>0. r \in Requests /\ pc[r] \notin {"new", "validate", "duplicate"} /\ attempt[r] \in 0..MaxRetries
  BY DEF Journey
<1>1. ASSUME NEW q \in Requests, SendSucceeds(q) \/ SendRetries(q) \/ SendGivesUp(q)
      PROVE  r \in won' /\ ~Unused(r, k, p)'
  <2>1. CASE q # r
    <3>1. pc'[r] = pc[r] /\ attempt'[r] = attempt[r] /\ won' = won
      BY <1>0, <1>1, <2>1 DEF SendSucceeds, SendRetries, SendGivesUp, SendErrs
    <3> QED BY <3>1 DEF Unused
  <2>2. CASE q = r /\ SendSucceeds(r)
    <3>1. /\ pc[r] \in Sending /\ pc'[r] = (IF pc[r] = "user" THEN "item" ELSE "record") /\ won' = won
      BY <1>0, <2>2 DEF SendSucceeds, AfterSend
    <3>2. p = ItemPartition[Event[r]] => p # UserPartition[Event[r]]
      BY <1>0, PartitionAssumption
    <3> QED BY <3>1, <3>2 DEF Unused, Sending
  <2>3. CASE q = r /\ SendRetries(r)
    <3>1. pc'[r] = pc[r] /\ attempt'[r] = attempt[r] + 1 /\ won' = won
      BY <1>0, <2>3 DEF SendRetries, SendErrs
    <3> QED BY <1>0, <3>1 DEF Unused
  <2>4. CASE q = r /\ SendGivesUp(r)
    <3>1. pc'[r] = "error" /\ won' = won
      BY <1>0, <2>4 DEF SendGivesUp, SendErrs
    <3> QED BY <3>1 DEF Unused
  <2> QED BY <1>1, <2>1, <2>2, <2>3, <2>4
<1>2. ASSUME NEW q \in Requests,
             \/ Receive(q) \/ RejectTimestamp(q) \/ PodDies(q)
             \/ MarkNew(q) \/ FindDuplicate(q) \/ MarkFails(q)
             \/ Record(q) \/ RecordFails(q) \/ CommitRow(q) \/ CommitFails(q)
      PROVE  r \in won' /\ ~Unused(r, k, p)'
  <2>1. r \in won' /\ attempt' = attempt
    BY <1>2 DEF Receive, RejectTimestamp, PodDies, MarkNew, FindDuplicate, MarkFails, Record,
                RecordFails, CommitRow, CommitFails
  <2>2. pc'[r] = pc[r] \/ pc'[r] \notin Sending
    BY <1>0, <1>2 DEF Receive, RejectTimestamp, PodDies, MarkNew, FindDuplicate, MarkFails, Record,
                      RecordFails, CommitRow, CommitFails, Step, Sending
  <2> QED BY <2>1, <2>2 DEF Unused, Sending
<1>3. CASE UNCHANGED vars
  BY <1>3 DEF vars, Unused
<1>4. ASSUME NEW e \in Events, MarkerExpires(e) PROVE r \in won' /\ ~Unused(r, k, p)'
  BY <1>4 DEF MarkerExpires, Unused
<1> QED BY <1>1, <1>2, <1>3, <1>4 DEF Next, Handle

\* The send that appends to p uses up its attempt k.
LEMMA AppendUses ==
  ASSUME IInv, NEW r \in Requests, SendSucceeds(r) \/ SendRetries(r) \/ SendGivesUp(r),
         NEW p \in Partitions, NEW k \in 0..MaxRetries, p = Target(r), k = attempt[r]
  PROVE  <<r, k>> \notin Used(p) /\ <<r, k>> \in Used(p)'
<1> USE RequestsAssumption DEF IInv, TypeOK
<1>1. pc[r] \in Sending /\ r \in won /\ won' = won
  BY DEF Journey, SendSucceeds, SendRetries, SendGivesUp, SendErrs
<1>2. p = IF pc[r] = "user" THEN UserPartition[Event[r]] ELSE ItemPartition[Event[r]]
  BY DEF Target
<1>3. Unused(r, k, p)
  BY <1>1, <1>2 DEF Unused, Sending
<1>4. UserPartition[Event[r]] # ItemPartition[Event[r]]
  BY PartitionAssumption
<1>5. ~Unused(r, k, p)'
  <2>1. CASE SendSucceeds(r)
    <3>1. pc'[r] = (IF pc[r] = "user" THEN "item" ELSE "record")
      BY <2>1 DEF SendSucceeds, AfterSend
    <3> QED BY <1>1, <1>2, <1>4, <3>1 DEF Unused, Sending
  <2>2. CASE SendRetries(r)
    <3>1. pc'[r] = pc[r] /\ attempt'[r] = attempt[r] + 1
      BY <2>2 DEF SendRetries, SendErrs
    <3> QED BY <1>1, <1>2, <1>4, <3>1 DEF Unused, Sending
  <2>3. CASE SendGivesUp(r)
    <3>1. pc'[r] = "error"
      BY <2>3 DEF SendGivesUp
    <3> QED BY <3>1 DEF Unused
  <2> QED BY <2>1, <2>2, <2>3
<1> QED BY <1>1, <1>3, <1>5 DEF Used

-----------------------------------------------------------------------------
LEMMA CopiesFinite ==
  ASSUME TypeOK, NEW e, NEW p \in Partitions
  PROVE  /\ Len(log[p]) \in Nat
         /\ IsFiniteSet({i \in 1..Len(log[p]) : log[p][i] = e})
         /\ Copies(e, p) \in Nat
<1>1. Len(log[p]) \in Nat
  BY DEF TypeOK
<1>2. IsFiniteSet(1..Len(log[p]))
  BY <1>1, FS_Interval
<1>3. IsFiniteSet({i \in 1..Len(log[p]) : log[p][i] = e})
  BY <1>2, FS_Subset
<1> QED BY <1>1, <1>3, FS_CardinalityType DEF Copies

\* An append to p adds one copy of its event to p and nothing elsewhere.
LEMMA CopiesAfterAppend ==
  ASSUME TypeOK, NEW p \in Partitions, NEW e \in Events, log' = Appended(p, e),
         NEW f \in Events, NEW q \in Partitions
  PROVE  Copies(f, q)' = IF f = e /\ q = p THEN Copies(f, q) + 1 ELSE Copies(f, q)
<1>1. log[p] \in Seq(Events) /\ Len(log[p]) \in Nat
  BY DEF TypeOK
<1>2. log'[q] = IF q = p THEN Append(log[p], e) ELSE log[q]
  BY DEF TypeOK, Appended
<1>3. CASE q # p
  BY <1>2, <1>3 DEF Copies
<1>4. CASE q = p
  <2> DEFINE Old == {i \in 1..Len(log[p]) : log[p][i] = f}
             New == {i \in 1..Len(log'[q]) : log'[q][i] = f}
             n == Len(log[p]) + 1
  <2>1. /\ Len(log'[q]) = n
        /\ log'[q][n] = e
        /\ \A i \in 1..Len(log[p]) : log'[q][i] = log[p][i]
        /\ 1..n = 1..Len(log[p]) \cup {n}
        /\ n \notin 1..Len(log[p])
    BY <1>1, <1>2, <1>4
  <2>2. New = IF f = e THEN Old \cup {n} ELSE Old
    BY <2>1
  <2>3. n \notin Old
    BY <2>1
  <2>4. IsFiniteSet(Old)
    BY CopiesFinite
  <2>5. Copies(f, q) = Cardinality(Old) /\ Copies(f, q)' = Cardinality(New)
    BY <1>4 DEF Copies
  <2> HIDE DEF Old, New, n
  <2>6. Cardinality(Old \cup {n}) = Cardinality(Old) + 1
    BY <2>3, <2>4, FS_AddElement
  <2> QED BY <1>4, <2>2, <2>5, <2>6
<1> QED BY <1>3, <1>4

LEMMA CopiesInit == Init => CopiesCounted
<1> SUFFICES ASSUME Init, NEW e \in Events, NEW p \in Partitions
             PROVE  Copies(e, p) <= Cardinality(UsedFor(e, p))
  BY DEF CopiesCounted
<1>1. {i \in 1..Len(log[p]) : log[p][i] = e} = {}
  BY DEF Init
<1>2. Copies(e, p) = 0
  BY <1>1, FS_EmptySet DEF Copies
<1>3. Cardinality(UsedFor(e, p)) \in Nat
  BY TypeInit, UsedFinite
<1> QED BY <1>2, <1>3

\* What is used up for an event only grows.
LEMMA UsedForGrows ==
  ASSUME IInv, [Next]_vars, NEW e \in Events, NEW p \in Partitions
  PROVE  /\ UsedFor(e, p) \subseteq UsedFor(e, p)'
         /\ IsFiniteSet(UsedFor(e, p)) /\ IsFiniteSet(UsedFor(e, p)')
         /\ Cardinality(UsedFor(e, p)) \in Nat /\ Cardinality(UsedFor(e, p)') \in Nat
         /\ Cardinality(UsedFor(e, p)) <= Cardinality(UsedFor(e, p)')
<1>1. Used(p) \subseteq Used(p)'
  BY UsedStays
<1>2. UsedFor(e, p) \subseteq UsedFor(e, p)'
  BY <1>1 DEF UsedFor
<1>3. won' \in SUBSET Requests
  BY TypeStep DEF IInv, TypeOK
<1>4. UsedFor(e, p)' \in SUBSET (Requests \X (0..MaxRetries))
  BY <1>3 DEF Used, UsedFor
<1>5. IsFiniteSet(UsedFor(e, p)')
  BY <1>4, AttemptsFinite, FS_Subset
<1>6. IsFiniteSet(UsedFor(e, p))
  BY UsedFinite DEF IInv
<1> QED BY <1>2, <1>5, <1>6, FS_Subset, FS_CardinalityType

LEMMA CopiesStep == IInv /\ CopiesCounted /\ [Next]_vars => CopiesCounted'
<1> SUFFICES ASSUME IInv, CopiesCounted, [Next]_vars, NEW e \in Events, NEW p \in Partitions
             PROVE  Copies(e, p)' <= Cardinality(UsedFor(e, p)')
  BY DEF CopiesCounted
<1>1. /\ Copies(e, p) \in Nat
      /\ Copies(e, p) <= Cardinality(UsedFor(e, p))
  BY CopiesFinite DEF IInv, CopiesCounted
<1>2. CASE Copies(e, p)' = Copies(e, p)
  BY <1>1, <1>2, UsedForGrows
<1>3. ASSUME NEW r \in Requests, SendSucceeds(r) \/ SendRetries(r) \/ SendGivesUp(r),
             log' = Appended(Target(r), Event[r]), e = Event[r], p = Target(r)
      PROVE  Copies(e, p)' <= Cardinality(UsedFor(e, p)')
  <2>1. attempt[r] \in 0..MaxRetries /\ r \in won
    BY <1>3 DEF IInv, TypeOK, Journey, SendSucceeds, SendRetries, SendGivesUp, SendErrs, Sending
  <2>2. PICK k \in 0..MaxRetries : k = attempt[r]
    BY <2>1
  <2>3. <<r, k>> \notin Used(p) /\ <<r, k>> \in Used(p)'
    BY <1>3, <2>2, AppendUses
  <2>4. <<r, k>> \notin UsedFor(e, p) /\ <<r, k>> \in UsedFor(e, p)'
    BY <1>3, <2>3 DEF UsedFor
  <2>5. Cardinality(UsedFor(e, p) \cup {<<r, k>>}) = Cardinality(UsedFor(e, p)) + 1
    BY <2>4, UsedForGrows, FS_AddElement
  <2>6. UsedFor(e, p) \cup {<<r, k>>} \subseteq UsedFor(e, p)'
    BY <2>4, UsedForGrows
  <2>7. Cardinality(UsedFor(e, p)) + 1 <= Cardinality(UsedFor(e, p)')
    BY <2>5, <2>6, UsedForGrows, FS_Subset
  <2>8. Copies(e, p)' = Copies(e, p) + 1
    BY <1>3, CopiesAfterAppend DEF IInv
  <2> QED BY <1>1, <2>7, <2>8, UsedForGrows
<1>4. ASSUME NEW r \in Requests, log' = Appended(Target(r), Event[r]),
             ~(e = Event[r] /\ p = Target(r))
      PROVE  Copies(e, p)' = Copies(e, p)
  BY <1>4, CopiesAfterAppend, TargetType DEF IInv
<1>5. ASSUME UNCHANGED log PROVE Copies(e, p)' = Copies(e, p)
  BY <1>5 DEF Copies
<1>6. ASSUME NEW r \in Requests, SendSucceeds(r) \/ SendRetries(r) \/ SendGivesUp(r)
      PROVE  Copies(e, p)' <= Cardinality(UsedFor(e, p)')
  <2>1. UNCHANGED log \/ log' = Appended(Target(r), Event[r])
    BY <1>6 DEF SendSucceeds, SendRetries, SendGivesUp, SendErrs
  <2> QED BY <1>2, <1>3, <1>4, <1>5, <1>6, <2>1
<1>7. \/ \E r \in Requests : SendSucceeds(r) \/ SendRetries(r) \/ SendGivesUp(r)
      \/ UNCHANGED log
  BY DEF Next, Handle, vars, Receive, RejectTimestamp, PodDies, MarkNew, FindDuplicate, MarkFails,
         Record, RecordFails, CommitRow, CommitFails, MarkerExpires
<1> QED BY <1>2, <1>5, <1>6, <1>7

LEMMA TimesMonotone ==
  \A m, n, a \in Nat : m <= n => m * a \in Nat /\ n * a \in Nat /\ m * a <= n * a
  OBVIOUS

\* A send gives a topic at most max_retries + 1 copies of its event, and an event has
\* at most one sender per life of its marker.
THEOREM CopiesStayBounded == Spec => []CopiesBounded
<1>1. IInv /\ CopiesCounted /\ OnePublisherPerMarker => CopiesBounded
  <2> SUFFICES ASSUME IInv, CopiesCounted, OnePublisherPerMarker, NEW e \in Events,
                      NEW p \in Partitions
               PROVE  Copies(e, p) <= (MaxRetries + 1) * (1 + expiries[e])
    BY DEF CopiesBounded
  <2> DEFINE All == Winners(e) \X (0..MaxRetries)
             m == MaxRetries + 1
             w == Cardinality(Winners(e))
             x == 1 + expiries[e]
  <2>1. w \in Nat /\ IsFiniteSet(Winners(e)) /\ m \in Nat /\ x \in Nat /\ w <= x
    BY WinnersFinite, IngestionAssumption DEF IInv, TypeOK, OnePublisherPerMarker
  <2>2. IsFiniteSet(0..MaxRetries) /\ Cardinality(0..MaxRetries) = m
    BY IngestionAssumption, FS_Interval
  <2>3. IsFiniteSet(All) /\ Cardinality(All) = w * m
    BY <2>1, <2>2, FS_Product
  <2>4. UsedFor(e, p) \subseteq All
    BY DEF UsedFor, Used, Winners
  <2>5. Cardinality(UsedFor(e, p)) <= Cardinality(All)
    BY <2>3, <2>4, FS_Subset
  <2>6. Copies(e, p) \in Nat /\ Copies(e, p) <= Cardinality(UsedFor(e, p))
        /\ Cardinality(UsedFor(e, p)) \in Nat
    BY CopiesFinite, UsedFinite DEF IInv, CopiesCounted
  <2> HIDE DEF All, m, w, x
  <2>7. w * m \in Nat /\ x * m \in Nat /\ w * m <= x * m
    BY <2>1, TimesMonotone
  <2>8. x * m = m * x
    BY <2>1
  <2>9. Copies(e, p) <= m * x
    BY <2>3, <2>5, <2>6, <2>7, <2>8
  <2> QED BY <2>9 DEF m, x
<1> QED BY <1>1, JourneyInvariant, OnePublisher, JourneyInit, JourneyStep, CopiesInit, CopiesStep,
           PTL DEF Spec
-----------------------------------------------------------------------------
(* The whole path: requests and workers over one log *)

\* A partition holds no more records than attempts have been used up on it.
RoomLeft == \A p \in Partitions : Len(log[p]) <= Cardinality(Used(p))

LEMMA UsedBounded ==
  ASSUME TypeOK, NEW p
  PROVE  /\ Used(p) \subseteq Requests \X (0..MaxRetries)
         /\ IsFiniteSet(Used(p)) /\ Cardinality(Used(p)) \in Nat
<1>1. Used(p) \in SUBSET (Requests \X (0..MaxRetries))
  BY DEF TypeOK, Used
<1> QED BY <1>1, AttemptsFinite, FS_Subset, FS_CardinalityType

\* While an attempt is in use, the partition it is for is below its bound.
LEMMA UnusedLeavesRoom ==
  ASSUME TypeOK, NEW p, NEW x \in Requests \X (0..MaxRetries), x \notin Used(p)
  PROVE  /\ Cardinality(Used(p) \cup {x}) = Cardinality(Used(p)) + 1
         /\ Cardinality(Used(p)) < MaxLog
<1> DEFINE All == Requests \X (0..MaxRetries)
           c == Cardinality(Requests)
           m == MaxRetries + 1
<1>1. c \in Nat /\ m \in Nat /\ MaxLog \in Nat /\ MaxLog >= m * c
  BY RequestsAssumption, IngestionAssumption, RoomAssumption, FS_CardinalityType
<1>2. IsFiniteSet(0..MaxRetries) /\ Cardinality(0..MaxRetries) = m
  BY IngestionAssumption, FS_Interval
<1>3. IsFiniteSet(All) /\ Cardinality(All) = c * m
  BY <1>2, RequestsAssumption, FS_Product
<1>4. Cardinality(Used(p) \cup {x}) = Cardinality(Used(p)) + 1
  BY UsedBounded, FS_AddElement
<1>5. Cardinality(Used(p) \cup {x}) <= Cardinality(All)
  BY <1>3, UsedBounded, FS_Subset
<1>6. Cardinality(Used(p)) \in Nat
  BY UsedBounded
<1> HIDE DEF All, c, m
<1>7. c * m = m * c /\ m * c \in Nat
  BY <1>1, TimesMonotone
<1> QED BY <1>1, <1>3, <1>4, <1>5, <1>6, <1>7

LEMMA RoomInit == Init => RoomLeft
<1> SUFFICES ASSUME Init, NEW p \in Partitions PROVE Len(log[p]) <= Cardinality(Used(p))
  BY DEF RoomLeft
<1>1. Len(log[p]) = 0
  BY DEF Init
<1>2. Cardinality(Used(p)) \in Nat
  BY TypeInit, UsedBounded
<1> QED BY <1>1, <1>2

\* A request appends to one partition, which has room for it.
LEMMA RequestAppends ==
  ASSUME IInv, RoomLeft, [Next]_vars, log' # log
  PROVE  \E p \in Partitions, e \in Events :
           /\ Len(log[p]) < MaxLog
           /\ log' = Appended(p, e)
           /\ \E r \in won : Event[r] = e /\ r \in won'
           /\ \E x \in Used(p)' : x \notin Used(p)
<1>1. PICK r \in Requests : SendSucceeds(r) \/ SendRetries(r) \/ SendGivesUp(r)
  BY DEF Next, Handle, vars, Receive, RejectTimestamp, PodDies, MarkNew, FindDuplicate, MarkFails,
         Record, RecordFails, CommitRow, CommitFails, MarkerExpires
<1>2. /\ log' = Appended(Target(r), Event[r])
      /\ pc[r] \in Sending /\ won' = won
  BY <1>1 DEF SendSucceeds, SendRetries, SendGivesUp, SendErrs
<1>3. r \in won /\ attempt[r] \in 0..MaxRetries
  BY <1>2 DEF IInv, TypeOK, Journey
<1>4. PICK p \in Partitions : p = Target(r)
  BY TargetType
<1>5. PICK k \in 0..MaxRetries : k = attempt[r]
  BY <1>3
<1>6. <<r, k>> \notin Used(p) /\ <<r, k>> \in Used(p)'
  BY <1>1, <1>4, <1>5, AppendUses
<1>7. Cardinality(Used(p)) < MaxLog /\ Cardinality(Used(p)) \in Nat
  BY <1>6, UnusedLeavesRoom, UsedBounded, RoomAssumption DEF IInv
<1>8. Len(log[p]) \in Nat /\ Len(log[p]) <= Cardinality(Used(p))
  BY DEF IInv, TypeOK, RoomLeft
<1>9. Len(log[p]) < MaxLog
  BY <1>7, <1>8, RoomAssumption
<1> QED BY <1>2, <1>3, <1>4, <1>6, <1>9, TargetType

LEMMA RoomStep == IInv /\ RoomLeft /\ [Next]_vars => RoomLeft'
<1> SUFFICES ASSUME IInv, RoomLeft, [Next]_vars, NEW q \in Partitions
             PROVE  Len(log'[q]) <= Cardinality(Used(q)')
  BY DEF RoomLeft
<1>1. /\ Len(log[q]) \in Nat /\ Len(log[q]) <= Cardinality(Used(q))
      /\ IsFiniteSet(Used(q)) /\ Cardinality(Used(q)) \in Nat
  BY UsedBounded DEF IInv, TypeOK, RoomLeft
<1>2. Used(q)' \in SUBSET (Requests \X (0..MaxRetries))
  <2>1. won' \in SUBSET Requests
    BY TypeStep DEF IInv, TypeOK
  <2> QED BY <2>1 DEF Used
<1>3. IsFiniteSet(Used(q)') /\ Cardinality(Used(q)') \in Nat
  BY <1>2, AttemptsFinite, FS_Subset, FS_CardinalityType
<1>4. Used(q) \subseteq Used(q)'
  BY UsedStays
<1>5. Cardinality(Used(q)) <= Cardinality(Used(q)')
  BY <1>3, <1>4, FS_Subset
<1>6. CASE log'[q] = log[q]
  BY <1>1, <1>3, <1>5, <1>6
<1>7. CASE log'[q] # log[q]
  <2>1. PICK p \in Partitions, e \in Events :
           /\ log' = Appended(p, e)
           /\ \E x \in Used(p)' : x \notin Used(p)
    BY <1>7, RequestAppends
  <2>2. q = p /\ Len(log'[q]) = Len(log[q]) + 1
    BY <1>7, <2>1 DEF Appended, IInv, TypeOK
  <2>3. PICK x \in Used(q)' : x \notin Used(q)
    BY <2>1, <2>2
  <2>4. Cardinality(Used(q) \cup {x}) = Cardinality(Used(q)) + 1
    BY <1>1, <2>3, FS_AddElement
  <2>5. Used(q) \cup {x} \subseteq Used(q)'
    BY <1>4, <2>3
  <2>6. Cardinality(Used(q) \cup {x}) <= Cardinality(Used(q)')
    BY <1>3, <2>5, FS_Subset
  <2> QED BY <1>1, <1>3, <2>2, <2>4, <2>6
<1> QED BY <1>6, <1>7

-----------------------------------------------------------------------------
\* Every record of the log was sent by a request that won the marker of its event.
SentByWinner ==
    \A p \in Partitions : \A i \in 1..Len(log[p]) : \E r \in won : Event[r] = log[p][i]

LEMMA SentInit == Init => SentByWinner
  BY DEF Init, SentByWinner

LEMMA SentStep == IInv /\ RoomLeft /\ SentByWinner /\ [Next]_vars => SentByWinner'
<1> SUFFICES ASSUME IInv, RoomLeft, SentByWinner, [Next]_vars,
                    NEW q \in Partitions, NEW i \in 1..Len(log'[q])
             PROVE  \E r \in won' : Event[r] = log'[q][i]
  BY DEF SentByWinner
<1>1. won \subseteq won'
  BY DEF Next, Handle, vars, Receive, RejectTimestamp, PodDies, MarkNew, FindDuplicate, MarkFails,
         SendSucceeds, SendRetries, SendGivesUp, SendErrs,
         Record, RecordFails, CommitRow, CommitFails, MarkerExpires
<1>2. CASE log'[q] = log[q]
  BY <1>1, <1>2 DEF SentByWinner
<1>3. CASE log'[q] # log[q]
  <2>1. PICK p \in Partitions, e \in Events :
           log' = Appended(p, e) /\ \E r \in won : Event[r] = e
    BY <1>3, RequestAppends
  <2>2. log[q] \in Seq(Events) /\ log'[q] = Append(log[q], e)
    BY <1>3, <2>1 DEF Appended, IInv, TypeOK
  <2>3. log'[q][i] = e \/ (i \in 1..Len(log[q]) /\ log'[q][i] = log[q][i])
    BY <2>2
  <2> QED BY <1>1, <2>1, <2>3 DEF SentByWinner
<1> QED BY <1>2, <1>3

-----------------------------------------------------------------------------
\* The workers read and handle records of the log only.
HandledInLog ==
    /\ committed \in [Partitions -> Nat]
    /\ position \in [Partitions -> Nat]
    /\ done \in [Partitions -> SUBSET Nat]
    /\ workerPc \in [Workers -> {"poll", "handle", "commit", "skip", "down"}]
    /\ DOMAIN record = Workers
    /\ \A p \in Partitions : done[p] \subseteq 1..Len(log[p])
    /\ \A w \in Workers : workerPc[w] \in {"handle", "commit", "skip"} =>
         /\ record[w][1] \in Partitions
         /\ record[w][2] \in 1..Len(log[record[w][1]])

PathInv == IInv /\ RoomLeft /\ SentByWinner /\ HandledInLog

LEMMA HandledInit == Group!Init => HandledInLog
  BY DEF Group!Init, HandledInLog

\* A longer log keeps every record where it was.
LEMMA HandledWhilePosting ==
  ASSUME IInv, RoomLeft, HandledInLog, [Next]_vars, UNCHANGED workerVars
  PROVE  HandledInLog'
<1>1. \A p \in Partitions : Len(log[p]) \in Nat
  BY DEF IInv, TypeOK
<1>2. \A p \in Partitions : 1..Len(log[p]) \subseteq 1..Len(log'[p])
  <2>1. CASE log' = log
    BY <2>1
  <2>2. CASE log' # log
    <3>1. PICK q \in Partitions, e \in Events : log' = Appended(q, e)
      BY <2>2, RequestAppends
    <3>2. \A p \in Partitions : log[p] \in Seq(Events)
                                /\ log'[p] = IF p = q THEN Append(log[p], e) ELSE log[p]
      BY <3>1 DEF Appended, IInv, TypeOK
    <3>3. \A p \in Partitions : Len(log'[p]) \in {Len(log[p]), Len(log[p]) + 1}
      <4>1. \A l \in Seq(Events) : Len(Append(l, e)) = Len(l) + 1
        OBVIOUS
      <4> QED BY <3>2, <4>1
    <3> QED BY <1>1, <3>3
  <2> QED BY <2>1, <2>2
<1>3. UNCHANGED <<committed, position, done, workerPc, record>>
  BY DEF workerVars
<1> QED BY <1>2, <1>3 DEF HandledInLog

LEMMA HandledWhileWorking ==
  ASSUME IInv, HandledInLog, Work
  PROVE  HandledInLog' /\ log' = log
<1> DEFINE Busy(w) == workerPc[w] \in {"handle", "commit", "skip"}
<1>0. \A p \in Partitions : Len(log[p]) \in Nat
  BY DEF IInv, TypeOK
<1>1. ASSUME NEW p \in Partitions, NEW w \in Workers, Group!GiveTo(p, w)
      PROVE  HandledInLog' /\ log' = log
  BY <1>1 DEF Group!GiveTo, Group!loop, Group!ghosts, HandledInLog
<1>2. ASSUME NEW w \in Workers, NEW p \in Partitions, Group!Poll(w, p)
      PROVE  HandledInLog' /\ log' = log
  <2>1. position[p] + 1 \in 1..Len(log[p]) /\ position[p] + 1 \in Nat
    BY <1>0, <1>2 DEF Group!Poll, HandledInLog
  <2>2. UNCHANGED <<log, committed, done>>
    BY <1>2 DEF Group!Poll
  <2>3. position' \in [Partitions -> Nat]
    BY <1>2, <2>1 DEF Group!Poll, HandledInLog
  <2>4. /\ workerPc' \in [Workers -> {"poll", "handle", "commit", "skip", "down"}]
        /\ DOMAIN record' = Workers
        /\ record'[w] = <<p, position[p] + 1>>
        /\ \A v \in Workers \ {w} : workerPc'[v] = workerPc[v] /\ record'[v] = record[v]
    BY <1>2 DEF Group!Poll, HandledInLog
  <2>5. \A q \in Partitions : done'[q] \subseteq 1..Len(log'[q])
    BY <2>2 DEF HandledInLog
  <2>6. ASSUME NEW v \in Workers, workerPc'[v] \in {"handle", "commit", "skip"}
        PROVE  record'[v][1] \in Partitions /\ record'[v][2] \in 1..Len(log'[record'[v][1]])
    <3>1. CASE v = w
      BY <2>1, <2>2, <2>4, <3>1
    <3>2. CASE v # w
      BY <2>2, <2>4, <2>6, <3>2 DEF HandledInLog
    <3> QED BY <3>1, <3>2
  <2>7. /\ committed' \in [Partitions -> Nat]
        /\ done' \in [Partitions -> SUBSET Nat]
    BY <2>2 DEF HandledInLog
  <2> QED BY <2>2, <2>3, <2>4, <2>5, <2>6, <2>7 DEF HandledInLog
<1>3. ASSUME NEW w \in Workers, Group!HandlerReturns(w)
      PROVE  HandledInLog' /\ log' = log
  <2>1. UNCHANGED <<log, committed, position, record>> /\ Busy(w)
        /\ workerPc' = [workerPc EXCEPT ![w] = "commit"]
    BY <1>3 DEF Group!HandlerReturns, Group!broker
  <2>2. PICK p \in Partitions : record[w][1] = p /\ record[w][2] \in 1..Len(log[p])
    BY <2>1 DEF HandledInLog
  <2> DEFINE o == record[w][2]
  <2>3. done' = [done EXCEPT ![p] = @ \cup {o}]
    BY <1>3, <2>2 DEF Group!HandlerReturns, Group!AddOffset
  <2>4. done' \in [Partitions -> SUBSET Nat] /\ \A q \in Partitions : done'[q] \subseteq 1..Len(log[q])
    BY <1>0, <2>2, <2>3 DEF HandledInLog
  <2> QED BY <2>1, <2>4 DEF HandledInLog
<1>4. ASSUME NEW w \in Workers, Group!HandlerRetries(w) \/ Group!HandlerGivesUp(w)
      PROVE  HandledInLog' /\ log' = log
  <2>1. Group!HandlerRaises(w) /\ UNCHANGED <<log, committed, position, record, done>>
        /\ workerPc' \in {workerPc, [workerPc EXCEPT ![w] = "skip"]}
    BY <1>4 DEF Group!HandlerRetries, Group!HandlerGivesUp, Group!broker, Group!ghosts
  <2>2. Busy(w)
    BY <2>1 DEF Group!HandlerRaises
  <2> QED BY <2>1, <2>2 DEF HandledInLog
<1>5. ASSUME NEW w \in Workers, Group!Commit(w) \/ Group!CommitFails(w) \/ Group!Crash(w)
      PROVE  HandledInLog' /\ log' = log
  <2>1. /\ UNCHANGED <<log, position, done>>
        /\ workerPc' \in {[workerPc EXCEPT ![w] = "poll"], [workerPc EXCEPT ![w] = "down"]}
        /\ record' = [record EXCEPT ![w] = Group!NoRecord]
        /\ Group!CommitOwned(w) \/ UNCHANGED committed
    BY <1>5 DEF Group!Commit, Group!CommitFails, Group!Crash, Group!GoDown, Group!ghosts
  <2>2. committed' \in [Partitions -> Nat]
    BY <2>1 DEF Group!CommitOwned, HandledInLog
  <2>3. /\ workerPc' \in [Workers -> {"poll", "handle", "commit", "skip", "down"}]
        /\ workerPc'[w] \in {"poll", "down"}
        /\ DOMAIN record' = Workers
        /\ \A v \in Workers \ {w} : workerPc'[v] = workerPc[v] /\ record'[v] = record[v]
    BY <2>1 DEF HandledInLog
  <2> QED BY <2>1, <2>2, <2>3 DEF HandledInLog
<1>6. ASSUME NEW w \in Workers, Group!Restart(w)
      PROVE  HandledInLog' /\ log' = log
  BY <1>6 DEF Group!Restart, Group!broker, Group!ghosts, HandledInLog
<1> QED BY <1>1, <1>2, <1>3, <1>4, <1>5, <1>6
        DEF Work, Group!Coordinate, Group!Assign, Group!Rebalance, Group!Consume

LEMMA PathInvInit == PathInit => PathInv
  BY JourneyInit, RoomInit, SentInit, HandledInit DEF PathInit, PathInv

LEMMA PathInvStep == PathInv /\ [PathNext]_pathVars => PathInv'
<1> SUFFICES ASSUME PathInv, [PathNext]_pathVars PROVE PathInv'
  OBVIOUS
<1>1. CASE [Next]_vars /\ UNCHANGED workerVars
  BY <1>1, JourneyStep, RoomStep, SentStep, HandledWhilePosting DEF PathInv
<1>2. CASE Work
  <2>1. HandledInLog' /\ UNCHANGED vars
    BY <1>2, HandledWhileWorking DEF PathInv, Work, requestVars, vars
  <2> QED BY <2>1, JourneyStep, RoomStep, SentStep DEF PathInv
<1> QED BY <1>1, <1>2 DEF PathNext, Post, pathVars, requestVars, vars

\* Requests and workers together keep what each keeps alone; the partitions have room
\* for every attempt, and the workers handle records that a winner has sent.
THEOREM PathInvariant == PathSpec => []PathInv
  BY PathInvInit, PathInvStep, PTL DEF PathSpec

\* A record that the workers have processed without an audit row was reported: its
\* sender has been answered with an error, or is still at work.
THEOREM UnauditedReported == PathSpec => []UnauditedWasReported
<1>1. PathInv => UnauditedWasReported
  <2> SUFFICES ASSUME PathInv, NEW p \in Partitions, NEW o \in done[p],
                      RowsOf(log[p][o]) = {}
               PROVE  \E r \in won : Event[r] = log[p][o] /\ pc[r] # "accepted"
    BY DEF UnauditedWasReported
  <2>1. o \in 1..Len(log[p])
    BY DEF PathInv, HandledInLog
  <2>2. PICK r \in won : Event[r] = log[p][o]
    BY <2>1 DEF PathInv, SentByWinner
  <2>3. r \in Requests /\ r \notin rows
    BY <2>2 DEF PathInv, IInv, TypeOK, RowsOf
  <2>4. pc[r] # "accepted"
    BY <2>3 DEF PathInv, IInv, Journey
  <2> QED BY <2>2, <2>4
<1> QED BY <1>1, PathInvariant, PTL

\* However many sends are retried and copies made, no append of a request meets the bound of
\* a partition: in the whole path the workers are the consumer group of ConsumerGroup.
THEOREM PathKeepsGroup == PathSpec => Group!GroupSpec
<1>1. PathInit => Group!Init
  BY DEF PathInit
<1>2. PathInv /\ [PathNext]_pathVars => [Group!GroupNext]_(Group!groupVars)
  <2> SUFFICES ASSUME PathInv, [PathNext]_pathVars
               PROVE  Group!GroupNext \/ UNCHANGED Group!groupVars
    OBVIOUS
  <2>1. CASE Work
    BY <2>1 DEF Work, Group!GroupNext
  <2>2. ASSUME [Next]_vars, UNCHANGED workerVars
        PROVE  Group!GroupNext \/ UNCHANGED Group!groupVars
    <3>1. /\ UNCHANGED <<committed, owner, position, faults>>
          /\ UNCHANGED <<workerPc, record, workerAttempt>>
          /\ UNCHANGED <<started, done, abandoned>>
      BY <2>2 DEF workerVars
    <3>2. CASE log' = log
      BY <3>1, <3>2 DEF Group!groupVars, Group!broker, Group!loop, Group!ghosts
    <3>3. CASE log' # log
      <4>1. PICK p \in Partitions, e \in Events :
               Len(log[p]) < MaxLog /\ log' = Appended(p, e)
        BY <2>2, <3>3, RequestAppends DEF PathInv
      <4>2. Group!Publish(p, e)
        BY <3>1, <4>1 DEF Group!Publish, Appended, Group!loop, Group!ghosts
      <4> QED BY <4>2 DEF Group!GroupNext
    <3> QED BY <3>2, <3>3
  <2> QED BY <2>1, <2>2 DEF PathNext, Post, pathVars, requestVars, vars
<1> QED BY <1>1, <1>2, PathInvariant, PTL DEF PathSpec, Group!GroupSpec
====

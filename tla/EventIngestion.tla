---- MODULE EventIngestion ----
(***************************************************************************)
(* POST /events (nexusfeed/api/routers/events.py) and the three classes it *)
(* drives: EventValidator (Redis dedupe marker), EventRouter over          *)
(* KafkaEventProducer (two sends, each with its retry loop) and            *)
(* InteractionRepository (the audit row in Postgres).                      *)
(*                                                                         *)
(* A request is one HTTP call; a client that retries an event, or sends it *)
(* twice at once, is two requests with the same event id.  Requests of     *)
(* several pods interleave at every await.  Redis, Kafka and Postgres may  *)
(* fail at each call, before or after the call took effect, and a pod may  *)
(* die with its requests in flight.                                        *)
(*                                                                         *)
(*   pc       where the handler of each request stands; the last four      *)
(*            values are the answers: "accepted" (200), "duplicate" (200   *)
(*            duplicate_ignored), "error" (an exception, so a 5xx) and     *)
(*            "dropped" (the pod died, the client saw its connection end)  *)
(*   attempt  the local `attempt` of the send() in progress                *)
(*   marked   the events that have a dedupe:event:{id} key in Redis        *)
(*   log      the Kafka partitions of both topics, oldest record first     *)
(*   rows     the requests whose interactions row is committed             *)
(*   won      ghost: the requests whose SET NX created the marker          *)
(*   expiries ghost: how often the marker of each event was lost           *)
(***************************************************************************)
EXTENDS Naturals, Sequences, FiniteSets

CONSTANTS
    Requests,       \* the HTTP calls
    Events,         \* event ids
    Event,          \* the event each request carries
    Partitions,     \* the partitions of user-events and of item-events
    UserPartition,  \* the user-events partition of each event (key user_id)
    ItemPartition,  \* the item-events partition of each event (key item_id)
    Known,          \* the events whose user and item rows exist (foreign keys)
    MaxRetries      \* max_retries of KafkaEventProducer.send

ASSUME RequestsAssumption == IsFiniteSet(Requests) /\ Event \in [Requests -> Events]

ASSUME PartitionAssumption ==
    /\ UserPartition \in [Events -> Partitions]
    /\ ItemPartition \in [Events -> Partitions]
    /\ \A e, f \in Events : UserPartition[e] # ItemPartition[f]

ASSUME IngestionAssumption == Known \subseteq Events /\ MaxRetries \in Nat

VARIABLES pc, attempt, marked, log, rows, won, expiries

vars == <<pc, attempt, marked, log, rows, won, expiries>>

Sending  == {"user", "item"}
InFlight == {"validate"} \cup Sending \cup {"record", "commit"}
Answers  == {"accepted", "duplicate", "error", "dropped"}

TypeOK ==
    /\ pc \in [Requests -> {"new"} \cup InFlight \cup Answers]
    /\ attempt \in [Requests -> 0..MaxRetries]
    /\ marked \subseteq Events
    /\ log \in [Partitions -> Seq(Events)]
    /\ rows \subseteq Requests
    /\ won \subseteq Requests
    /\ expiries \in [Events -> Nat]

Init ==
    /\ pc = [r \in Requests |-> "new"]
    /\ attempt = [r \in Requests |-> 0]
    /\ marked = {}
    /\ log = [p \in Partitions |-> <<>>]
    /\ rows = {}
    /\ won = {}
    /\ expiries = [e \in Events |-> 0]

Step(r, from, to) == pc[r] = from /\ pc' = [pc EXCEPT ![r] = to]

-----------------------------------------------------------------------------
(* EventValidator *)

\* The request arrives; the timestamp check passes.
Receive(r) ==
    /\ Step(r, "new", "validate")
    /\ UNCHANGED <<attempt, marked, log, rows, won, expiries>>

\* The timestamp is too far in the future or older than the retention window:
\* EventValidationError leaves the handler before Redis is touched.
RejectTimestamp(r) ==
    /\ Step(r, "new", "error")
    /\ UNCHANGED <<attempt, marked, log, rows, won, expiries>>

\* Mutant: an existence check followed by a plain SET, without NX.
MutMarkWithoutNX(r) ==
    /\ Step(r, "validate", "user")
    /\ marked' = marked \cup {Event[r]}
    /\ won' = won \cup {r}
    /\ UNCHANGED <<attempt, log, rows, expiries>>

\* SET key NX EX created the key: this request goes on to publish.
MarkNew(r) ==
    /\ Event[r] \notin marked
    /\ Step(r, "validate", "user")
    /\ marked' = marked \cup {Event[r]}
    /\ won' = won \cup {r}
    /\ UNCHANGED <<attempt, log, rows, expiries>>

\* The key was there: DuplicateEventError, answered 200 duplicate_ignored.
FindDuplicate(r) ==
    /\ Event[r] \in marked
    /\ Step(r, "validate", "duplicate")
    /\ UNCHANGED <<attempt, marked, log, rows, won, expiries>>

\* The Redis call raises.  If the connection broke after the server ran the
\* command, the marker is set although the request ends in an error.
MarkFails(r) ==
    /\ Step(r, "validate", "error")
    /\ \/ UNCHANGED <<marked, won>>
       \/ /\ Event[r] \notin marked
          /\ marked' = marked \cup {Event[r]}
          /\ won' = won \cup {r}
    /\ UNCHANGED <<attempt, log, rows, expiries>>

\* Redis drops the marker: its TTL of DEDUPE_KEY_TTL_SECONDS ran out (or the
\* key was evicted).
MarkerExpires(e) ==
    /\ e \in marked
    /\ marked' = marked \ {e}
    /\ expiries' = [expiries EXCEPT ![e] = @ + 1]
    /\ UNCHANGED <<pc, attempt, log, rows, won>>

-----------------------------------------------------------------------------
(* EventRouter.route: send to user-events, then to item-events *)

\* Mutant: route() sends to item-events first.
MutTargetSwapped(r) ==
    IF pc[r] = "item" THEN UserPartition[Event[r]] ELSE ItemPartition[Event[r]]

Target(r) == IF pc[r] = "user" THEN UserPartition[Event[r]] ELSE ItemPartition[Event[r]]

AfterSend(r) == IF pc[r] = "user" THEN "item" ELSE "record"

Appended(p, e) == [log EXCEPT ![p] = Append(@, e)]

\* send_and_wait returned: all in-sync replicas have the record, send() returns
\* and the next call of the handler starts (a new send() has attempt = 0).
SendSucceeds(r) ==
    /\ pc[r] \in Sending
    /\ log' = Appended(Target(r), Event[r])
    /\ pc' = [pc EXCEPT ![r] = AfterSend(r)]
    /\ attempt' = [attempt EXCEPT ![r] = 0]
    /\ UNCHANGED <<marked, rows, won, expiries>>

\* send_and_wait raised a KafkaError.  A timeout says nothing about the broker,
\* which may have appended the record.
SendErrs(r) ==
    /\ pc[r] \in Sending
    /\ \/ UNCHANGED log
       \/ log' = Appended(Target(r), Event[r])
    /\ UNCHANGED <<marked, rows, won, expiries>>

\* Mutant: the except branch counts a retry only when it logs, every second time.
MutRetryUncounted(r) ==
    /\ SendErrs(r)
    /\ attempt' \in {attempt, [attempt EXCEPT ![r] = IF @ < MaxRetries THEN @ + 1 ELSE @]}
    /\ UNCHANGED pc

\* Mutant: attempt is set back to 0 inside the loop.
MutRetryForever(r) ==
    /\ pc[r] \in Sending
    /\ attempt' = [attempt EXCEPT ![r] = IF @ < MaxRetries THEN @ + 1 ELSE 0]
    /\ UNCHANGED <<pc, marked, log, rows, won, expiries>>

\* attempt <= max_retries: back off and try again.
SendRetries(r) ==
    /\ SendErrs(r)
    /\ attempt[r] < MaxRetries
    /\ attempt' = [attempt EXCEPT ![r] = @ + 1]
    /\ UNCHANGED pc

\* Mutant: send() logs the last error and returns instead of raising.
MutGiveUpSilently(r) ==
    /\ SendErrs(r)
    /\ attempt[r] = MaxRetries
    /\ pc' = [pc EXCEPT ![r] = AfterSend(r)]
    /\ attempt' = [attempt EXCEPT ![r] = 0]

\* attempt > max_retries: the KafkaError leaves route() and the handler.
SendGivesUp(r) ==
    /\ SendErrs(r)
    /\ attempt[r] = MaxRetries
    /\ pc' = [pc EXCEPT ![r] = "error"]
    /\ UNCHANGED attempt

-----------------------------------------------------------------------------
(* InteractionRepository.record and db.commit() *)

\* The flush sends the INSERT; the foreign keys hold.
Record(r) ==
    /\ Event[r] \in Known
    /\ Step(r, "record", "commit")
    /\ UNCHANGED <<attempt, marked, log, rows, won, expiries>>

\* Mutant: the audit write is wrapped in try/except and the request accepted.
MutAuditSwallowed(r) ==
    /\ Step(r, "record", "accepted")
    /\ UNCHANGED <<attempt, marked, log, rows, won, expiries>>

\* The INSERT violates a foreign key, or Postgres is unreachable: the session
\* closes without a commit and the request ends in an error.
RecordFails(r) ==
    /\ Step(r, "record", "error")
    /\ UNCHANGED <<attempt, marked, log, rows, won, expiries>>

CommitRow(r) ==
    /\ Step(r, "commit", "accepted")
    /\ rows' = rows \cup {r}
    /\ UNCHANGED <<attempt, marked, log, won, expiries>>

\* commit() raised; a connection lost after COMMIT was sent leaves the row.
CommitFails(r) ==
    /\ Step(r, "commit", "error")
    /\ rows' \in {rows, rows \cup {r}}
    /\ UNCHANGED <<attempt, marked, log, won, expiries>>

\* The pod that serves the request dies.
PodDies(r) ==
    /\ pc[r] \in InFlight
    /\ pc' = [pc EXCEPT ![r] = "dropped"]
    /\ UNCHANGED <<attempt, marked, log, rows, won, expiries>>

-----------------------------------------------------------------------------
Handle(r) ==
    \/ MarkNew(r) \/ FindDuplicate(r) \/ MarkFails(r)
    \/ SendSucceeds(r) \/ SendRetries(r) \/ SendGivesUp(r)
    \/ Record(r) \/ RecordFails(r) \/ CommitRow(r) \/ CommitFails(r)

Next ==
    \/ \E r \in Requests : Receive(r) \/ RejectTimestamp(r) \/ Handle(r) \/ PodDies(r)
    \/ \E e \in Events : MarkerExpires(e)

Spec == Init /\ [][Next]_vars

\* The event loop of a live pod runs every handler it has started, and every
\* call a handler waits for returns or raises.
FairSpec == Spec /\ \A r \in Requests : WF_vars(Handle(r))

-----------------------------------------------------------------------------
(* Properties *)

Published(e, p) == \E i \in 1..Len(log[p]) : log[p][i] = e
InUserTopic(e) == Published(e, UserPartition[e])
InItemTopic(e) == Published(e, ItemPartition[e])

\* A 200 "accepted" means the event is in both topics and its audit row is
\* committed, whatever failed on the way to any other request.
AcceptedIsDurable ==
    \A r \in Requests : pc[r] = "accepted" =>
        InUserTopic(Event[r]) /\ InItemTopic(Event[r]) /\ r \in rows

\* The stores are filled in one order: an event in item-events is in
\* user-events ("user-events topic gets everything"), and an audited event is
\* in both, so the audit table never names an event the stream lacks.
StreamBeforeAudit ==
    /\ \A e \in Events : InItemTopic(e) => InUserTopic(e)
    /\ \A r \in rows : InItemTopic(Event[r])

\* However many requests race with one event id, at most one of them per life
\* of the marker publishes the event, and at most one records it.
Winners(e) == {r \in won : Event[r] = e}
RowsOf(e) == {r \in rows : Event[r] = e}
OnePublisherPerMarker ==
    \A e \in Events :
        /\ Cardinality(Winners(e)) <= 1 + expiries[e]
        /\ RowsOf(e) \subseteq Winners(e)

\* Retries and lost acknowledgements duplicate a record no more than the retry
\* loop allows: max_retries + 1 copies per publisher and topic.
Copies(e, p) == Cardinality({i \in 1..Len(log[p]) : log[p][i] = e})
CopiesBounded ==
    \A e \in Events, p \in Partitions :
        Copies(e, p) <= (MaxRetries + 1) * (1 + expiries[e])

\* A marked event that nobody is handling any more and that never reached
\* user-events was reported lost to somebody: one of its senders got an error
\* or a broken connection, and no sender was told "accepted".
Unhandled(e) == \A r \in Requests : Event[r] = e => pc[r] \notin InFlight
LossIsReported ==
    \A e \in Events :
        (e \in marked /\ Unhandled(e) /\ ~InUserTopic(e)) =>
            /\ \E r \in Winners(e) : pc[r] \in {"error", "dropped"}
            /\ \A r \in Requests : Event[r] = e => pc[r] # "accepted"

\* Every request that enters the handler is answered: the retry loops end.
EveryRequestAnswered ==
    \A r \in Requests : (pc[r] \in InFlight) ~> (pc[r] \in Answers)
====

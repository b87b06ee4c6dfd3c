---- MODULE EventPipeline ----
(***************************************************************************)
(* The whole event path: POST /events (EventIngestion) appends to the      *)
(* Kafka partitions that the feature-pipeline workers (ConsumerGroup)      *)
(* consume.  The two share nothing but the log: a request is answered      *)
(* without knowing whether a worker will ever process its event, and the   *)
(* workers are the only readers of what a failed request left behind.      *)
(*                                                                         *)
(* The requests are those of EventIngestion under their own names; the     *)
(* variables of ConsumerGroup keep theirs except `pc` and `attempt`.       *)
(***************************************************************************)
EXTENDS EventIngestion

CONSTANTS
    Workers, NoWorker, Poison,
    ConsumerRetries,              \* max_retries of consume_forever
    MaxFaults, MaxLog

VARIABLES
    committed, owner, position, workerPc, record, workerAttempt,
    started, done, abandoned, faults

requestVars == <<pc, attempt, marked, rows, won, expiries>>
workerVars == <<committed, owner, position, workerPc, record, workerAttempt,
                started, done, abandoned, faults>>
pathVars == <<requestVars, log, workerVars>>

Group == INSTANCE ConsumerGroup WITH
    Records <- Events, MaxRetries <- ConsumerRetries,
    pc <- workerPc, attempt <- workerAttempt

\* The bound on a partition leaves room for every attempt of every request, so that no
\* append of a request is ruled out by it.
ASSUME RoomAssumption ==
    /\ MaxLog \in Nat
    /\ MaxLog >= (MaxRetries + 1) * Cardinality(Requests)

PathInit == Init /\ Group!Init

Post == Next /\ UNCHANGED workerVars

Work ==
    /\ Group!Coordinate \/ \E w \in Workers : Group!Consume(w) \/ Group!Crash(w) \/ Group!Restart(w)
    /\ UNCHANGED requestVars

PathNext == Post \/ Work

PathSpec == PathInit /\ [][PathNext]_pathVars

\* Handlers in flight run on and workers are kept alive, as in the components.
FairPathSpec ==
    /\ PathSpec
    /\ \A r \in Requests : WF_pathVars(Handle(r) /\ UNCHANGED workerVars)
    /\ \A w \in Workers :
         /\ WF_pathVars(Group!Consume(w) /\ UNCHANGED requestVars)
         /\ WF_pathVars(Group!Restart(w) /\ UNCHANGED requestVars)
    /\ \A p \in Partitions :
         WF_pathVars((\E w \in Workers : Group!Assign(p, w)) /\ UNCHANGED requestVars)

-----------------------------------------------------------------------------
(* Properties *)

SettledIn(e, p) ==
    \E o \in 1..committed[p] : log[p][o] = e /\ o \in done[p] \cup abandoned[p]

\* An event that a client was told is accepted is some day processed from both
\* topics, or given up by the workers: no failure between the two ends loses it
\* silently.
AcceptedIsProcessed ==
    \A r \in Requests :
        (pc[r] = "accepted") ~>
            /\ SettledIn(Event[r], UserPartition[Event[r]])
            /\ SettledIn(Event[r], ItemPartition[Event[r]])

\* An event the audit table does not have may be processed all the same, but
\* then its publisher has been answered with an error, or is still at work.
UnauditedWasReported ==
    \A p \in Partitions : \A o \in done[p] :
        RowsOf(log[p][o]) = {} =>
            \E r \in won : Event[r] = log[p][o] /\ pc[r] # "accepted"
====

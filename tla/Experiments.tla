---- MODULE Experiments ----
(***************************************************************************)
(* Experiment assignment: ExperimentManager (experiments/                  *)
(* experiment_manager.py) over ExperimentRepository, bucketing.py and the  *)
(* routes of api/routers/experiments.py.  One experiment name, the         *)
(* default one that feed.py and GET /experiments/{user_id} ask about;      *)
(* creators, stoppers, readers and recorders interleave at every await.    *)
(* A recorder is one call of MetricsTracker in a session of its own, which *)
(* its caller commits; one counter of one variant stands for them all.     *)
(*                                                                         *)
(*   row, status   the committed row of the experiment, or NoRow           *)
(*   writer        the creator whose uncommitted INSERT holds the name     *)
(*   cache         experiment:{name}:user:{user} in Redis, or NoAnswer     *)
(*   pc            what each call does next                                *)
(*   seen          the row that each reader got from get_by_name           *)
(*   told          every answer each user was ever given, an answer being  *)
(*                 <<variant, bucket>>                                     *)
(*   count         the committed counter of an ExperimentResult row        *)
(*   holder        the recorder whose uncommitted UPDATE locks that row    *)
(*   carried       the counter as each recorder read it                    *)
(*   bumped        what the committed recorders added, all told            *)
(*   overlapped    a recorder committed while another one carried a value  *)
(***************************************************************************)
EXTENDS Integers, FiniteSets

CONSTANTS
    Users,
    Holdback,                    \* the users is_in_holdback picks
    NumBuckets,
    Bucket,                      \* bucket_for: the hash of name and user
    Readers, Reader,             \* calls of get_assignment and their users
    Creators, Ranges,            \* POST /experiments and their bodies
    Stoppers,                    \* POST /experiments/{name}/stop
    Recorders, Delta,            \* calls of MetricsTracker and what they add
    NoRow, NoAnswer, NoBucket, NoCreator, NoRecorder

BucketRange == [low : 0..NumBuckets, high : 0..NumBuckets]
Rows == [control : BucketRange, treatment : BucketRange]

ASSUME ExperimentsAssumption ==
    /\ NumBuckets \in Nat \ {0}
    /\ Holdback \subseteq Users
    /\ Bucket \in [Users -> 0..(NumBuckets - 1)]
    /\ Reader \in [Readers -> Users]
    /\ Ranges \in [Creators -> Rows]
    /\ NoRow \notin Rows /\ NoCreator \notin Creators
    /\ NoBucket \notin Int
    /\ NoAnswer \notin {"control", "treatment", "unassigned"} \X (0..(NumBuckets - 1))
    /\ Readers \cap Creators = {} /\ Readers \cap Stoppers = {} /\ Creators \cap Stoppers = {}
    /\ Recorders \cap (Readers \cup Creators \cup Stoppers) = {}
    /\ Delta \in [Recorders -> Nat] /\ NoRecorder \notin Recorders

VARIABLES row, status, writer, cache, pc, seen, told,
          count, holder, carried, bumped, overlapped

database == <<row, status, writer>>
reading == <<seen, told>>
results == <<count, holder, carried, bumped, overlapped>>
vars == <<database, cache, pc, reading, results>>

Requests == Readers \cup Creators \cup Stoppers \cup Recorders
Variants == {"control", "treatment", "unassigned"}
Assignments == Variants \X (0..(NumBuckets - 1))

\* The answers that are no assignment: is_in_holdback comes first, with bucket -1; and the
\* route GET /experiments calls a failed assignment "control", with bucket None.
InHoldback == <<"holdback", -1>>
NoActiveExperiment == <<"control", NoBucket>>
Answers == Assignments \cup {InHoldback, NoActiveExperiment}

Within(b, range) == range.low <= b /\ b < range.high

\* assign_variant: overlapping ranges are control.
AssignVariant(b, r) ==
    IF Within(b, r.control) THEN "control"
    ELSE IF Within(b, r.treatment) THEN "treatment"
    ELSE "unassigned"

AssignmentTypes ==
    /\ row \in Rows \cup {NoRow}
    /\ status \in {"active", "stopped"}
    /\ writer \in Creators \cup {NoCreator}
    /\ cache \in [Users -> Assignments \cup {NoAnswer}]
    /\ pc \in [Requests -> {"idle", "redis", "postgres", "store", "flush", "commit", "done"}]
    /\ seen \in [Readers -> Rows \cup {NoRow}]
    /\ told \in [Users -> SUBSET Answers]
    /\ row # NoRow => writer = NoCreator

ResultTypes ==
    /\ count \in Nat /\ bumped \in Nat
    /\ holder \in Recorders \cup {NoRecorder}
    /\ carried \in [Recorders -> Nat]
    /\ overlapped \in BOOLEAN

\* Types, and the name is held by an uncommitted INSERT only while no row has it.
TypeOK == AssignmentTypes /\ ResultTypes

Init ==
    /\ row = NoRow /\ status = "active" /\ writer = NoCreator
    /\ cache = [u \in Users |-> NoAnswer]
    /\ pc = [r \in Requests |-> "idle"]
    /\ seen = [r \in Readers |-> NoRow]
    /\ told = [u \in Users |-> {}]
    /\ count = 0 /\ bumped = 0
    /\ holder = NoRecorder
    /\ carried = [k \in Recorders |-> 0]
    /\ overlapped = FALSE

Step(r, from, to) == pc[r] = from /\ pc' = [pc EXCEPT ![r] = to]

-----------------------------------------------------------------------------
(* get_assignment, and the answer the routes make of it *)

Answer(r, answer) == told' = [told EXCEPT ![Reader[r]] = @ \cup {answer}]

Ask(r) ==
    /\ IF Reader[r] \in Holdback
       THEN Step(r, "idle", "idle") /\ Answer(r, InHoldback)
       ELSE Step(r, "idle", "redis") /\ UNCHANGED told
    /\ UNCHANGED <<database, cache, seen, results>>

CacheHit(r) ==
    /\ cache[Reader[r]] # NoAnswer
    /\ Step(r, "redis", "idle")
    /\ Answer(r, cache[Reader[r]])
    /\ UNCHANGED <<database, cache, seen, results>>

CacheMiss(r) ==
    /\ cache[Reader[r]] = NoAnswer
    /\ Step(r, "redis", "postgres")
    /\ UNCHANGED <<database, cache, reading, results>>

\* get_by_name does not look at the status of the experiment.
GetByName(r) ==
    /\ row # NoRow
    /\ Step(r, "postgres", "store")
    /\ seen' = [seen EXCEPT ![r] = row]
    /\ UNCHANGED <<database, cache, told, results>>

Chosen(r) == <<AssignVariant(Bucket[Reader[r]], seen[r]), Bucket[Reader[r]]>>
Store(r) == cache' = [cache EXCEPT ![Reader[r]] = Chosen(r)]

StoreAndAnswer(r) ==
    /\ Step(r, "store", "idle")
    /\ Store(r)
    /\ Answer(r, Chosen(r))
    /\ UNCHANGED <<database, seen, results>>

\* Mutant: the fallback of the route moved into get_assignment, where it gets the user's
\* bucket and is cached like an assignment.
MutFalls(r) ==
    /\ pc[r] \in {"redis", "postgres", "store"}
    /\ pc' = [pc EXCEPT ![r] = "idle"]
    /\ Answer(r, <<"control", Bucket[Reader[r]]>>)
    /\ cache' = [cache EXCEPT ![Reader[r]] = <<"control", Bucket[Reader[r]]>>]
    /\ UNCHANGED <<database, seen, results>>

\* ExperimentNotFoundError, and Redis or PostgreSQL failing at any await: both routes catch
\* everything.  GET /experiments answers all the same; GET /feed names no experiment.  Redis
\* may have stored the assignment.
Falls(r) ==
    /\ pc[r] \in {"redis", "postgres", "store"}
    /\ pc' = [pc EXCEPT ![r] = "idle"]
    /\ Answer(r, NoActiveExperiment) \/ UNCHANGED told
    /\ \/ UNCHANGED cache
       \/ pc[r] = "store" /\ Store(r)
    /\ UNCHANGED <<database, seen, results>>

\* The key of a user expires a week after it was set.
CacheExpires(u) ==
    /\ cache[u] # NoAnswer
    /\ cache' = [cache EXCEPT ![u] = NoAnswer]
    /\ UNCHANGED <<database, pc, reading, results>>

-----------------------------------------------------------------------------
(* create_experiment and stop_experiment, each followed by the commit of its route *)

\* The INSERT waits for another one of the same name that is not committed yet.
Create(c) ==
    /\ writer = NoCreator /\ row = NoRow
    /\ Step(c, "idle", "commit")
    /\ writer' = c
    /\ UNCHANGED <<row, status, cache, reading, results>>

\* Mutant: POST /experiments of a name that is taken changes the ranges of its row.
MutCreateRefused(c) ==
    /\ row # NoRow
    /\ Step(c, "idle", "done")
    /\ row' = Ranges[c]
    /\ UNCHANGED <<status, writer, cache, reading, results>>

\* The name is unique.
CreateRefused(c) ==
    /\ row # NoRow
    /\ Step(c, "idle", "done")
    /\ UNCHANGED <<database, cache, reading, results>>

CommitCreate(c) ==
    /\ Step(c, "commit", "done")
    /\ row' = Ranges[c] /\ status' = "active" /\ writer' = NoCreator
    /\ UNCHANGED <<cache, reading, results>>

\* The commit fails or the pod dies: the INSERT is rolled back.
CreateFails(c) ==
    /\ Step(c, "commit", "done")
    /\ writer' = NoCreator
    /\ UNCHANGED <<row, status, cache, reading, results>>

Stop(s) ==
    /\ row # NoRow
    /\ Step(s, "idle", "commit")
    /\ UNCHANGED <<database, cache, reading, results>>

\* ExperimentNotFoundError; or the flush or the commit fails.
StopFails(s) ==
    /\ \/ row = NoRow /\ Step(s, "idle", "done")
       \/ Step(s, "commit", "done")
    /\ UNCHANGED <<database, cache, reading, results>>

CommitStop(s) ==
    /\ Step(s, "commit", "done")
    /\ status' = "stopped"
    /\ UNCHANGED <<row, writer, cache, reading, results>>

-----------------------------------------------------------------------------
(* _bump, called by MetricsTracker *)

elsewhere == <<database, cache, reading>>

\* Without a committed experiment there is no ExperimentResult row: _bump returns.
\* DWELL without a duration, and the event types nobody counts, end here too.
RecordNothing(k) ==
    /\ Step(k, "idle", "done")
    /\ row = NoRow \/ Delta[k] = 0
    /\ UNCHANGED <<elsewhere, results>>

\* Mutant: the session reads what the other one has not committed yet.
MutReadResult(k) ==
    /\ row # NoRow /\ Delta[k] > 0
    /\ Step(k, "idle", "flush")
    /\ carried' = [carried EXCEPT ![k] =
         IF holder = NoRecorder THEN count ELSE carried[holder] + Delta[holder]]
    /\ UNCHANGED <<elsewhere, count, holder, bumped, overlapped>>

ReadResult(k) ==
    /\ row # NoRow /\ Delta[k] > 0
    /\ Step(k, "idle", "flush")
    /\ carried' = [carried EXCEPT ![k] = count]
    /\ UNCHANGED <<elsewhere, count, holder, bumped, overlapped>>

\* The UPDATE sets the sum computed here, and waits for an uncommitted one of the row.
FlushResult(k) ==
    /\ holder = NoRecorder
    /\ Step(k, "flush", "commit")
    /\ holder' = k
    /\ UNCHANGED <<elsewhere, count, carried, bumped, overlapped>>

Carries(k) == pc[k] \in {"flush", "commit"}

CommitResult(k) ==
    /\ Step(k, "commit", "done")
    /\ count' = carried[k] + Delta[k]
    /\ bumped' = bumped + Delta[k]
    /\ holder' = NoRecorder
    /\ overlapped' = (overlapped \/ \E j \in Recorders \ {k} : Carries(j))
    /\ UNCHANGED <<elsewhere, carried>>

\* The flush or the commit fails, or the process dies: the UPDATE is rolled back.
RecordFails(k) ==
    /\ Carries(k)
    /\ pc' = [pc EXCEPT ![k] = "done"]
    /\ holder' = IF holder = k THEN NoRecorder ELSE holder
    /\ UNCHANGED <<elsewhere, count, carried, bumped, overlapped>>

-----------------------------------------------------------------------------

Assign(r) ==
    Ask(r) \/ CacheHit(r) \/ CacheMiss(r) \/ GetByName(r) \/ StoreAndAnswer(r) \/ Falls(r)

Manage ==
    \/ \E c \in Creators : Create(c) \/ CreateRefused(c) \/ CommitCreate(c) \/ CreateFails(c)
    \/ \E s \in Stoppers : Stop(s) \/ StopFails(s) \/ CommitStop(s)

Bump(k) ==
    RecordNothing(k) \/ ReadResult(k) \/ FlushResult(k) \/ CommitResult(k) \/ RecordFails(k)

Next ==
    \/ \E r \in Readers : Assign(r)
    \/ \E k \in Recorders : Bump(k)
    \/ \E u \in Users : CacheExpires(u)
    \/ Manage

Spec == Init /\ [][Next]_vars

-----------------------------------------------------------------------------
(* Properties *)

\* A user is never given two assignments (a variant with a bucket), whichever of the cache
\* and the database answered, however readers, creators of the same name, expiries and
\* failures interleave.  The "control" with bucket None that GET /experiments answers when
\* anything raises is not one of them: any user may be told that beside the assignment.
AssignmentStable == \A u \in Users : Cardinality(told[u] \ {NoActiveExperiment}) <= 1

\* Nobody is assigned, and nothing is cached, on the strength of an INSERT that may yet be
\* rolled back, or of a failure: an assignment that was answered or cached is what the
\* committed row says, and nobody is told anything else but "no active experiment".  A user
\* of the holdback is told so whatever fails.
AssignedByCommittedRow ==
    \A u \in Users :
        LET due == IF row = NoRow THEN {} ELSE {<<AssignVariant(Bucket[u], row), Bucket[u]>>} IN
        /\ told[u] \subseteq IF u \in Holdback THEN {InHoldback}
                             ELSE due \cup {NoActiveExperiment}
        /\ cache[u] # NoAnswer => cache[u] \in due

\* The counters never show more than was recorded, whatever is rolled back, and exactly what
\* was recorded as long as no two calls overlap: only a bump that read the counter before
\* another one committed can undo that other one (_bump reads, adds and writes back).
CountFollowsBumps ==
    /\ count <= bumped
    /\ ~overlapped => count = bumped

====

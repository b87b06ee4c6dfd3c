---- MODULE ExperimentsProofs ----
(***************************************************************************)
(* Proofs about Experiments, for any users, ranges, readers, creators and  *)
(* stoppers.  The inductive invariant adds to the checked properties what  *)
(* the awaits hide: an uncommitted creator still holds the name, so no row *)
(* is committed under it, and a reader on its way from the database to     *)
(* Redis carries the row that is still the committed one.  A recorder      *)
(* carries what some commit left, and the last commit's as long as none    *)
(* overlapped it.                                                          *)
(***************************************************************************)
EXTENDS Experiments, FiniteSetTheorems, TLAPS

\* The one assignment of a user that may have been answered or cached.
Due(u) == IF row = NoRow THEN {} ELSE {<<AssignVariant(Bucket[u], row), Bucket[u]>>}

ToldIsDue ==
    \A u \in Users :
        told[u] \subseteq IF u \in Holdback THEN {InHoldback} ELSE Due(u) \cup {NoActiveExperiment}

CacheIsDue ==
    \A u \in Users : cache[u] # NoAnswer => u \notin Holdback /\ cache[u] \in Due(u)

CarriesRow ==
    \A r \in Readers :
        /\ pc[r] \in {"redis", "postgres", "store"} => Reader[r] \notin Holdback
        /\ pc[r] = "store" => seen[r] = row /\ row # NoRow

CreatorHoldsName == \A c \in Creators : pc[c] = "commit" => writer = c /\ row = NoRow

CarriesCount ==
    \A k \in Recorders :
        /\ carried[k] <= bumped
        /\ Carries(k) /\ ~overlapped => carried[k] = count

Inv == AssignmentTypes /\ ToldIsDue /\ CacheIsDue /\ CarriesRow /\ CreatorHoldsName

ResultsInv == ResultTypes /\ CarriesCount /\ CountFollowsBumps

\* What a reader is about to store is an assignment, and what the committed row says.
LEMMA ChosenIsDue ==
    ASSUME NEW r \in Readers
    PROVE  /\ Chosen(r) \in Assignments
           /\ Inv /\ pc[r] = "store" => Due(Reader[r]) = {Chosen(r)}
<1>1. Bucket[Reader[r]] \in 0..(NumBuckets - 1)
  BY ExperimentsAssumption
<1>2. AssignVariant(Bucket[Reader[r]], seen[r]) \in Variants
  BY DEF AssignVariant, Variants
<1>3. Chosen(r) \in Assignments
  BY <1>1, <1>2 DEF Chosen, Assignments
<1>4. Inv /\ pc[r] = "store" => Due(Reader[r]) = {Chosen(r)}
  BY DEF Chosen, Inv, CarriesRow, Due
<1> QED BY <1>3, <1>4

LEMMA InitInv == Init => Inv /\ ResultsInv
<1> USE ExperimentsAssumption
<1>1. Init => Inv
  BY DEF Init, Inv, AssignmentTypes, ToldIsDue, CacheIsDue, CarriesRow, CreatorHoldsName,
         Requests
<1>2. Init => ResultsInv
  <2> SUFFICES ASSUME Init PROVE ResultsInv
    OBVIOUS
  <2>1. /\ count = 0 /\ bumped = 0 /\ holder = NoRecorder /\ overlapped = FALSE
        /\ carried = [k \in Recorders |-> 0]
    BY DEF Init
  <2>2. overlapped \in BOOLEAN
    BY <2>1, Zenon
  <2>3. ResultTypes
    BY <2>1, <2>2 DEF ResultTypes
  <2>4. CountFollowsBumps
    BY <2>1 DEF CountFollowsBumps
  <2>5. CarriesCount
    BY <2>1 DEF CarriesCount
  <2> QED BY <2>3, <2>4, <2>5 DEF ResultsInv
<1> QED BY <1>1, <1>2

LEMMA ReaderStep ==
    ASSUME Inv, NEW r \in Readers, Assign(r)
    PROVE  Inv'
<1> USE ExperimentsAssumption
<1>0. /\ r \in Requests /\ Reader[r] \in Users
      /\ \A c \in Creators : c # r /\ c \in Requests
      /\ \A q \in Readers : q \in Requests
  BY DEF Requests
<1>1. CASE Ask(r)
  BY <1>0, <1>1
  DEF Ask, Answer, Step, database, Inv, AssignmentTypes, ToldIsDue, Due, CacheIsDue, CarriesRow,
      CreatorHoldsName, Answers
<1>2. CASE CacheHit(r)
  <2> DEFINE a == cache[Reader[r]]
  <2>1. /\ a # NoAnswer /\ pc[r] = "redis" /\ pc' = [pc EXCEPT ![r] = "idle"]
        /\ told' = [told EXCEPT ![Reader[r]] = @ \cup {a}]
        /\ UNCHANGED <<row, status, writer, cache, seen>>
    BY <1>2 DEF CacheHit, Answer, Step, database
  <2>2. a \in Assignments /\ Reader[r] \notin Holdback /\ a \in Due(Reader[r])
    BY <1>0, <2>1 DEF Inv, AssignmentTypes, CacheIsDue
  <2> HIDE DEF a
  <2>3. AssignmentTypes'
    BY <1>0, <2>1, <2>2 DEF Inv, AssignmentTypes, Answers
  <2>4. ToldIsDue' /\ CacheIsDue'
    BY <1>0, <2>1, <2>2 DEF Inv, AssignmentTypes, ToldIsDue, Due, CacheIsDue
  <2>5. CarriesRow' /\ CreatorHoldsName'
    BY <1>0, <2>1 DEF Inv, AssignmentTypes, CarriesRow, CreatorHoldsName
  <2> QED BY <2>3, <2>4, <2>5 DEF Inv
<1>3. CASE CacheMiss(r)
  BY <1>0, <1>3
  DEF CacheMiss, Step, database, reading, Inv, AssignmentTypes, ToldIsDue, Due, CacheIsDue, CarriesRow,
      CreatorHoldsName
<1>4. CASE GetByName(r)
  BY <1>0, <1>4
  DEF GetByName, Step, database, Inv, AssignmentTypes, ToldIsDue, Due, CacheIsDue, CarriesRow,
      CreatorHoldsName
<1>5. CASE StoreAndAnswer(r)
  <2> DEFINE a == Chosen(r)
  <2>1. /\ pc[r] = "store" /\ pc' = [pc EXCEPT ![r] = "idle"]
        /\ cache' = [cache EXCEPT ![Reader[r]] = a]
        /\ told' = [told EXCEPT ![Reader[r]] = @ \cup {a}]
        /\ UNCHANGED <<row, status, writer, seen>>
    BY <1>5 DEF StoreAndAnswer, Store, Answer, Step, database
  <2>2. /\ a \in Assignments /\ Reader[r] \notin Holdback
        /\ Due(Reader[r]) = {a}
    BY <2>1, ChosenIsDue DEF Inv, CarriesRow
  <2> HIDE DEF a
  <2>3. AssignmentTypes'
    BY <1>0, <2>1, <2>2 DEF Inv, AssignmentTypes, Answers
  <2>4. ToldIsDue' /\ CacheIsDue'
    BY <1>0, <2>1, <2>2 DEF Inv, AssignmentTypes, ToldIsDue, Due, CacheIsDue
  <2>5. CarriesRow' /\ CreatorHoldsName'
    BY <1>0, <2>1 DEF Inv, AssignmentTypes, CarriesRow, CreatorHoldsName
  <2> QED BY <2>3, <2>4, <2>5 DEF Inv
<1>6. CASE Falls(r)
  <2> DEFINE a == Chosen(r)
  <2>1. /\ pc[r] \in {"redis", "postgres", "store"}
        /\ pc' = [pc EXCEPT ![r] = "idle"]
        /\ \/ told' = [told EXCEPT ![Reader[r]] = @ \cup {NoActiveExperiment}]
           \/ told' = told
        /\ \/ cache' = cache
           \/ pc[r] = "store" /\ cache' = [cache EXCEPT ![Reader[r]] = a]
        /\ UNCHANGED <<row, status, writer, seen>>
    BY <1>6 DEF Falls, Store, Answer, database
  <2>2. /\ a \in Assignments /\ Reader[r] \notin Holdback
        /\ pc[r] = "store" => Due(Reader[r]) = {a}
    BY <2>1, ChosenIsDue DEF Inv, CarriesRow
  <2> HIDE DEF a
  <2>3. AssignmentTypes'
    <3>1. told' \in [Users -> SUBSET Answers]
      BY <1>0, <2>1 DEF Inv, AssignmentTypes, Answers
    <3>2. cache' \in [Users -> Assignments \cup {NoAnswer}]
      BY <1>0, <2>1, <2>2 DEF Inv, AssignmentTypes
    <3> QED BY <1>0, <2>1, <3>1, <3>2 DEF Inv, AssignmentTypes
  <2>4. ToldIsDue'
    BY <1>0, <2>1, <2>2 DEF Inv, AssignmentTypes, ToldIsDue, Due
  <2>5. CacheIsDue'
    BY <1>0, <2>1, <2>2 DEF Inv, AssignmentTypes, Due, CacheIsDue
  <2>6. CarriesRow' /\ CreatorHoldsName'
    BY <1>0, <2>1 DEF Inv, AssignmentTypes, CarriesRow, CreatorHoldsName
  <2> QED BY <2>3, <2>4, <2>5, <2>6 DEF Inv
<1> QED BY <1>1, <1>2, <1>3, <1>4, <1>5, <1>6 DEF Assign

LEMMA ExpiryStep ==
    ASSUME Inv, NEW u \in Users, CacheExpires(u)
    PROVE  Inv'
  BY DEF CacheExpires, database, reading, Inv, AssignmentTypes, ToldIsDue, Due, CacheIsDue, CarriesRow,
         CreatorHoldsName

LEMMA CreatorStep ==
    ASSUME Inv, NEW c \in Creators,
           Create(c) \/ CreateRefused(c) \/ CommitCreate(c) \/ CreateFails(c)
    PROVE  Inv'
<1> USE ExperimentsAssumption
<1>0. /\ c \in Requests /\ c # NoCreator /\ Ranges[c] \in Rows
      /\ \A r \in Readers : r # c /\ r \in Requests
      /\ \A d \in Creators : d \in Requests
  BY DEF Requests
<1>1. CASE Create(c)
  BY <1>0, <1>1
  DEF Create, Step, reading, Inv, AssignmentTypes, ToldIsDue, Due, CacheIsDue, CarriesRow,
      CreatorHoldsName
<1>2. CASE CreateRefused(c)
  BY <1>0, <1>2
  DEF CreateRefused, Step, database, reading, Inv, AssignmentTypes, ToldIsDue, Due, CacheIsDue,
      CarriesRow, CreatorHoldsName
<1>3. CASE CommitCreate(c)
  <2>1. /\ row = NoRow /\ writer = c
        /\ pc[c] = "commit" /\ pc' = [pc EXCEPT ![c] = "done"]
        /\ row' = Ranges[c] /\ status' = "active" /\ writer' = NoCreator
        /\ UNCHANGED <<cache, seen, told>>
    BY <1>3 DEF CommitCreate, Step, reading, Inv, CreatorHoldsName
  <2>2. AssignmentTypes'
    BY <1>0, <2>1 DEF Inv, AssignmentTypes
  <2>3. ToldIsDue' /\ CacheIsDue'
    BY <2>1 DEF Inv, ToldIsDue, Due, CacheIsDue
  <2>4. CarriesRow' /\ CreatorHoldsName'
    BY <1>0, <2>1 DEF Inv, AssignmentTypes, CarriesRow, CreatorHoldsName
  <2> QED BY <2>2, <2>3, <2>4 DEF Inv
<1>4. CASE CreateFails(c)
  BY <1>0, <1>4
  DEF CreateFails, Step, reading, Inv, AssignmentTypes, ToldIsDue, Due, CacheIsDue, CarriesRow,
      CreatorHoldsName
<1> QED BY <1>1, <1>2, <1>3, <1>4

LEMMA StopperStep ==
    ASSUME Inv, NEW s \in Stoppers, Stop(s) \/ StopFails(s) \/ CommitStop(s)
    PROVE  Inv'
<1>1. /\ s \in Requests
      /\ \A r \in Readers : r # s /\ r \in Requests
      /\ \A c \in Creators : c # s /\ c \in Requests
  BY ExperimentsAssumption DEF Requests
<1>2. /\ \E to \in {"commit", "done"} : pc' = [pc EXCEPT ![s] = to]
      /\ status' \in {status, "stopped"}
      /\ UNCHANGED <<row, writer, cache, seen, told>>
  BY DEF Stop, StopFails, CommitStop, Step, database, reading
<1>3. AssignmentTypes'
  BY <1>1, <1>2 DEF Inv, AssignmentTypes
<1>4. ToldIsDue' /\ CacheIsDue' /\ CarriesRow' /\ CreatorHoldsName'
  BY <1>1, <1>2
  DEF Inv, AssignmentTypes, ToldIsDue, Due, CacheIsDue, CarriesRow, CreatorHoldsName
<1> QED BY <1>3, <1>4 DEF Inv

\* A recorder touches neither the experiment nor its assignments.
LEMMA RecorderKeepsInv ==
    ASSUME Inv, NEW k \in Recorders, Bump(k)
    PROVE  Inv'
<1>1. /\ k \in Requests
      /\ \A r \in Readers : r # k /\ r \in Requests
      /\ \A c \in Creators : c # k /\ c \in Requests
  BY ExperimentsAssumption DEF Requests
<1>2. /\ \E to \in {"flush", "commit", "done"} : pc' = [pc EXCEPT ![k] = to]
      /\ UNCHANGED <<row, status, writer, cache, seen, told>>
  BY DEF Bump, RecordNothing, ReadResult, FlushResult, CommitResult, RecordFails, Step,
         elsewhere, database, reading
<1>3. AssignmentTypes'
  BY <1>1, <1>2 DEF Inv, AssignmentTypes
<1>4. ToldIsDue' /\ CacheIsDue' /\ CarriesRow' /\ CreatorHoldsName'
  BY <1>1, <1>2
  DEF Inv, AssignmentTypes, ToldIsDue, Due, CacheIsDue, CarriesRow, CreatorHoldsName
<1> QED BY <1>3, <1>4 DEF Inv

\* No other step touches the counter or a recorder.
LEMMA OthersKeepResults ==
    ASSUME Inv, ResultsInv,
           \/ \E r \in Readers : Assign(r)
           \/ \E u \in Users : CacheExpires(u)
           \/ Manage
    PROVE  ResultsInv'
<1>1. UNCHANGED results
  BY DEF Assign, Ask, CacheHit, CacheMiss, GetByName, StoreAndAnswer, Falls, CacheExpires,
         Manage, Create, CreateRefused, CommitCreate, CreateFails, Stop, StopFails, CommitStop
<1>2. \/ pc' = pc
      \/ \E q \in Readers \cup Creators \cup Stoppers :
           \E to \in {"idle", "redis", "postgres", "store", "commit", "done"} :
             pc' = [pc EXCEPT ![q] = to]
  BY DEF Assign, Ask, CacheHit, CacheMiss, GetByName, StoreAndAnswer, Falls, CacheExpires,
         Manage, Create, CreateRefused, CommitCreate, CreateFails, Stop, StopFails, CommitStop,
         Step
<1>3. \A k \in Recorders : pc'[k] = pc[k]
  BY <1>2, ExperimentsAssumption DEF Inv, AssignmentTypes, Requests
<1> QED
  BY <1>1, <1>3
  DEF results, ResultsInv, ResultTypes, CarriesCount, Carries, CountFollowsBumps

\* Reading, flushing, committing and failing keep what every recorder carries explained.
LEMMA RecorderStep ==
    ASSUME Inv, ResultsInv, NEW k \in Recorders, Bump(k)
    PROVE  ResultsInv'
<1> USE ExperimentsAssumption
<1>1. /\ pc \in [Requests -> {"idle", "redis", "postgres", "store", "flush", "commit", "done"}]
      /\ Recorders \subseteq Requests /\ Delta[k] \in Nat
  BY DEF Inv, AssignmentTypes, Requests
<1>2. CASE RecordNothing(k)
  BY <1>1, <1>2
  DEF RecordNothing, Step, results, ResultsInv, ResultTypes, CarriesCount, Carries,
      CountFollowsBumps
<1>3. CASE ReadResult(k)
  BY <1>1, <1>3
  DEF ReadResult, Step, ResultsInv, ResultTypes, CarriesCount, Carries, CountFollowsBumps
<1>4. CASE FlushResult(k)
  BY <1>1, <1>4
  DEF FlushResult, Step, ResultsInv, ResultTypes, CarriesCount, Carries, CountFollowsBumps
<1>5. CASE CommitResult(k)
  <2>1. /\ count' = carried[k] + Delta[k] /\ bumped' = bumped + Delta[k]
        /\ pc[k] = "commit" /\ pc' = [pc EXCEPT ![k] = "done"]
        /\ holder' = NoRecorder /\ carried' = carried
        /\ overlapped' = (overlapped \/ \E j \in Recorders \ {k} : Carries(j))
    BY <1>5 DEF CommitResult, Step
  <2>2. /\ carried[k] \in Nat /\ carried[k] <= bumped
        /\ ~overlapped => carried[k] = count /\ count = bumped
    BY <2>1 DEF ResultsInv, ResultTypes, CarriesCount, Carries, CountFollowsBumps
  <2>3. ResultTypes' /\ CountFollowsBumps'
    BY <1>1, <2>1, <2>2 DEF ResultsInv, ResultTypes, CountFollowsBumps
  <2>4. ASSUME NEW j \in Recorders
        PROVE  carried'[j] <= bumped' /\ (Carries(j)' /\ ~overlapped' => carried'[j] = count')
    <3>1. carried[j] \in Nat /\ carried[j] <= bumped
      BY DEF ResultsInv, ResultTypes, CarriesCount
    <3>2. Carries(j)' => j # k /\ Carries(j)
      BY <1>1, <2>1 DEF Carries
    <3>3. Carries(j)' => overlapped'
      BY <2>1, <3>2
    <3> QED BY <1>1, <2>1, <3>1, <3>3 DEF ResultsInv, ResultTypes
  <2> QED BY <2>3, <2>4 DEF ResultsInv, CarriesCount
<1>6. CASE RecordFails(k)
  BY <1>1, <1>6
  DEF RecordFails, ResultsInv, ResultTypes, CarriesCount, Carries, CountFollowsBumps
<1> QED BY <1>2, <1>3, <1>4, <1>5, <1>6 DEF Bump

\* The inductive invariant holds in every reachable state.
THEOREM AssignmentInvariant == Spec => [](Inv /\ ResultsInv)
<1>1. Inv /\ ResultsInv /\ [Next]_vars => (Inv /\ ResultsInv)'
  <2>1. Inv /\ UNCHANGED vars => Inv'
    BY DEF Inv, AssignmentTypes, ToldIsDue, Due, CacheIsDue, CarriesRow, CreatorHoldsName,
           vars, database, reading
  <2>2. ResultsInv /\ UNCHANGED vars => ResultsInv'
    BY DEF vars, results, ResultsInv, ResultTypes, CarriesCount, Carries, CountFollowsBumps
  <2>3. Inv /\ Next => Inv'
    BY ReaderStep, ExpiryStep, CreatorStep, StopperStep, RecorderKeepsInv DEF Next, Manage
  <2>4. Inv /\ ResultsInv /\ Next => ResultsInv'
    BY OthersKeepResults, RecorderStep DEF Next
  <2> QED BY <2>1, <2>2, <2>3, <2>4
<1> QED BY <1>1, InitInv, PTL DEF Spec

\* Every variable keeps its type, and a committed row means that nobody holds the name.
THEOREM ExperimentsTypeCorrect == Spec => []TypeOK
<1>1. Inv /\ ResultsInv => TypeOK
  BY DEF Inv, ResultsInv, TypeOK
<1> QED BY <1>1, AssignmentInvariant, PTL

\* An assignment that was answered or cached is what the committed row says (get_assignment
\* reads only committed rows and nothing updates the ranges of a row); all that anybody else
\* is told is the route's own "control", which nothing caches.
THEOREM AssignedFromCommitted == Spec => []AssignedByCommittedRow
<1>1. Inv => AssignedByCommittedRow
  BY DEF Inv, ToldIsDue, Due, CacheIsDue, AssignedByCommittedRow
<1> QED BY <1>1, AssignmentInvariant, PTL

\* The counter never exceeds what was committed, and equals it without overlapping bumps.
THEOREM CountIsBumps == Spec => []CountFollowsBumps
<1>1. ResultsInv => CountFollowsBumps
  BY DEF ResultsInv
<1> QED BY <1>1, AssignmentInvariant, PTL

\* A user is never given two assignments, though the route's "control" may come before,
\* between and after them.
THEOREM AssignmentIsStable == Spec => []AssignmentStable
<1>1. ASSUME Inv, NEW u \in Users
      PROVE  Cardinality(told[u] \ {NoActiveExperiment}) <= 1
  <2> DEFINE A == told[u] \ {NoActiveExperiment}
  <2>1. A = {} \/ \E x : A = {x}
    BY <1>1 DEF Inv, ToldIsDue, Due
  <2>2. CASE A = {}
    BY <2>2, FS_EmptySet
  <2>3. CASE \E x : A = {x}
    <3>1. PICK x : A = {x}
      BY <2>3
    <3>2. Cardinality(A) = 1
      BY <3>1, FS_Singleton
    <3> QED BY <3>2
  <2> QED BY <2>1, <2>2, <2>3
<1>2. Inv => AssignmentStable
  BY <1>1 DEF AssignmentStable
<1> QED BY <1>2, AssignmentInvariant, PTL

====

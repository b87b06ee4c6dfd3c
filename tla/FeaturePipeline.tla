---- MODULE FeaturePipeline ----
(***************************************************************************)
(* The feature-pipeline worker: FeaturePipeline.handle_event               *)
(* (nexusfeed/features/feature_pipeline.py) run by a ConsumerGroup that    *)
(* subscribes to user-events and item-events, writing through              *)
(* OnlineFeatureStore (nexusfeed/features/online_store.py).  Every Redis   *)
(* command is a step of its own: the handlers of two workers interleave    *)
(* between any two of them, and each may fail before or after it was run.  *)
(*                                                                         *)
(*   stage    the Redis command the handler of each worker issues next     *)
(*   stamp    the time.time() add_recent_item has read and not yet sent    *)
(*   clock    the wall clock: a new reading is later than all before       *)
(*   recent   user:{id}:recent, the score of each member                   *)
(*   trending trending:global, in quarters (EVENT_SIGNAL_WEIGHT * 4)       *)
(*   viewers  item:{id}:unique_viewers, as <<item, user>> pairs            *)
(*   volatile the keys that have a TTL                                     *)
(*   lapsed   ghost: the key whose TTL has run out; bounds it to one       *)
(***************************************************************************)
EXTENDS ConsumerGroup, Integers, FiniteSetsExt, Functions

CONSTANTS
    Users, Items,
    User, Item,      \* the user and the item of each record (an event)
    Weight,          \* signal_weight of each record
    UserPartition,   \* the user-events partition of each record
    ItemPartition,   \* the item-events partition of each record
    Trending,        \* the key trending:global
    Cap              \* how many members add_recent_item keeps (50)

\* The records handle_event raises on at every call are those whose created_at, which the
\* client may give, is a date that timestamp() has no number for.  It is read after the last
\* command.  (Event.model_validate, before the first one, accepts what route() has published.)
\* So a delivery of such a record runs the commands once for every call:
Calls(e) == IF e \in Poison THEN MaxRetries + 1 ELSE 1

\* The processes, the partitions and the table EVENT_SIGNAL_WEIGHT are finite.
ASSUME FiniteAssumption ==
    /\ IsFiniteSet(Workers) /\ IsFiniteSet(Partitions)
    /\ IsFiniteSet({Calls(e) * Weight[e] : e \in Records})

ASSUME PipelineAssumption ==
    /\ User \in [Records -> Users] /\ Item \in [Records -> Items]
    /\ Weight \in [Records -> Int]
    /\ UserPartition \in [Records -> Partitions]
    /\ ItemPartition \in [Records -> Partitions]
    /\ Trending \notin Users
    /\ Cap \in Nat \ {0}

VARIABLES stage, stamp, clock, recent, trending, viewers, volatile, lapsed

redis == <<recent, trending, viewers, volatile, lapsed>>
handler == <<stage, stamp, clock>>
pipelineVars == <<groupVars, handler, redis>>

Stages == {"zadd", "expire", "trim", "pfadd", "zincrby", "expireTrending", "end"}
Keys == Users \cup {Trending}
Members == UNION {[S -> Nat] : S \in SUBSET Items}   \* sorted sets of items

\* Types, those of the consumer group among them.
PipelineTypeOK ==
    /\ TypeOK
    /\ stage \in [Workers -> Stages]
    /\ stamp \in [Workers -> Nat]
    /\ clock \in Nat
    /\ recent \in [Users -> Members]
    /\ trending \in [Items -> Int]
    /\ viewers \subseteq Items \X Users
    /\ volatile \subseteq Keys
    /\ lapsed \subseteq Keys

PipelineInit ==
    /\ Init
    /\ stage = [w \in Workers |-> "zadd"]
    /\ stamp = [w \in Workers |-> 0]
    /\ clock = 0
    /\ recent = [u \in Users |-> [i \in {} |-> 0]]
    /\ trending = [i \in Items |-> 0]
    /\ viewers = {}
    /\ volatile = {}
    /\ lapsed = {}

Exists(k) == IF k = Trending THEN \E i \in Items : trending[i] # 0 ELSE DOMAIN recent[k] # {}

-----------------------------------------------------------------------------
(* The Redis commands of one handler call *)

ZAdd(members, i, score) ==
    [j \in DOMAIN members \cup {i} |-> IF j = i THEN score ELSE members[j]]

\* Mutant: zremrangebyrank(key, 0, -(Cap + 2)).
MutNewestOffByOne(members) ==
    Restrict(members, {i \in DOMAIN members :
        Cardinality({j \in DOMAIN members : members[j] > members[i]}) <= Cap})

\* zremrangebyrank(key, 0, -(Cap + 1)) leaves the Cap members of highest score.
Newest(members) ==
    Restrict(members, {i \in DOMAIN members :
        Cardinality({j \in DOMAIN members : members[j] > members[i]}) < Cap})

SetTTL(k) == volatile' = IF Exists(k) THEN volatile \cup {k} ELSE volatile

\* add_recent_item: ZADD, EXPIRE, ZREMRANGEBYRANK.
AddRecentItem(w) ==
    LET u == User[Content(w)] IN
    \/ /\ stage[w] = "zadd"
       /\ recent' = [recent EXCEPT ![u] = ZAdd(@, Item[Content(w)], stamp[w])]
       /\ UNCHANGED <<trending, viewers, volatile>>
    \/ /\ stage[w] = "expire"
       /\ SetTTL(u)
       /\ UNCHANGED <<recent, trending, viewers>>
    \/ /\ stage[w] = "trim"
       /\ recent' = [recent EXCEPT ![u] = Newest(@)]
       /\ UNCHANGED <<trending, viewers, volatile>>

\* track_unique_viewer: PFADD.
TrackUniqueViewer(w) ==
    /\ stage[w] = "pfadd"
    /\ viewers' = viewers \cup {<<Item[Content(w)], User[Content(w)]>>}
    /\ UNCHANGED <<recent, trending, volatile>>

\* incr_trending: ZINCRBY, EXPIRE.
IncrTrending(w) ==
    \/ /\ stage[w] = "zincrby"
       /\ trending' = [trending EXCEPT ![Item[Content(w)]] = @ + Weight[Content(w)]]
       /\ UNCHANGED <<recent, viewers, volatile>>
    \/ /\ stage[w] = "expireTrending"
       /\ SetTTL(Trending)
       /\ UNCHANGED <<recent, trending, viewers>>

\* The effect on Redis of the command at the worker's stage.
Command(w) ==
    /\ AddRecentItem(w) \/ TrackUniqueViewer(w) \/ IncrTrending(w)
    /\ UNCHANGED lapsed

\* Mutant: a negative signal returns before track_unique_viewer.
MutNegativeReturnsEarly(w) ==
    CASE stage[w] = "zadd"    -> "expire"
      [] stage[w] = "expire"  -> "trim"
      [] stage[w] = "trim"    -> IF Weight[Content(w)] > 0 THEN "pfadd" ELSE "end"
      [] stage[w] = "pfadd"   -> "zincrby"
      [] stage[w] = "zincrby" -> "expireTrending"
      [] stage[w] = "expireTrending" -> "end"

\* Mutant: the expire() of add_recent_item is missing.
MutNoExpire(w) ==
    CASE stage[w] = "zadd"    -> "trim"
      [] stage[w] = "trim"    -> "pfadd"
      [] stage[w] = "pfadd"   -> IF Weight[Content(w)] > 0 THEN "zincrby" ELSE "end"
      [] stage[w] = "zincrby" -> "expireTrending"
      [] stage[w] = "expireTrending" -> "end"

\* Only a positive signal reaches incr_trending.
NextStage(w) ==
    CASE stage[w] = "zadd"    -> "expire"
      [] stage[w] = "expire"  -> "trim"
      [] stage[w] = "trim"    -> "pfadd"
      [] stage[w] = "pfadd"   -> IF Weight[Content(w)] > 0 THEN "zincrby" ELSE "end"
      [] stage[w] = "zincrby" -> "expireTrending"
      [] stage[w] = "expireTrending" -> "end"

\* handle_event is called: time.time() is read before the first await.
CallHandler(w) ==
    /\ clock' = clock + 1
    /\ stamp' = [stamp EXCEPT ![w] = clock + 1]
    /\ stage' = [stage EXCEPT ![w] = "zadd"]

\* The call returns, raises for the last time or dies with its process.
DropCall(w) ==
    /\ stage' = [stage EXCEPT ![w] = "zadd"]
    /\ stamp' = [stamp EXCEPT ![w] = 0]
    /\ UNCHANGED clock

-----------------------------------------------------------------------------
(* Actions *)

\* EventRouter.route publishes an event to user-events, then to item-events.
PublishEvent(e) ==
    /\ \/ /\ \A i \in 1..Len(log[UserPartition[e]]) : log[UserPartition[e]][i] # e
          /\ Publish(UserPartition[e], e)
       \/ /\ \E i \in 1..Len(log[UserPartition[e]]) : log[UserPartition[e]][i] = e
          /\ \A i \in 1..Len(log[ItemPartition[e]]) : log[ItemPartition[e]][i] # e
          /\ Publish(ItemPartition[e], e)
    /\ UNCHANGED <<handler, redis>>

PollEvent(w) ==
    /\ \E p \in Partitions : Poll(w, p)
    /\ CallHandler(w)
    /\ UNCHANGED redis

\* Mutant: a Redis client that repeats a command by itself when a reply is late.
MutClientRepeats(w) ==
    /\ pc[w] = "handle"
    /\ Command(w)
    /\ stage' \in {stage, [stage EXCEPT ![w] = NextStage(w)]}
    /\ UNCHANGED <<groupVars, stamp, clock>>

RunCommand(w) ==
    /\ pc[w] = "handle"
    /\ Command(w)
    /\ stage' = [stage EXCEPT ![w] = NextStage(w)]
    /\ stamp' = [stamp EXCEPT ![w] = 0]
    /\ UNCHANGED <<groupVars, clock>>

ReturnFromHandler(w) ==
    /\ stage[w] = "end"
    /\ HandlerReturns(w)
    /\ DropCall(w)
    /\ UNCHANGED redis

\* The Redis client raises, before or after the server ran the command.
RedisRaises(w) ==
    /\ stage[w] # "end"
    /\ UNCHANGED redis \/ Command(w)
    /\ Fault

\* Every command was run, and created_at.timestamp() raises.
TimestampRaises(w) ==
    /\ stage[w] = "end" /\ Content(w) \in Poison
    /\ UNCHANGED redis /\ faults' = faults

HandleEventRaises(w) ==
    /\ pc[w] = "handle"
    /\ RedisRaises(w) \/ TimestampRaises(w)

RetryHandler(w) ==
    /\ HandleEventRaises(w)
    /\ HandlerRetries(w)
    /\ CallHandler(w)

GiveUpHandler(w) ==
    /\ HandleEventRaises(w)
    /\ HandlerGivesUp(w)
    /\ DropCall(w)

\* The other steps of the consumer group leave Redis alone.
GroupStep(w) ==
    /\ Commit(w) \/ CommitFails(w) \/ Crash(w) \/ Restart(w)
    /\ DropCall(w)
    /\ UNCHANGED redis

CoordinateGroup == Coordinate /\ UNCHANGED <<handler, redis>>

\* A TTL runs out: Redis deletes the key.
KeyLapses(k) ==
    /\ k \in volatile /\ lapsed = {}
    /\ volatile' = volatile \ {k}
    /\ lapsed' = lapsed \cup {k}
    /\ IF k = Trending
       THEN trending' = [i \in Items |-> 0] /\ UNCHANGED recent
       ELSE recent' = [recent EXCEPT ![k] = [i \in {} |-> 0]] /\ UNCHANGED trending
    /\ UNCHANGED <<groupVars, handler, viewers>>

PipelineNext ==
    \/ \E e \in Records : PublishEvent(e)
    \/ \E w \in Workers :
         \/ PollEvent(w) \/ RunCommand(w) \/ ReturnFromHandler(w)
         \/ RetryHandler(w) \/ GiveUpHandler(w) \/ GroupStep(w)
    \/ CoordinateGroup
    \/ \E k \in Keys : KeyLapses(k)

PipelineSpec == PipelineInit /\ [][PipelineNext]_pipelineVars

-----------------------------------------------------------------------------
(* Properties *)

Offsets(sets) == UNION {{<<p, o>> : o \in sets[p]} : p \in Partitions}

\* The sum of the values of a function: the number of points under its graph.
Points(f) == UNION {{x} \X (1..f[x]) : x \in DOMAIN f}
Total(f) == Cardinality(Points(f))

\* What a record adds to the score of item i, and what the records at the offsets add.
Gain(i, e) == IF Item[e] = i /\ Weight[e] > 0 THEN Weight[e] ELSE 0
Signal(i, offsets) == Total([x \in offsets |-> Gain(i, log[x[1]][x[2]])])

\* The most that one delivery of a record, or of the records at the offsets, adds when nothing
\* fails; and the most that any delivery adds to any item.
Most(i, e) == Calls(e) * Gain(i, e)
MostSignal(i, offsets) == Total([x \in offsets |-> Most(i, log[x[1]][x[2]])])
HeaviestSignal == Max({0} \cup {Calls(e) * Weight[e] : e \in Records})

\* A record whose handler returned has left its mark: the viewer is counted and
\* its weight is in trending:global as long as the key has lived.  No failure,
\* retry, crash or rebalance undoes the effect of an earlier record.
DoneIsApplied ==
    /\ \A x \in Offsets(done) : LET e == log[x[1]][x[2]] IN <<Item[e], User[e]>> \in viewers
    /\ Trending \notin lapsed =>
         \A i \in Items : trending[i] >= Signal(i, Offsets(done))

\* Replays inflate trending, but only so far.  Without faults a record counts once, and one
\* that raises after its commands once for each of its calls (max_retries + 1); every fault
\* makes at most one delivery of one record count once more.
OvercountBounded ==
    \A i \in Items : trending[i] <= MostSignal(i, Offsets(started)) + faults * HeaviestSignal

\* Without faults user:{id}:recent exceeds its cap only by what the workers now
\* between ZADD and ZREMRANGEBYRANK have added.
Within(w, stages) == pc[w] = "handle" /\ stage[w] \in stages
RecentBounded ==
    \A u \in Users :
        Cardinality(DOMAIN recent[u]) <=
            Cap + faults + Cardinality({w \in Workers :
                              Within(w, {"expire", "trim"}) /\ User[Content(w)] = u})

\* Without faults every key gets its TTL: one that has none has a worker about to
\* set it.
NoKeyForever ==
    faults = 0 =>
        /\ \A u \in Users : Exists(u) /\ u \notin volatile =>
               \E w \in Workers : Within(w, {"expire"}) /\ User[Content(w)] = u
        /\ Exists(Trending) /\ Trending \notin volatile =>
               \E w \in Workers : Within(w, {"expireTrending"})

====

---- MODULE Gateway ----
(***************************************************************************)
(* What a request meets before the routes, and the smallest route that     *)
(* writes: the middleware stack of create_app (api/main.py), API keys      *)
(* (middleware/auth.py), the rate limiter of /events                       *)
(* (middleware/rate_limit.py) with its counters in Redis                   *)
(* (features/online_store.py), and POST /feedback with the item scores it  *)
(* shares with refresh_item_score.                                         *)
(*                                                                         *)
(* Every call to Redis or PostgreSQL may fail before or after its effect,  *)
(* and a pod may die between two calls of a request it serves.             *)
(*                                                                         *)
(*   now         the wall clock, in rate-limit windows; what happens at    *)
(*               some moment of a window happens anywhere in it            *)
(*   depth, pc   the layer each request has reached, its next step there   *)
(*   apiKey      request.state.api_key; NoKey where it was never set       *)
(*   window, hit the window rate_limit_hit computed, what INCR returned    *)
(*   count, ttl  ratelimit:{key}:{window}: its value (0: no such key) and  *)
(*               the window in which it expires                            *)
(*   rows        the requests whose interaction row is committed           *)
(*   score       item:{id}:score                                           *)
(*   timely      ghost: the requests counted inside the window they read   *)
(*   leaked      ghost: the counters a crash or an error left without TTL  *)
(***************************************************************************)
EXTENDS Naturals, Sequences, SequencesExt, FiniteSets

CONSTANTS
    Requests,
    Path,       \* what each request asks for
    Header,     \* the X-API-Key header of each request, or NoKey
    ApiKeys,    \* settings.api_keys
    NoKey,      \* no key; the limiter's "anonymous"
    Items,
    Item,       \* the item each feedback is about
    Limit,      \* rate_limit_events_per_second
    MaxWindow   \* bound: the last window

Paths == {"health", "events", "report", "like"}
Names == (ApiKeys \cup {NoKey}) \X (0..MaxWindow)   \* ratelimit:{api_key}:{window}
NoTTL == MaxWindow + 2     \* later than any TTL that is set

ASSUME GatewayAssumption ==
    /\ Path \in [Requests -> Paths] /\ Item \in [Requests -> Items]
    /\ NoKey \notin ApiKeys
    /\ Limit \in Nat \ {0} /\ MaxWindow \in Nat

VARIABLES now, depth, pc, answer, apiKey, window, hit,
          count, ttl, rows, score, timely, leaked

request == <<depth, pc, answer, apiKey, window, hit>>
counters == <<count, ttl, timely, leaked>>
gatewayVars == <<now, request, counters, rows, score>>

PCs == {"layer", "incr", "expire", "decide", "commit", "penalize", "done"}
Answers == {"none", "200", "401", "429", "500", "lost"}

TypeOK ==
    /\ now \in 0..MaxWindow
    /\ depth \in [Requests -> 1..3]
    /\ pc \in [Requests -> PCs]
    /\ answer \in [Requests -> Answers]
    /\ apiKey \in [Requests -> ApiKeys \cup {NoKey}]
    /\ window \in [Requests -> 0..MaxWindow]
    /\ hit \in [Requests -> Nat]
    /\ count \in [Names -> Nat]
    /\ ttl \in [Names -> (0..MaxWindow + 1) \cup {NoTTL}]
    /\ rows \subseteq Requests
    /\ score \in [Items -> {"absent", "computed", "penalty"}]
    /\ timely \subseteq Requests
    /\ leaked \subseteq Names

Init ==
    /\ now = 0
    /\ depth = [r \in Requests |-> 1]
    /\ pc = [r \in Requests |-> "layer"]
    /\ answer = [r \in Requests |-> "none"]
    /\ apiKey = [r \in Requests |-> NoKey]
    /\ window = [r \in Requests |-> 0]
    /\ hit = [r \in Requests |-> 0]
    /\ count = [n \in Names |-> 0]
    /\ ttl = [n \in Names |-> NoTTL]
    /\ rows = {}
    /\ score = [i \in Items |-> "absent"]
    /\ timely = {}
    /\ leaked = {}

-----------------------------------------------------------------------------
(* The middleware stack *)

\* The router, then the add_middleware calls of create_app in their order; the access log and
\* the request id keep no state.
Added == <<"route", "limit", "auth">>

\* Mutant: the layer added first is the outermost.
MutStack == <<"limit", "auth", "route">>

\* The layer added last is the outermost.
Stack == Reverse(Added)

At(r, layer) == pc[r] = "layer" /\ Stack[depth[r]] = layer

Goto(r, step) == pc' = [pc EXCEPT ![r] = step]
CallNext(r) == Goto(r, "layer") /\ depth' = [depth EXCEPT ![r] = @ + 1] /\ UNCHANGED answer
Respond(r, status) ==
    /\ Goto(r, "done")
    /\ answer' = [answer EXCEPT ![r] = status]
    /\ UNCHANGED depth

\* ApiKeyAuthMiddleware.dispatch
Auth(r) ==
    /\ At(r, "auth")
    /\ \/ Path[r] = "health" /\ CallNext(r) /\ UNCHANGED apiKey
       \/ /\ Path[r] # "health" /\ Header[r] \in ApiKeys
          /\ apiKey' = [apiKey EXCEPT ![r] = Header[r]]
          /\ CallNext(r)
       \/ /\ Path[r] # "health" /\ Header[r] \notin ApiKeys
          /\ Respond(r, "401")
          /\ UNCHANGED apiKey
    /\ UNCHANGED <<now, window, hit, counters, rows, score>>

-----------------------------------------------------------------------------
(* The rate limiter *)

Name(r) == <<apiKey[r], window[r]>>

\* RateLimitMiddleware.dispatch up to the await of INCR: what is not /events passes.
Limiter(r) ==
    /\ At(r, "limit")
    /\ \/ Path[r] # "events" /\ CallNext(r) /\ UNCHANGED window
       \/ /\ Path[r] = "events"
          /\ window' = [window EXCEPT ![r] = now]
          /\ Goto(r, "incr")
          /\ UNCHANGED <<depth, answer>>
    /\ UNCHANGED <<now, apiKey, hit, counters, rows, score>>

\* Mutant: every hit sets the TTL again except the first.
MutSetsTTL(c) == c # 1

\* if count == 1
SetsTTL(c) == c = 1

Incremented(r) ==
    /\ count' = [count EXCEPT ![Name(r)] = @ + 1]
    /\ timely' = IF now = window[r] THEN timely \cup {r} ELSE timely

\* INCR creates the key without TTL, or counts on.
Hit(r) ==
    /\ pc[r] = "incr"
    /\ Incremented(r)
    /\ hit' = [hit EXCEPT ![r] = count[Name(r)] + 1]
    /\ Goto(r, IF SetsTTL(count[Name(r)] + 1) THEN "expire" ELSE "decide")
    /\ UNCHANGED <<now, depth, answer, apiKey, window, ttl, leaked, rows, score>>

\* Mutant: the TTL is a moment shorter than the window.
MutExpiry == now

\* EXPIRE key window_seconds
Expiry == now + 1

Expire(r) ==
    /\ pc[r] = "expire"
    /\ ttl' = [ttl EXCEPT ![Name(r)] = Expiry]
    /\ Goto(r, "decide")
    /\ UNCHANGED <<now, depth, answer, apiKey, window, hit, count, timely, leaked, rows, score>>

\* allowed: count <= limit
Allowed(c) == c <= Limit

Decide(r) ==
    /\ pc[r] = "decide"
    /\ IF Allowed(hit[r]) THEN CallNext(r) ELSE Respond(r, "429")
    /\ UNCHANGED <<now, apiKey, window, hit, counters, rows, score>>

\* What is lost when the request ends here: the counter it should have given a TTL.
Leaks(r) == IF pc[r] = "expire" THEN {Name(r)} ELSE {}

\* A Redis call raises, before or after its effect: BaseHTTPMiddleware lets it through as a 500.
RedisFails(r) ==
    /\ \/ /\ pc[r] \in {"incr", "expire", "penalize"}
          /\ leaked' = leaked \cup Leaks(r)
          /\ UNCHANGED <<count, ttl, timely, score>>
       \/ /\ pc[r] = "incr"
          /\ Incremented(r)
          /\ leaked' = leaked \cup IF count[Name(r)] = 0 THEN {Name(r)} ELSE {}
          /\ UNCHANGED <<ttl, score>>
       \/ /\ pc[r] = "expire"
          /\ ttl' = [ttl EXCEPT ![Name(r)] = Expiry]
          /\ UNCHANGED <<count, timely, leaked, score>>
       \/ /\ pc[r] = "penalize"
          /\ score' = [score EXCEPT ![Item[r]] = "penalty"]
          /\ UNCHANGED counters
    /\ Respond(r, "500")
    /\ UNCHANGED <<now, apiKey, window, hit, rows>>

\* A counter with a TTL goes.
CounterExpires(n) ==
    /\ ttl[n] = now
    /\ count' = [count EXCEPT ![n] = 0]
    /\ ttl' = [ttl EXCEPT ![n] = NoTTL]
    /\ leaked' = leaked \ {n}
    /\ UNCHANGED <<now, request, timely, rows, score>>

-----------------------------------------------------------------------------
(* The routes *)

\* /health and /events answer here (EventIngestion has the rest of /events);
\* submit_feedback runs up to the INSERT that record flushes, which may be refused.
Route(r) ==
    /\ At(r, "route")
    /\ \/ Path[r] \in {"health", "events"} /\ Respond(r, "200")
       \/ Path[r] \in {"report", "like"} /\ Goto(r, "commit") /\ UNCHANGED <<depth, answer>>
       \/ Path[r] \in {"report", "like"} /\ Respond(r, "500")
    /\ UNCHANGED <<now, apiKey, window, hit, counters, rows, score>>

\* Mutant: set_item_score goes before the commit.
MutPenaltyBeforeCommit(r) == score' = IF Path[r] = "report" THEN [score EXCEPT ![Item[r]] = "penalty"] ELSE score

\* The commit leaves Redis alone.
WithCommit(r) == UNCHANGED score

\* db.commit(): done, then the penalty of a report or hide; or raises, done or not.
Commit(r) ==
    /\ pc[r] = "commit"
    /\ \/ /\ rows' = rows \cup {r}
          /\ IF Path[r] = "report"
             THEN Goto(r, "penalize") /\ UNCHANGED <<depth, answer>>
             ELSE Respond(r, "200")
       \/ rows' \in {rows, rows \cup {r}} /\ Respond(r, "500")
    /\ WithCommit(r)
    /\ UNCHANGED <<now, apiKey, window, hit, counters>>

\* set_item_score(item_id, -1.0)
Penalize(r) ==
    /\ pc[r] = "penalize"
    /\ score' = [score EXCEPT ![Item[r]] = "penalty"]
    /\ Respond(r, "200")
    /\ UNCHANGED <<now, apiKey, window, hit, counters, rows>>

\* refresh_item_score and warm_redis overwrite what is there.
RefreshItemScore(i) ==
    /\ score' = [score EXCEPT ![i] = "computed"]
    /\ UNCHANGED <<now, request, counters, rows>>

\* The TTL of an item score (five minutes) runs out.
ScoreExpires(i) ==
    /\ score[i] # "absent"
    /\ score' = [score EXCEPT ![i] = "absent"]
    /\ UNCHANGED <<now, request, counters, rows>>

-----------------------------------------------------------------------------
(* Crashes and time *)

\* The pod that serves the request dies before EXPIRE.  Nothing makes a request take its next
\* step (Spec has no fairness), so a death anywhere else is one that takes none.
PodDies(r) ==
    /\ pc[r] = "expire"
    /\ leaked' = leaked \cup {Name(r)}
    /\ Respond(r, "lost")
    /\ UNCHANGED <<now, apiKey, window, hit, count, ttl, timely, rows, score>>

\* Time goes on; what expires in this window goes before the next.
Tick ==
    /\ now < MaxWindow
    /\ \A n \in Names : ttl[n] # now
    /\ now' = now + 1
    /\ UNCHANGED <<request, counters, rows, score>>

Next ==
    \/ \E r \in Requests :
        \/ Auth(r) \/ Limiter(r) \/ Hit(r) \/ Expire(r) \/ Decide(r) \/ RedisFails(r)
        \/ Route(r) \/ Commit(r) \/ Penalize(r) \/ PodDies(r)
    \/ \E n \in Names : CounterExpires(n)
    \/ \E i \in Items : RefreshItemScore(i) \/ ScoreExpires(i)
    \/ Tick

Spec == Init /\ [][Next]_gatewayVars

-----------------------------------------------------------------------------
(* Properties *)

Passed(r) == Path[r] = "events" /\ depth[r] = 3

\* rate_limit.py, rate_limit_hit: of the requests of one API key that were counted inside the
\* window they read, no more than Limit get past the limiter, whatever races, fails or expires.
\* (One counted late, after its window, may find the counter gone and pass as well.)
TimelyPassesBounded ==
    \A n \in Names : Cardinality({r \in timely : Name(r) = n /\ Passed(r)}) <= Limit

\* online_store.py:130 (INCR, then EXPIRE): a counter has a TTL, or the one request that read 1
\* is about to set it, or a crash or an error between the two calls left the key for good.
OnlyCrashLeaksKeys ==
    \A n \in Names : count[n] > 0 /\ ttl[n] = NoTTL =>
        n \in leaked \/ \E r \in Requests : pc[r] = "expire" /\ Name(r) = n

\* main.py (the order of add_middleware): who shows no valid key uses up no rate limit and
\* leaves no row; the anonymous counter of the limiter is never used.
NoKeyNoEffect ==
    /\ \A n \in Names : count[n] > 0 => n[1] \in ApiKeys
    /\ \A r \in rows : Header[r] \in ApiKeys

\* feedback.py:24-32: an item under a penalty has a committed report, although the request may
\* have failed, its pod died and other writers of the score run in between.
PenaltyFollowsRow ==
    \A i \in Items : score[i] = "penalty" =>
        \E r \in rows : Path[r] = "report" /\ Item[r] = i
====

---- MODULE GatewayProofs ----
(***************************************************************************)
(* What TLAPS proves of the middleware, the rate limiter and the feedback  *)
(* route, for any requests, keys, items and limit.                         *)
(*                                                                         *)
(* The bound on the limiter rests on what INCR returns: the hits of one    *)
(* counter inside its own window are pairwise different (a key cannot      *)
(* expire before its window is over), and who passes has one of 1..Limit.  *)
(***************************************************************************)
EXTENDS Gateway, FiniteSetTheorems, TLAPS

USE GatewayAssumption DEF Paths, NoTTL, PCs, Answers

\* What a request has gone through, by the step it is at.
RequestInv ==
    \A r \in Requests :
        /\ pc[r] \in {"incr", "expire", "decide"} =>
                depth[r] = 2 /\ Path[r] = "events" /\ window[r] <= now
        /\ pc[r] = "incr" \/ (pc[r] = "layer" /\ depth[r] < 3) => hit[r] = 0
        /\ pc[r] \in {"expire", "decide"} => hit[r] > 0
        /\ pc[r] \in {"commit", "penalize"} => depth[r] = 3 /\ Path[r] \in {"report", "like"}
        /\ pc[r] = "penalize" => r \in rows /\ Path[r] = "report"
        /\ depth[r] > 1 /\ Path[r] # "health" => apiKey[r] = Header[r] /\ Header[r] \in ApiKeys
        /\ Passed(r) => hit[r] \in 1..Limit

\* A request counted in its window has left the steps that give it its name and its hit.
TimelyInv ==
    \A r \in timely :
        /\ window[r] <= now
        /\ pc[r] # "incr"
        /\ pc[r] = "layer" => depth[r] = 3
        /\ hit[r] > 0 /\ window[r] = now => hit[r] <= count[Name(r)]

DistinctHits ==
    \A r, s \in timely : hit[r] > 0 /\ hit[r] = hit[s] /\ Name(r) = Name(s) => r = s

TTLInv == \A n \in Names : ttl[n] # NoTTL => ttl[n] > n[2]

GInv ==
    /\ TypeOK /\ RequestInv /\ TimelyInv /\ DistinctHits /\ TTLInv
    /\ OnlyCrashLeaksKeys /\ NoKeyNoEffect /\ PenaltyFollowsRow

-----------------------------------------------------------------------------

\* main.py: auth runs before the limiter, the limiter before the routes.
LEMMA StackOrder == Stack[1] = "auth" /\ Stack[2] = "limit" /\ Stack[3] = "route"
  BY DEF Stack, Added, Reverse

LEMMA Layer ==
    ASSUME NEW d \in 1..3
    PROVE  /\ Stack[d] = "auth" <=> d = 1
           /\ Stack[d] = "limit" <=> d = 2
           /\ Stack[d] = "route" <=> d = 3
  BY StackOrder

LEMMA NameInNames ==
    ASSUME TypeOK, NEW r \in Requests
    PROVE  Name(r) \in Names /\ Name(r)[1] = apiKey[r] /\ Name(r)[2] = window[r]
  BY DEF TypeOK, Name, Names

\* Before the routes a request is not counted yet.
LEMMA NotCountedYet ==
    ASSUME TypeOK, TimelyInv, NEW r \in Requests, Auth(r) \/ Limiter(r)
    PROVE  r \notin timely
  <1>1. depth[r] \in 1..3
    BY DEF TypeOK
  <1>2. pc[r] = "layer" /\ depth[r] # 3
    BY <1>1, Layer DEF Auth, Limiter, At
  <1>3. QED
    BY <1>2 DEF TimelyInv

LEMMA InitGInv == Init => GInv
  BY DEF Init, GInv, TypeOK, RequestInv, TimelyInv, DistinctHits, TTLInv, OnlyCrashLeaksKeys,
         NoKeyNoEffect, PenaltyFollowsRow, Passed

LEMMA TypeStep == TypeOK /\ RequestInv /\ [Next]_gatewayVars => TypeOK'
  <1> SUFFICES ASSUME TypeOK, RequestInv, [Next]_gatewayVars PROVE TypeOK'
    OBVIOUS
  <1>1. ASSUME NEW r \in Requests, Auth(r) PROVE TypeOK'
    BY <1>1, Layer DEF TypeOK, RequestInv, Auth, At, CallNext, Respond, Goto, counters
  <1>2. ASSUME NEW r \in Requests, Limiter(r) PROVE TypeOK'
    BY <1>2, NameInNames, Layer DEF TypeOK, RequestInv, Limiter, At, CallNext, Goto, request, counters
  <1>3. ASSUME NEW r \in Requests, Hit(r) PROVE TypeOK'
    BY <1>3, NameInNames DEF TypeOK, RequestInv, Hit, Incremented, SetsTTL, Goto, request, counters
  <1>4. ASSUME NEW r \in Requests, Expire(r) PROVE TypeOK'
    BY <1>4, NameInNames DEF TypeOK, RequestInv, Expire, Expiry, Goto, request, counters
  <1>5. ASSUME NEW r \in Requests, Decide(r) PROVE TypeOK'
    <2>1. depth[r] = 2 /\ (CallNext(r) \/ Respond(r, "429"))
      BY <1>5 DEF RequestInv, Decide
    <2>2. depth' \in [Requests -> 1..3] /\ pc' \in [Requests -> PCs]
      BY <2>1 DEF TypeOK, CallNext, Respond, Goto
    <2>3. answer' \in [Requests -> Answers]
      BY <2>1 DEF TypeOK, CallNext, Respond
    <2>4. QED
      BY <1>5, <2>2, <2>3 DEF TypeOK, Decide, counters
  <1>6. ASSUME NEW r \in Requests, RedisFails(r) PROVE TypeOK'
    BY <1>6, NameInNames DEF TypeOK, RequestInv, RedisFails, Incremented, Expiry, Leaks, Respond, Goto, request, counters
  <1>7. ASSUME NEW r \in Requests, Route(r) PROVE TypeOK'
    BY <1>7, Layer DEF TypeOK, RequestInv, Route, At, Respond, Goto, counters
  <1>8. ASSUME NEW r \in Requests, Commit(r) PROVE TypeOK'
    BY <1>8 DEF TypeOK, RequestInv, Commit, WithCommit, Respond, Goto, counters
  <1>9. ASSUME NEW r \in Requests, Penalize(r) PROVE TypeOK'
    BY <1>9, NameInNames DEF TypeOK, RequestInv, Penalize, Respond, Goto, request, counters
  <1>10. ASSUME NEW r \in Requests, PodDies(r) PROVE TypeOK'
    BY <1>10, NameInNames DEF TypeOK, RequestInv, PodDies, Respond, Goto, request, counters
  <1>11. ASSUME NEW n \in Names, CounterExpires(n) PROVE TypeOK'
    BY <1>11 DEF TypeOK, CounterExpires, request, counters
  <1>12. ASSUME NEW i \in Items, RefreshItemScore(i) \/ ScoreExpires(i) PROVE TypeOK'
    BY <1>12 DEF TypeOK, RefreshItemScore, ScoreExpires, request, counters
  <1>13. CASE Tick
    BY <1>13 DEF TypeOK, Tick, request, counters
  <1>14. CASE UNCHANGED gatewayVars
    BY <1>14 DEF TypeOK, gatewayVars, request, counters
  <1>15. QED
    BY <1>1, <1>2, <1>3, <1>4, <1>5, <1>6, <1>7, <1>8, <1>9, <1>10, <1>11, <1>12, <1>13, <1>14 DEF Next

LEMMA RequestStep == TypeOK /\ RequestInv /\ [Next]_gatewayVars => RequestInv'
  <1> SUFFICES ASSUME TypeOK, RequestInv, [Next]_gatewayVars PROVE RequestInv'
    OBVIOUS
  <1>0. TypeOK'
    BY TypeStep
  <1> USE NameInNames DEF RequestInv, Passed, request, counters
  <1>1. ASSUME NEW r \in Requests, Auth(r) PROVE RequestInv'
    BY <1>0, <1>1, Layer DEF TypeOK, Auth, At, CallNext, Respond, Goto
  <1>2. ASSUME NEW r \in Requests, Limiter(r) PROVE RequestInv'
    BY <1>0, <1>2, Layer DEF TypeOK, Limiter, At, CallNext, Goto
  <1>3. ASSUME NEW r \in Requests, Hit(r) PROVE RequestInv'
    BY <1>0, <1>3 DEF TypeOK, Hit, Incremented, SetsTTL, Goto
  <1>4. ASSUME NEW r \in Requests, Expire(r) PROVE RequestInv'
    BY <1>0, <1>4 DEF TypeOK, Expire, Expiry, Goto
  <1>5. ASSUME NEW r \in Requests, Decide(r) PROVE RequestInv'
    BY <1>0, <1>5 DEF TypeOK, Decide, Allowed, CallNext, Respond, Goto
  <1>6. ASSUME NEW r \in Requests, RedisFails(r) PROVE RequestInv'
    BY <1>0, <1>6 DEF TypeOK, RedisFails, Incremented, Expiry, Leaks, Respond, Goto
  <1>7. ASSUME NEW r \in Requests, Route(r) PROVE RequestInv'
    BY <1>0, <1>7, Layer DEF TypeOK, Route, At, Respond, Goto
  <1>8. ASSUME NEW r \in Requests, Commit(r) PROVE RequestInv'
    BY <1>0, <1>8 DEF TypeOK, Commit, WithCommit, Respond, Goto
  <1>9. ASSUME NEW r \in Requests, Penalize(r) PROVE RequestInv'
    BY <1>0, <1>9 DEF TypeOK, Penalize, Respond, Goto
  <1>10. ASSUME NEW r \in Requests, PodDies(r) PROVE RequestInv'
    BY <1>0, <1>10 DEF TypeOK, PodDies, Respond, Goto
  <1>11. ASSUME NEW n \in Names, CounterExpires(n) PROVE RequestInv'
    BY <1>0, <1>11 DEF TypeOK, CounterExpires
  <1>12. ASSUME NEW i \in Items, RefreshItemScore(i) \/ ScoreExpires(i) PROVE RequestInv'
    BY <1>0, <1>12 DEF TypeOK, RefreshItemScore, ScoreExpires
  <1>13. CASE Tick
    BY <1>0, <1>13 DEF TypeOK, Tick
  <1>14. CASE UNCHANGED gatewayVars
    BY <1>14 DEF gatewayVars
  <1>15. QED
    BY <1>1, <1>2, <1>3, <1>4, <1>5, <1>6, <1>7, <1>8, <1>9, <1>10, <1>11, <1>12, <1>13, <1>14 DEF Next

LEMMA TimelyStep == TypeOK /\ RequestInv /\ TTLInv /\ TimelyInv /\ [Next]_gatewayVars => TimelyInv'
  <1> SUFFICES ASSUME TypeOK, RequestInv, TTLInv, TimelyInv, [Next]_gatewayVars PROVE TimelyInv'
    OBVIOUS
  <1>0. TypeOK'
    BY TypeStep
  <1> USE NameInNames DEF RequestInv, TimelyInv, TTLInv, Name, request, counters
  <1>1. ASSUME NEW r \in Requests, Auth(r) PROVE TimelyInv'
    <2>1. r \notin timely
      BY <1>1, NotCountedYet
    <2>2. QED
      BY <1>0, <1>1, <2>1 DEF TypeOK, Auth, At, CallNext, Respond, Goto
  <1>2. ASSUME NEW r \in Requests, Limiter(r) PROVE TimelyInv'
    <2>1. r \notin timely
      BY <1>2, NotCountedYet
    <2>2. QED
      BY <1>0, <1>2, <2>1 DEF TypeOK, Limiter, At, CallNext, Goto
  <1>3. ASSUME NEW r \in Requests, Hit(r) PROVE TimelyInv'
    BY <1>0, <1>3 DEF TypeOK, Hit, Incremented, SetsTTL, Goto
  <1>4. ASSUME NEW r \in Requests, Expire(r) PROVE TimelyInv'
    BY <1>0, <1>4 DEF TypeOK, Expire, Expiry, Goto
  <1>5. ASSUME NEW r \in Requests, Decide(r) PROVE TimelyInv'
    BY <1>0, <1>5 DEF TypeOK, Decide, Allowed, CallNext, Respond, Goto
  <1>6. ASSUME NEW r \in Requests, RedisFails(r) PROVE TimelyInv'
    BY <1>0, <1>6 DEF TypeOK, RedisFails, Incremented, Expiry, Leaks, Respond, Goto
  <1>7. ASSUME NEW r \in Requests, Route(r) PROVE TimelyInv'
    BY <1>0, <1>7, Layer DEF TypeOK, Route, At, Respond, Goto
  <1>8. ASSUME NEW r \in Requests, Commit(r) PROVE TimelyInv'
    BY <1>0, <1>8 DEF TypeOK, Commit, WithCommit, Respond, Goto
  <1>9. ASSUME NEW r \in Requests, Penalize(r) PROVE TimelyInv'
    BY <1>0, <1>9 DEF TypeOK, Penalize, Respond, Goto
  <1>10. ASSUME NEW r \in Requests, PodDies(r) PROVE TimelyInv'
    BY <1>0, <1>10 DEF TypeOK, PodDies, Respond, Goto
  <1>11. ASSUME NEW n \in Names, CounterExpires(n) PROVE TimelyInv'
    BY <1>0, <1>11 DEF TypeOK, CounterExpires
  <1>12. ASSUME NEW i \in Items, RefreshItemScore(i) \/ ScoreExpires(i) PROVE TimelyInv'
    BY <1>0, <1>12 DEF TypeOK, RefreshItemScore, ScoreExpires
  <1>13. CASE Tick
    BY <1>0, <1>13 DEF TypeOK, Tick
  <1>14. CASE UNCHANGED gatewayVars
    BY <1>14 DEF gatewayVars
  <1>15. QED
    BY <1>1, <1>2, <1>3, <1>4, <1>5, <1>6, <1>7, <1>8, <1>9, <1>10, <1>11, <1>12, <1>13, <1>14 DEF Next

LEMMA DistinctStep == TypeOK /\ RequestInv /\ TimelyInv /\ DistinctHits /\ [Next]_gatewayVars => DistinctHits'
  <1> SUFFICES ASSUME TypeOK, RequestInv, TimelyInv, DistinctHits, [Next]_gatewayVars PROVE DistinctHits'
    OBVIOUS
  <1>0. TypeOK'
    BY TypeStep
  <1> USE NameInNames DEF RequestInv, TimelyInv, DistinctHits, Name, request, counters
  <1>1. ASSUME NEW r \in Requests, Auth(r) PROVE DistinctHits'
    <2>1. r \notin timely
      BY <1>1, NotCountedYet
    <2>2. QED
      BY <1>0, <1>1, <2>1 DEF TypeOK, Auth, At, CallNext, Respond, Goto
  <1>2. ASSUME NEW r \in Requests, Limiter(r) PROVE DistinctHits'
    <2>1. r \notin timely
      BY <1>2, NotCountedYet
    <2>2. QED
      BY <1>0, <1>2, <2>1 DEF TypeOK, Limiter, At, CallNext, Goto
  <1>3. ASSUME NEW r \in Requests, Hit(r) PROVE DistinctHits'
    BY <1>0, <1>3 DEF TypeOK, Hit, Incremented, SetsTTL, Goto
  <1>4. ASSUME NEW r \in Requests, Expire(r) PROVE DistinctHits'
    BY <1>0, <1>4 DEF TypeOK, Expire, Expiry, Goto
  <1>5. ASSUME NEW r \in Requests, Decide(r) PROVE DistinctHits'
    BY <1>0, <1>5 DEF TypeOK, Decide, Allowed, CallNext, Respond, Goto
  <1>6. ASSUME NEW r \in Requests, RedisFails(r) PROVE DistinctHits'
    BY <1>0, <1>6 DEF TypeOK, RedisFails, Incremented, Expiry, Leaks, Respond, Goto
  <1>7. ASSUME NEW r \in Requests, Route(r) PROVE DistinctHits'
    BY <1>0, <1>7, Layer DEF TypeOK, Route, At, Respond, Goto
  <1>8. ASSUME NEW r \in Requests, Commit(r) PROVE DistinctHits'
    BY <1>0, <1>8 DEF TypeOK, Commit, WithCommit, Respond, Goto
  <1>9. ASSUME NEW r \in Requests, Penalize(r) PROVE DistinctHits'
    BY <1>0, <1>9 DEF TypeOK, Penalize, Respond, Goto
  <1>10. ASSUME NEW r \in Requests, PodDies(r) PROVE DistinctHits'
    BY <1>0, <1>10 DEF TypeOK, PodDies, Respond, Goto
  <1>11. ASSUME NEW n \in Names, CounterExpires(n) PROVE DistinctHits'
    BY <1>0, <1>11 DEF TypeOK, CounterExpires
  <1>12. ASSUME NEW i \in Items, RefreshItemScore(i) \/ ScoreExpires(i) PROVE DistinctHits'
    BY <1>0, <1>12 DEF TypeOK, RefreshItemScore, ScoreExpires
  <1>13. CASE Tick
    BY <1>0, <1>13 DEF TypeOK, Tick
  <1>14. CASE UNCHANGED gatewayVars
    BY <1>14 DEF gatewayVars
  <1>15. QED
    BY <1>1, <1>2, <1>3, <1>4, <1>5, <1>6, <1>7, <1>8, <1>9, <1>10, <1>11, <1>12, <1>13, <1>14 DEF Next

LEMMA TTLStep == TypeOK /\ RequestInv /\ TTLInv /\ [Next]_gatewayVars => TTLInv'
  <1> SUFFICES ASSUME TypeOK, RequestInv, TTLInv, [Next]_gatewayVars PROVE TTLInv'
    OBVIOUS
  <1>0. TypeOK'
    BY TypeStep
  <1> USE NameInNames DEF RequestInv, TTLInv, request, counters
  <1>1. ASSUME NEW r \in Requests, Auth(r) PROVE TTLInv'
    BY <1>0, <1>1, Layer DEF TypeOK, Auth, At, CallNext, Respond, Goto
  <1>2. ASSUME NEW r \in Requests, Limiter(r) PROVE TTLInv'
    BY <1>0, <1>2, Layer DEF TypeOK, Limiter, At, CallNext, Goto
  <1>3. ASSUME NEW r \in Requests, Hit(r) PROVE TTLInv'
    BY <1>0, <1>3 DEF TypeOK, Hit, Incremented, SetsTTL, Goto
  <1>4. ASSUME NEW r \in Requests, Expire(r) PROVE TTLInv'
    BY <1>0, <1>4 DEF TypeOK, Expire, Expiry, Goto
  <1>5. ASSUME NEW r \in Requests, Decide(r) PROVE TTLInv'
    BY <1>0, <1>5 DEF TypeOK, Decide, Allowed, CallNext, Respond, Goto
  <1>6. ASSUME NEW r \in Requests, RedisFails(r) PROVE TTLInv'
    BY <1>0, <1>6 DEF TypeOK, RedisFails, Incremented, Expiry, Leaks, Respond, Goto
  <1>7. ASSUME NEW r \in Requests, Route(r) PROVE TTLInv'
    BY <1>0, <1>7, Layer DEF TypeOK, Route, At, Respond, Goto
  <1>8. ASSUME NEW r \in Requests, Commit(r) PROVE TTLInv'
    BY <1>0, <1>8 DEF TypeOK, Commit, WithCommit, Respond, Goto
  <1>9. ASSUME NEW r \in Requests, Penalize(r) PROVE TTLInv'
    BY <1>0, <1>9 DEF TypeOK, Penalize, Respond, Goto
  <1>10. ASSUME NEW r \in Requests, PodDies(r) PROVE TTLInv'
    BY <1>0, <1>10 DEF TypeOK, PodDies, Respond, Goto
  <1>11. ASSUME NEW n \in Names, CounterExpires(n) PROVE TTLInv'
    BY <1>0, <1>11 DEF TypeOK, CounterExpires
  <1>12. ASSUME NEW i \in Items, RefreshItemScore(i) \/ ScoreExpires(i) PROVE TTLInv'
    BY <1>0, <1>12 DEF TypeOK, RefreshItemScore, ScoreExpires
  <1>13. CASE Tick
    BY <1>0, <1>13 DEF TypeOK, Tick
  <1>14. CASE UNCHANGED gatewayVars
    BY <1>14 DEF gatewayVars
  <1>15. QED
    BY <1>1, <1>2, <1>3, <1>4, <1>5, <1>6, <1>7, <1>8, <1>9, <1>10, <1>11, <1>12, <1>13, <1>14 DEF Next

LEMMA LeakStep == TypeOK /\ RequestInv /\ OnlyCrashLeaksKeys /\ [Next]_gatewayVars => OnlyCrashLeaksKeys'
  <1> SUFFICES ASSUME TypeOK, RequestInv, OnlyCrashLeaksKeys, [Next]_gatewayVars PROVE OnlyCrashLeaksKeys'
    OBVIOUS
  <1>0. TypeOK'
    BY TypeStep
  <1> USE NameInNames DEF OnlyCrashLeaksKeys, Name, request, counters
  <1>1. ASSUME NEW r \in Requests, Auth(r) PROVE OnlyCrashLeaksKeys'
    BY <1>0, <1>1, Layer DEF TypeOK, Auth, At, CallNext, Respond, Goto
  <1>2. ASSUME NEW r \in Requests, Limiter(r) PROVE OnlyCrashLeaksKeys'
    BY <1>0, <1>2, Layer DEF TypeOK, Limiter, At, CallNext, Goto
  <1>3. ASSUME NEW r \in Requests, Hit(r) PROVE OnlyCrashLeaksKeys'
    BY <1>0, <1>3 DEF TypeOK, Hit, Incremented, SetsTTL, Goto
  <1>4. ASSUME NEW r \in Requests, Expire(r) PROVE OnlyCrashLeaksKeys'
    BY <1>0, <1>4 DEF TypeOK, Expire, Expiry, Goto
  <1>5. ASSUME NEW r \in Requests, Decide(r) PROVE OnlyCrashLeaksKeys'
    BY <1>0, <1>5 DEF TypeOK, Decide, Allowed, CallNext, Respond, Goto
  <1>6. ASSUME NEW r \in Requests, RedisFails(r) PROVE OnlyCrashLeaksKeys'
    <2> SUFFICES ASSUME NEW n \in Names, count'[n] > 0, ttl'[n] = NoTTL
                 PROVE  n \in leaked' \/ \E s \in Requests : pc'[s] = "expire" /\ Name(s)' = n
      BY DEF OnlyCrashLeaksKeys
    <2>1. /\ \A s \in Requests : s # r => pc'[s] = pc[s]
          /\ \A s \in Requests : Name(s)' = Name(s)
          /\ leaked \subseteq leaked'
      BY <1>6 DEF TypeOK, RedisFails, Respond, Goto
    <2>2. pc[r] = "expire" /\ Name(r) = n => n \in leaked'
      <3> SUFFICES ASSUME pc[r] = "expire", Name(r) = n PROVE n \in leaked'
        OBVIOUS
      <3>1. leaked' = leaked \cup {n} \/ ttl' = [ttl EXCEPT ![n] = now + 1]
        BY <1>6 DEF RedisFails, Expiry, Leaks
      <3>2. now + 1 # NoTTL
        BY DEF TypeOK
      <3>3. QED
        BY <3>1, <3>2 DEF TypeOK
    <2>3. count[n] > 0 \/ n \in leaked'
      BY <1>6 DEF TypeOK, RedisFails, Incremented
    <2>4. ttl[n] = NoTTL
      BY <1>6 DEF TypeOK, RedisFails, Expiry
    <2>5. QED
      BY <2>1, <2>2, <2>3, <2>4
  <1>7. ASSUME NEW r \in Requests, Route(r) PROVE OnlyCrashLeaksKeys'
    BY <1>0, <1>7, Layer DEF TypeOK, Route, At, Respond, Goto
  <1>8. ASSUME NEW r \in Requests, Commit(r) PROVE OnlyCrashLeaksKeys'
    BY <1>0, <1>8 DEF TypeOK, Commit, WithCommit, Respond, Goto
  <1>9. ASSUME NEW r \in Requests, Penalize(r) PROVE OnlyCrashLeaksKeys'
    BY <1>0, <1>9 DEF TypeOK, Penalize, Respond, Goto
  <1>10. ASSUME NEW r \in Requests, PodDies(r) PROVE OnlyCrashLeaksKeys'
    BY <1>0, <1>10 DEF TypeOK, PodDies, Respond, Goto
  <1>11. ASSUME NEW n \in Names, CounterExpires(n) PROVE OnlyCrashLeaksKeys'
    BY <1>0, <1>11 DEF TypeOK, CounterExpires
  <1>12. ASSUME NEW i \in Items, RefreshItemScore(i) \/ ScoreExpires(i) PROVE OnlyCrashLeaksKeys'
    BY <1>0, <1>12 DEF TypeOK, RefreshItemScore, ScoreExpires
  <1>13. CASE Tick
    BY <1>0, <1>13 DEF TypeOK, Tick
  <1>14. CASE UNCHANGED gatewayVars
    BY <1>14 DEF gatewayVars
  <1>15. QED
    BY <1>1, <1>2, <1>3, <1>4, <1>5, <1>6, <1>7, <1>8, <1>9, <1>10, <1>11, <1>12, <1>13, <1>14 DEF Next

LEMMA NoKeyStep == TypeOK /\ RequestInv /\ NoKeyNoEffect /\ [Next]_gatewayVars => NoKeyNoEffect'
  <1> SUFFICES ASSUME TypeOK, RequestInv, NoKeyNoEffect, [Next]_gatewayVars PROVE NoKeyNoEffect'
    OBVIOUS
  <1>0. TypeOK'
    BY TypeStep
  <1> USE NameInNames DEF RequestInv, NoKeyNoEffect, request, counters
  <1>1. ASSUME NEW r \in Requests, Auth(r) PROVE NoKeyNoEffect'
    BY <1>0, <1>1, Layer DEF TypeOK, Auth, At, CallNext, Respond, Goto
  <1>2. ASSUME NEW r \in Requests, Limiter(r) PROVE NoKeyNoEffect'
    BY <1>0, <1>2, Layer DEF TypeOK, Limiter, At, CallNext, Goto
  <1>3. ASSUME NEW r \in Requests, Hit(r) PROVE NoKeyNoEffect'
    BY <1>0, <1>3 DEF TypeOK, Hit, Incremented, SetsTTL, Goto
  <1>4. ASSUME NEW r \in Requests, Expire(r) PROVE NoKeyNoEffect'
    BY <1>0, <1>4 DEF TypeOK, Expire, Expiry, Goto
  <1>5. ASSUME NEW r \in Requests, Decide(r) PROVE NoKeyNoEffect'
    BY <1>0, <1>5 DEF TypeOK, Decide, Allowed, CallNext, Respond, Goto
  <1>6. ASSUME NEW r \in Requests, RedisFails(r) PROVE NoKeyNoEffect'
    BY <1>0, <1>6 DEF TypeOK, RedisFails, Incremented, Expiry, Leaks, Respond, Goto
  <1>7. ASSUME NEW r \in Requests, Route(r) PROVE NoKeyNoEffect'
    BY <1>0, <1>7, Layer DEF TypeOK, Route, At, Respond, Goto
  <1>8. ASSUME NEW r \in Requests, Commit(r) PROVE NoKeyNoEffect'
    BY <1>0, <1>8 DEF TypeOK, Commit, WithCommit, Respond, Goto
  <1>9. ASSUME NEW r \in Requests, Penalize(r) PROVE NoKeyNoEffect'
    BY <1>0, <1>9 DEF TypeOK, Penalize, Respond, Goto
  <1>10. ASSUME NEW r \in Requests, PodDies(r) PROVE NoKeyNoEffect'
    BY <1>0, <1>10 DEF TypeOK, PodDies, Respond, Goto
  <1>11. ASSUME NEW n \in Names, CounterExpires(n) PROVE NoKeyNoEffect'
    BY <1>0, <1>11 DEF TypeOK, CounterExpires
  <1>12. ASSUME NEW i \in Items, RefreshItemScore(i) \/ ScoreExpires(i) PROVE NoKeyNoEffect'
    BY <1>0, <1>12 DEF TypeOK, RefreshItemScore, ScoreExpires
  <1>13. CASE Tick
    BY <1>0, <1>13 DEF TypeOK, Tick
  <1>14. CASE UNCHANGED gatewayVars
    BY <1>14 DEF gatewayVars
  <1>15. QED
    BY <1>1, <1>2, <1>3, <1>4, <1>5, <1>6, <1>7, <1>8, <1>9, <1>10, <1>11, <1>12, <1>13, <1>14 DEF Next

LEMMA PenaltyStep == TypeOK /\ RequestInv /\ PenaltyFollowsRow /\ [Next]_gatewayVars => PenaltyFollowsRow'
  <1> SUFFICES ASSUME TypeOK, RequestInv, PenaltyFollowsRow, [Next]_gatewayVars PROVE PenaltyFollowsRow'
    OBVIOUS
  <1>0. TypeOK'
    BY TypeStep
  <1> USE NameInNames DEF RequestInv, PenaltyFollowsRow, request, counters
  <1>1. ASSUME NEW r \in Requests, Auth(r) PROVE PenaltyFollowsRow'
    BY <1>0, <1>1, Layer DEF TypeOK, Auth, At, CallNext, Respond, Goto
  <1>2. ASSUME NEW r \in Requests, Limiter(r) PROVE PenaltyFollowsRow'
    BY <1>0, <1>2, Layer DEF TypeOK, Limiter, At, CallNext, Goto
  <1>3. ASSUME NEW r \in Requests, Hit(r) PROVE PenaltyFollowsRow'
    BY <1>0, <1>3 DEF TypeOK, Hit, Incremented, SetsTTL, Goto
  <1>4. ASSUME NEW r \in Requests, Expire(r) PROVE PenaltyFollowsRow'
    BY <1>0, <1>4 DEF TypeOK, Expire, Expiry, Goto
  <1>5. ASSUME NEW r \in Requests, Decide(r) PROVE PenaltyFollowsRow'
    BY <1>0, <1>5 DEF TypeOK, Decide, Allowed, CallNext, Respond, Goto
  <1>6. ASSUME NEW r \in Requests, RedisFails(r) PROVE PenaltyFollowsRow'
    BY <1>0, <1>6 DEF TypeOK, RedisFails, Incremented, Expiry, Leaks, Respond, Goto
  <1>7. ASSUME NEW r \in Requests, Route(r) PROVE PenaltyFollowsRow'
    BY <1>0, <1>7, Layer DEF TypeOK, Route, At, Respond, Goto
  <1>8. ASSUME NEW r \in Requests, Commit(r) PROVE PenaltyFollowsRow'
    BY <1>0, <1>8 DEF TypeOK, Commit, WithCommit, Respond, Goto
  <1>9. ASSUME NEW r \in Requests, Penalize(r) PROVE PenaltyFollowsRow'
    BY <1>0, <1>9 DEF TypeOK, Penalize, Respond, Goto
  <1>10. ASSUME NEW r \in Requests, PodDies(r) PROVE PenaltyFollowsRow'
    BY <1>0, <1>10 DEF TypeOK, PodDies, Respond, Goto
  <1>11. ASSUME NEW n \in Names, CounterExpires(n) PROVE PenaltyFollowsRow'
    BY <1>0, <1>11 DEF TypeOK, CounterExpires
  <1>12. ASSUME NEW i \in Items, RefreshItemScore(i) \/ ScoreExpires(i) PROVE PenaltyFollowsRow'
    BY <1>0, <1>12 DEF TypeOK, RefreshItemScore, ScoreExpires
  <1>13. CASE Tick
    BY <1>0, <1>13 DEF TypeOK, Tick
  <1>14. CASE UNCHANGED gatewayVars
    BY <1>14 DEF gatewayVars
  <1>15. QED
    BY <1>1, <1>2, <1>3, <1>4, <1>5, <1>6, <1>7, <1>8, <1>9, <1>10, <1>11, <1>12, <1>13, <1>14 DEF Next

\* The inductive invariant: where each request is, what the counters know of it, and the
\* properties themselves.
THEOREM GatewayInvariant == Spec => []GInv
  <1>1. Init => GInv
    BY InitGInv
  <1>2. GInv /\ [Next]_gatewayVars => GInv'
    BY TypeStep, RequestStep, TimelyStep, DistinctStep, TTLStep, LeakStep, NoKeyStep, PenaltyStep
       DEF GInv
  <1>3. QED
    BY <1>1, <1>2, PTL DEF Spec

-----------------------------------------------------------------------------

\* Those who pass inside one window hold different numbers of 1..Limit.
LEMMA PassesFitTheLimit == GInv => TimelyPassesBounded
  <1> SUFFICES ASSUME GInv, NEW n \in Names
               PROVE  Cardinality({r \in timely : Name(r) = n /\ Passed(r)}) <= Limit
    BY DEF TimelyPassesBounded
  <1> DEFINE P == {r \in timely : Name(r) = n /\ Passed(r)}
             f == [r \in P |-> hit[r]]
  <1>1. \A r \in P : r \in Requests /\ hit[r] \in 1..Limit
    BY DEF GInv, TypeOK, RequestInv
  <1>2. \A r, s \in P : hit[r] = hit[s] => r = s
    BY <1>1 DEF GInv, DistinctHits
  <1>3. f \in Injection(P, 1..Limit)
    BY <1>1, <1>2 DEF Injection, IsInjective
  <1>4. IsFiniteSet(1..Limit) /\ Cardinality(1..Limit) = Limit
    BY FS_Interval
  <1>5. Cardinality(P) <= Cardinality(1..Limit)
    BY <1>3, <1>4, FS_Injection
  <1>6. QED
    BY <1>4, <1>5

\* The type invariant.
THEOREM GatewayTypeCorrect == Spec => []TypeOK
  BY GatewayInvariant, PTL DEF GInv

\* The rate limit holds for what is counted in time: rate_limit_hit with its races.
THEOREM LimitHolds == Spec => []TimelyPassesBounded
  BY GatewayInvariant, PassesFitTheLimit, PTL

\* A counter loses its TTL only by a crash or an error between INCR and EXPIRE.
THEOREM LeaksNeedFaults == Spec => []OnlyCrashLeaksKeys
  BY GatewayInvariant, PTL DEF GInv

\* Without a valid key a request counts nowhere and writes nothing.
THEOREM AuthGuardsAll == Spec => []NoKeyNoEffect
  BY GatewayInvariant, PTL DEF GInv

\* Behind every penalty there is a committed report.
THEOREM PenaltyHasReport == Spec => []PenaltyFollowsRow
  BY GatewayInvariant, PTL DEF GInv
====

---- MODULE Feed ----
(***************************************************************************)
(* GET /feed/{user_id} (nexusfeed/api/routers/feed.py): how the candidates *)
(* of CandidateGenerator.retrieve become the ranked feed, through Ranker,  *)
(* Reranker.apply with its seen-item penalty and category cap, and         *)
(* EpsilonGreedyBandit.inject_exploration_slots.  The handler awaits Redis *)
(* between the stages, so what it reads there (the trending list, the      *)
(* items the user has just seen) may be anything by then.                  *)
(*                                                                         *)
(* get_feed passes no creation times, categories or embeddings to          *)
(* Reranker.apply and no forced exploration items to retrieve: the         *)
(* freshness boost, MMR and forced exploration are not reached, and every  *)
(* item is of the category "unknown".                                      *)
(*                                                                         *)
(*   stage       what the handler does next                                *)
(*   n           the query parameter n                                     *)
(*   score       the score of each item: the ranking model's, or without a *)
(*               model the similarity from the index                       *)
(*   candidates  candidate_ids, in the order of retrieval                  *)
(*   ranked      ranked                                                    *)
(*   seen        seen_items                                                *)
(*   final       final_items                                               *)
(*   result      inject_exploration_slots: its result so far,              *)
(*   available   the candidates it may still draw,                         *)
(*   draws       and how many draws are left                               *)
(*   served      the items of the response, best first                     *)
(***************************************************************************)
EXTENDS Integers, Sequences, FiniteSets, SequencesExt

CONSTANTS
    Items,
    Scores,          \* what a score may be
    AnnResults,      \* what the index may answer: sequences of different items
    TrendingLists,   \* what trending:global may hold
    Sizes,           \* values of n that clients send
    Unknown,         \* the category of an item without one
    CapPercent,      \* max_category_fraction
    SlotPercent      \* settings.bandit_epsilon

ASSUME FeedAssumption ==
    /\ Scores \subseteq Int /\ Sizes \subseteq Int
    /\ AnnResults \cup TrendingLists \subseteq Seq(Items)
    /\ \A s \in AnnResults \cup TrendingLists : IsInjective(s)
    /\ CapPercent \in 0..100 /\ SlotPercent \in 0..100

VARIABLES stage, n, score, candidates, ranked, seen, final, result, available, draws, served

request == <<n, score>>
exploring == <<result, available, draws>>
vars == <<stage, request, candidates, ranked, seen, final, exploring, served>>

Init ==
    /\ stage = "retrieve"
    /\ n \in Sizes
    /\ score \in [Items -> Scores]
    /\ candidates = <<>> /\ ranked = <<>> /\ final = <<>> /\ result = <<>> /\ served = <<>>
    /\ seen = {} /\ available = {}
    /\ draws = 0

Step(from, to) == stage = from /\ stage' = to

-----------------------------------------------------------------------------
(* The algorithms *)

\* The members of a finite set in the order that R, a set of pairs, puts them in.
Ordered(S, R) ==
    [k \in 1..Cardinality(S) |->
        CHOOSE x \in S : Cardinality({y \in S : <<y, x>> \in R}) = k - 1]

\* The entries of s at the given places.
At(s, places) ==
    LET order == Ordered(places, {x \in places \X places : x[1] < x[2]})
    IN  [k \in 1..Cardinality(places) |-> s[order[k]]]

\* retrieve: trending items that the index did not find come last.
Retrieved(found, trending) ==
    found \o At(trending, {k \in DOMAIN trending : trending[k] \notin ToSet(found)})

\* Mutant: reverse=True is missing.
MutAbove(s, key) ==
    LET places == DOMAIN s
    IN  {x \in places \X places :
            \/ key[s[x[1]]] < key[s[x[2]]]
            \/ key[s[x[1]]] = key[s[x[2]]] /\ x[1] < x[2]}

\* sorted(..., key=..., reverse=True) puts a place above another if its key is larger; it is
\* stable, so for equal keys if it comes first.
Above(s, key) ==
    LET places == DOMAIN s
    IN  {x \in places \X places :
            \/ key[s[x[1]]] > key[s[x[2]]]
            \/ key[s[x[1]]] = key[s[x[2]]] /\ x[1] < x[2]}

Descending(s, key) ==
    LET order == Ordered(DOMAIN s, Above(s, key))
    IN  [k \in DOMAIN s |-> s[order[k]]]

\* Mutant: the penalty is added to the score, not multiplied with it: a fixed
\* bonus for an item the user has seen.
MutAdjusted(seenItems) == [i \in Items |-> IF i \in seenItems THEN 2 * score[i] + 3 ELSE 2 * score[i]]

\* Twice the score after SEEN_ITEM_PENALTY = 0.5.
Adjusted(seenItems) == [i \in Items |-> IF i \in seenItems THEN score[i] ELSE 2 * score[i]]

Largest(a, b) == IF a > b THEN a ELSE b

Category(i) == Unknown

\* category_exposure_cap: what exceeds the cap of its category moves to the end.
Capped(s) ==
    LET max == Largest(1, (Len(s) * CapPercent) \div 100)
        Earlier(k) == {m \in 1..(k - 1) : Category(s[m]) = Category(s[k])}
        within == {k \in DOMAIN s : Cardinality(Earlier(k)) < max}
    IN  At(s, within) \o At(s, DOMAIN s \ within)

\* s[:m], which for a negative m leaves out the last items.
Cut(s, m) ==
    IF m >= 0 THEN SubSeq(s, 1, IF m < Len(s) THEN m ELSE Len(s))
    ELSE SubSeq(s, 1, Len(s) + m)

Slots(len) == IF len = 0 THEN 0 ELSE Largest(1, (len * SlotPercent) \div 100)

-----------------------------------------------------------------------------
(* The stages of get_feed *)

Retrieve ==
    /\ Step("retrieve", "rank")
    /\ \E found \in AnnResults, trending \in TrendingLists :
         candidates' = Retrieved(found, trending)
    /\ UNCHANGED <<request, ranked, seen, final, exploring, served>>

\* With a model the candidates are sorted here, without one they keep their order.
Rank ==
    /\ Step("rank", "rerank")
    /\ ranked' \in {Descending(candidates, score), candidates}
    /\ UNCHANGED <<request, candidates, seen, final, exploring, served>>

Rerank ==
    /\ Step("rerank", "inject")
    /\ \E items \in SUBSET Items :
         /\ seen' = items
         /\ final' = Cut(Capped(Descending(ranked, Adjusted(items))), n)
    /\ UNCHANGED <<request, candidates, ranked, exploring, served>>

Inject ==
    LET pool == ToSet(candidates) \ ToSet(final)
        slots == Slots(Len(final))
    IN  /\ Step("inject", "explore")
        /\ result' = final
        /\ available' = pool
        /\ draws' = IF slots < Cardinality(pool) THEN slots ELSE Cardinality(pool)
        /\ UNCHANGED <<request, candidates, ranked, seen, final, served>>

\* Mutant: each slot replaces the next item from the top.
MutExplore ==
    /\ stage = "explore" /\ draws > 0
    /\ \E slot \in available :
         /\ result' = [result EXCEPT ![draws] = slot]
         /\ available' = available \ {slot}
    /\ draws' = draws - 1
    /\ UNCHANGED <<stage, request, candidates, ranked, seen, final, served>>

\* The arms have no rewards, so every draw is uniform over what is available.
Explore ==
    /\ stage = "explore" /\ draws > 0
    /\ \E slot \in available :
         /\ result' = [result EXCEPT ![Len(result)] = slot]
         /\ available' = available \ {slot}
    /\ draws' = draws - 1
    /\ UNCHANGED <<stage, request, candidates, ranked, seen, final, served>>

Explored ==
    /\ draws = 0
    /\ Step("explore", "respond")
    /\ UNCHANGED <<request, candidates, ranked, seen, final, exploring, served>>

\* The response keeps what by_id knows: the items of final.
Respond ==
    /\ Step("respond", "done")
    /\ served' = At(result, {k \in DOMAIN result : result[k] \in ToSet(final)})
    /\ UNCHANGED <<request, candidates, ranked, seen, final, exploring>>

\* IndexNotReadyError, or Redis failing in an await before the bandit: a 500.
Fail ==
    /\ stage \in {"retrieve", "rank", "rerank"}
    /\ stage' = "failed"
    /\ UNCHANGED <<request, candidates, ranked, seen, final, exploring, served>>

Next == Fail \/ Retrieve \/ Rank \/ Rerank \/ Inject \/ Explore \/ Explored \/ Respond

Spec == Init /\ [][Next]_vars

-----------------------------------------------------------------------------
(* Properties *)

Done == stage = "done"

\* The feed shows the best candidates in the best order: no item twice, no served item
\* below a worse one, and no candidate left out that beats a served one.
ServesTheBest ==
    Done =>
        /\ IsInjective(served)
        /\ ToSet(served) \subseteq ToSet(candidates)
        /\ \A k \in DOMAIN served : \A m \in 1..k :
             Adjusted(seen)[served[m]] >= Adjusted(seen)[served[k]]
        /\ \A i \in ToSet(candidates) \ ToSet(served) : \A k \in DOMAIN served :
             Adjusted(seen)[served[k]] >= Adjusted(seen)[i]

\* Exploration takes no more than the last slot from the feed: every draw finds a candidate,
\* and whatever they find, at most one item less is served than the client asked for and the
\* candidates allow.
FeedAlmostFull ==
    /\ draws <= Cardinality(available)
    /\ Done /\ n >= 0 =>
        LET due == IF n < Len(candidates) THEN n ELSE Len(candidates)
        IN  Len(served) \in {due - 1, due}

\* The penalty of a seen item, as far as multiplying goes: unless its score is negative, it is
\* never served above an unseen candidate that scores higher, or that scores the same and
\* not zero (two zeros, the score trending items get without a model, stay as ranked).
SeenNeverLifted ==
    Done =>
        \A k \in DOMAIN served : served[k] \in seen /\ score[served[k]] >= 0 =>
            \A i \in ToSet(candidates) \ seen :
                \/ score[i] > score[served[k]]
                \/ score[i] = score[served[k]] /\ score[i] > 0
                => \E m \in 1..k : served[m] = i

====

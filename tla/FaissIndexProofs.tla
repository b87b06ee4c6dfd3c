---- MODULE FaissIndexProofs ----
(***************************************************************************)
(* Proofs about FaissIndex for any threads, processes and generations.     *)
(* The inductive invariant says, for each call that is under way and that  *)
(* nothing overlapped, that the half it has in hand still agrees with the  *)
(* place it was read from; the other half then belongs to it.              *)
(***************************************************************************)
EXTENDS FaissIndex, TLAPS

\* A swap: the lock keeps the index that was set beside the id list that comes next.
SwapOK(t) ==
    /\ pc[t] \in {"acquire", "setIndex", "setIds"} =>
         /\ local[t].index # None
         /\ ~overlapped[t] => local[t].ids = local[t].index
    /\ pc[t] = "setIds" => index[Owner[t]] = local[t].index
    /\ pc[t] = "release" => index[Owner[t]] # None

\* A load between its two files.
LoadOK(t) ==
    pc[t] = "idsFile" =>
        /\ local[t].index # None
        /\ ~overlapped[t] => intact /\ local[t].index = indexFile

\* A save between its two files.
SaveOK(t) ==
    pc[t] = "saveIds" /\ ~overlapped[t] =>
        /\ sound[Owner[t]]
        /\ index[Owner[t]] # None
        /\ indexFile = index[Owner[t]]

\* A search: after the first read, after the second, and when it has answered.
SearchOK(t) ==
    /\ pc[t] = "idMap" /\ ~overlapped[t] =>
         sound[Owner[t]] /\ local[t].index = index[Owner[t]]
    /\ pc[t] = "query" /\ ~overlapped[t] /\ local[t].index # None =>
         local[t].ids = local[t].index
    /\ answer[t] # {} => pc[t] = "idle"

Calm == \A t \in Threads : SwapOK(t) /\ LoadOK(t) /\ SaveOK(t) /\ SearchOK(t)

Inv == TypeOK /\ Calm /\ SwapsKeepPairs /\ CleanSaveRepairs /\ QuietSearchIsExact

\* Whoever is inside the swap of a process is alone there.
LEMMA SwapAlone ==
    ASSUME TypeOK, NEW t \in Threads, NEW u \in Threads,
           pc[t] \in Swap, pc[u] \in Swap, Owner[t] = Owner[u]
    PROVE  t = u
  BY DEF TypeOK

LEMMA InitInv == Init => Inv
  BY FaissAssumption
  DEF Init, Inv, TypeOK, Calm, SwapOK, LoadOK, SaveOK, SearchOK, SwapsKeepPairs,
      CleanSaveRepairs, QuietSearchIsExact, Refs, NoRefs, Swap

\* What search() finds among the items of the generation that both references name.
LEMMA FoundExact ==
    ASSUME NEW g \in Gens, NEW hits \in SUBSET Positions(g)
    PROVE  Found([index |-> g, ids |-> g], hits) \subseteq Generation(g)
<1>1. \A n \in hits : ItemAt(g, n) = Content[g][n]
  BY FaissAssumption DEF ItemAt
<1>2. {ItemAt(g, n) : n \in hits} \subseteq Generation(g)
  BY <1>1 DEF Generation
<1> QED BY <1>2 DEF Found

LEMMA FoundType ==
    ASSUME NEW refs \in Refs, refs.index \in Gens, NEW hits \in SUBSET Positions(refs.index)
    PROVE  Found(refs, hits) \subseteq Items \cup {OutOfRange}
<1>1. ASSUME NEW n \in hits
      PROVE  ItemAt(refs.ids, n) \in Items \cup {OutOfRange}
  <2>1. CASE refs.ids # EmptyIds /\ n \in Positions(refs.ids)
    <3>1. Content[refs.ids] \in Seq(Items)
      BY <2>1, FaissAssumption DEF Refs
    <3>2. Content[refs.ids][n] \in Items
      BY <2>1, <3>1 DEF Positions
    <3> QED BY <2>1, <3>2 DEF ItemAt
  <2>2. CASE ~(refs.ids # EmptyIds /\ n \in Positions(refs.ids))
    BY <2>2 DEF ItemAt
  <2> QED BY <2>1, <2>2
<1> QED BY <1>1 DEF Found

\* A step that keeps what an answered search found keeps QuietSearchIsExact.
LEMMA AnswersStay ==
    ASSUME QuietSearchIsExact,
           \A u \in Threads : answer'[u] # {} =>
               /\ answer'[u] = answer[u] /\ local'[u].index = local[u].index
               /\ overlapped[u] => overlapped'[u]
    PROVE  QuietSearchIsExact'
  BY DEF QuietSearchIsExact

LEMMA SearchReads ==
    ASSUME Inv, NEW t \in Threads, ReadIndex(t) \/ ReadIdMap(t)
    PROVE  Inv'
<1> USE FaissAssumption DEF Step, Call, memory, files
<1>0. Owner[t] \in Processes /\ TypeOK
  BY DEF Inv
<1>1. CASE ReadIndex(t)
  <2>1. TypeOK'
    BY <1>0, <1>1 DEF ReadIndex, TypeOK, Refs, NoRefs, Swap
  <2>2. ASSUME NEW u \in Threads, u # t
        PROVE  (SwapOK(u) /\ LoadOK(u) /\ SaveOK(u) /\ SearchOK(u))'
    BY <1>0, <1>1, <2>2, SwapAlone
    DEF ReadIndex, Inv, TypeOK, Calm, SwapOK, LoadOK, SaveOK, SearchOK, Swap, Overlap, Sharers
  <2>3. (SwapOK(t) /\ LoadOK(t) /\ SaveOK(t) /\ SearchOK(t))'
    <3>1. overlapped'[t] = ~sound[Owner[t]] /\ local'[t].index = index[Owner[t]]
      BY <1>0, <1>1 DEF ReadIndex, TypeOK
    <3>2. pc'[t] = "idMap" /\ answer'[t] = {} /\ sound' = sound /\ index' = index
      BY <1>0, <1>1 DEF ReadIndex, TypeOK
    <3> QED BY <3>1, <3>2 DEF SwapOK, LoadOK, SaveOK, SearchOK
  <2>4. SwapsKeepPairs' /\ CleanSaveRepairs'
    BY <1>0, <1>1
    DEF ReadIndex, Inv, TypeOK, Calm, SwapOK, SaveOK, SwapsKeepPairs, CleanSaveRepairs, Swap
  <2>5. QuietSearchIsExact'
    BY <1>0, <1>1, AnswersStay DEF ReadIndex, Inv, TypeOK, Calm, SearchOK, Overlap
  <2> QED BY <2>1, <2>2, <2>3, <2>4, <2>5 DEF Inv, Calm
<1>2. CASE ReadIdMap(t)
  <2>1. TypeOK'
    <3>1. [local[t] EXCEPT !.ids = ids[Owner[t]]] \in Refs
      <4>1. local[t] \in Refs /\ ids[Owner[t]] \in Gens \cup {EmptyIds}
        BY <1>0 DEF TypeOK
      <4> QED BY <4>1 DEF Refs
    <3>2. local' \in [Threads -> Refs]
      BY <1>0, <1>2, <3>1 DEF ReadIdMap, TypeOK
    <3> QED BY <1>0, <1>2, <3>2 DEF ReadIdMap, TypeOK, Swap
  <2>2. ASSUME NEW u \in Threads, u # t
        PROVE  (SwapOK(u) /\ LoadOK(u) /\ SaveOK(u) /\ SearchOK(u))'
    BY <1>0, <1>2, <2>2, SwapAlone
    DEF ReadIdMap, Inv, TypeOK, Calm, SwapOK, LoadOK, SaveOK, SearchOK, Swap, Overlap, Sharers
  <2>3. (SwapOK(t) /\ LoadOK(t) /\ SaveOK(t) /\ SearchOK(t))'
    BY <1>0, <1>2
    DEF ReadIdMap, Inv, TypeOK, Calm, SwapOK, LoadOK, SaveOK, SearchOK, Swap, Overlap, Sharers, Refs,
        SwapsKeepPairs, CleanSaveRepairs
  <2>4. SwapsKeepPairs' /\ CleanSaveRepairs'
    BY <1>0, <1>2
    DEF ReadIdMap, Inv, TypeOK, Calm, SwapOK, SaveOK, SwapsKeepPairs, CleanSaveRepairs, Swap
  <2>5. QuietSearchIsExact'
    BY <1>0, <1>2, AnswersStay DEF ReadIdMap, Inv, TypeOK, Calm, SearchOK, Overlap
  <2> QED BY <2>1, <2>2, <2>3, <2>4, <2>5 DEF Inv, Calm
<1> QED BY <1>1, <1>2

LEMMA ReplaceStep ==
    ASSUME Inv, NEW t \in Threads, Replace(t)
    PROVE  Inv'
<1> USE FaissAssumption DEF Step, Call, memory, files
<1>0. Owner[t] \in Processes /\ TypeOK
  BY DEF Inv
<1>1. CASE \E g \in Gens : Build(t, g)
  <2>1. TypeOK'
    BY <1>0, <1>1 DEF Build, TypeOK, Refs, NoRefs, Swap
  <2>2. ASSUME NEW u \in Threads, u # t
        PROVE  (SwapOK(u) /\ LoadOK(u) /\ SaveOK(u) /\ SearchOK(u))'
    BY <1>0, <1>1, <2>2, SwapAlone
    DEF Build, Inv, TypeOK, Calm, SwapOK, LoadOK, SaveOK, SearchOK, Swap, Overlap, Sharers
  <2>3. (SwapOK(t) /\ LoadOK(t) /\ SaveOK(t) /\ SearchOK(t))'
    BY <1>0, <1>1
    DEF Build, Inv, TypeOK, Calm, SwapOK, LoadOK, SaveOK, SearchOK, Swap, Overlap, Sharers, Refs,
        SwapsKeepPairs, CleanSaveRepairs
  <2>4. SwapsKeepPairs' /\ CleanSaveRepairs'
    BY <1>0, <1>1
    DEF Build, Inv, TypeOK, Calm, SwapOK, SaveOK, SwapsKeepPairs, CleanSaveRepairs, Swap
  <2>5. QuietSearchIsExact'
    BY <1>0, <1>1, AnswersStay DEF Build, Inv, TypeOK, Calm, SearchOK, Overlap
  <2> QED BY <2>1, <2>2, <2>3, <2>4, <2>5 DEF Inv, Calm
<1>2. CASE LoadIndexFile(t)
  <2>1. TypeOK'
    BY <1>0, <1>2 DEF LoadIndexFile, TypeOK, Refs, NoRefs, Swap
  <2>2. ASSUME NEW u \in Threads, u # t
        PROVE  (SwapOK(u) /\ LoadOK(u) /\ SaveOK(u) /\ SearchOK(u))'
    BY <1>0, <1>2, <2>2, SwapAlone
    DEF LoadIndexFile, Inv, TypeOK, Calm, SwapOK, LoadOK, SaveOK, SearchOK, Swap, Overlap, Sharers
  <2>3. (SwapOK(t) /\ LoadOK(t) /\ SaveOK(t) /\ SearchOK(t))'
    <3>1. overlapped'[t] = ~intact /\ local'[t].index = indexFile /\ indexFile # None
      BY <1>0, <1>2 DEF LoadIndexFile, TypeOK
    <3>2. /\ pc'[t] = "idsFile" /\ answer'[t] = {}
          /\ intact' = intact /\ indexFile' = indexFile
      BY <1>0, <1>2 DEF LoadIndexFile, TypeOK
    <3> QED BY <3>1, <3>2 DEF SwapOK, LoadOK, SaveOK, SearchOK
  <2>4. SwapsKeepPairs' /\ CleanSaveRepairs'
    BY <1>0, <1>2
    DEF LoadIndexFile, Inv, TypeOK, Calm, SwapOK, SaveOK, SwapsKeepPairs, CleanSaveRepairs, Swap
  <2>5. QuietSearchIsExact'
    BY <1>0, <1>2, AnswersStay DEF LoadIndexFile, Inv, TypeOK, Calm, SearchOK, Overlap
  <2> QED BY <2>1, <2>2, <2>3, <2>4, <2>5 DEF Inv, Calm
<1>3. CASE LoadIdsFile(t)
  <2>1. TypeOK'
    <3> DEFINE new == IF idsFile = None THEN EmptyIds ELSE idsFile
    <3>1. local[t] \in Refs /\ new \in Gens \cup {EmptyIds}
      BY <1>0 DEF TypeOK
    <3>2. [local[t] EXCEPT !.ids = new] \in Refs
      BY <3>1 DEF Refs
    <3>3. local' = [local EXCEPT ![t] = [local[t] EXCEPT !.ids = new]]
      BY <1>0, <1>3 DEF LoadIdsFile, TypeOK
    <3> HIDE DEF new
    <3>4. local' \in [Threads -> Refs]
      BY <1>0, <3>2, <3>3 DEF TypeOK
    <3> QED BY <1>0, <1>3, <3>4 DEF LoadIdsFile, TypeOK, Swap
  <2>2. ASSUME NEW u \in Threads, u # t
        PROVE  (SwapOK(u) /\ LoadOK(u) /\ SaveOK(u) /\ SearchOK(u))'
    BY <1>0, <1>3, <2>2, SwapAlone
    DEF LoadIdsFile, Inv, TypeOK, Calm, SwapOK, LoadOK, SaveOK, SearchOK, Swap, Overlap, Sharers
  <2>3. (SwapOK(t) /\ LoadOK(t) /\ SaveOK(t) /\ SearchOK(t))'
    BY <1>0, <1>3
    DEF LoadIdsFile, Inv, TypeOK, Calm, SwapOK, LoadOK, SaveOK, SearchOK, Swap, Overlap, Sharers, Refs,
        SwapsKeepPairs, CleanSaveRepairs
  <2>4. SwapsKeepPairs' /\ CleanSaveRepairs'
    BY <1>0, <1>3
    DEF LoadIdsFile, Inv, TypeOK, Calm, SwapOK, SaveOK, SwapsKeepPairs, CleanSaveRepairs, Swap
  <2>5. QuietSearchIsExact'
    BY <1>0, <1>3, AnswersStay DEF LoadIdsFile, Inv, TypeOK, Calm, SearchOK, Overlap
  <2> QED BY <2>1, <2>2, <2>3, <2>4, <2>5 DEF Inv, Calm
<1>4. CASE Acquire(t)
  <2>1. TypeOK'
    BY <1>0, <1>4 DEF Acquire, TypeOK, Refs, NoRefs, Swap
  <2>2. ASSUME NEW u \in Threads, u # t
        PROVE  (SwapOK(u) /\ LoadOK(u) /\ SaveOK(u) /\ SearchOK(u))'
    BY <1>0, <1>4, <2>2, SwapAlone
    DEF Acquire, Inv, TypeOK, Calm, SwapOK, LoadOK, SaveOK, SearchOK, Swap, Overlap, Sharers
  <2>3. (SwapOK(t) /\ LoadOK(t) /\ SaveOK(t) /\ SearchOK(t))'
    <3>1. /\ pc[t] = "acquire" /\ pc'[t] = "setIndex"
          /\ UNCHANGED <<local, overlapped, answer>>
      BY <1>4 DEF Acquire, Step, TypeOK, Inv
    <3>2. SwapOK(t) /\ SearchOK(t)
      BY DEF Inv, Calm
    <3> QED BY <3>1, <3>2 DEF SwapOK, LoadOK, SaveOK, SearchOK
  <2>4. SwapsKeepPairs' /\ CleanSaveRepairs'
    BY <1>0, <1>4
    DEF Acquire, Inv, TypeOK, Calm, SwapOK, SaveOK, SwapsKeepPairs, CleanSaveRepairs, Swap
  <2>5. QuietSearchIsExact'
    BY <1>0, <1>4, AnswersStay DEF Acquire, Inv, TypeOK, Calm, SearchOK, Overlap
  <2> QED BY <2>1, <2>2, <2>3, <2>4, <2>5 DEF Inv, Calm
<1>5. CASE SetIndex(t)
  <2>1. TypeOK'
    <3>1. overlapped' \in [Threads -> BOOLEAN]
      BY <1>5 DEF SetIndex, Overlap
    <3> QED BY <1>0, <1>5, <3>1 DEF SetIndex, TypeOK, Refs, Swap
  <2>2. ASSUME NEW u \in Threads, u # t
        PROVE  (SwapOK(u) /\ LoadOK(u) /\ SaveOK(u) /\ SearchOK(u))'
    BY <1>0, <1>5, <2>2, SwapAlone
    DEF SetIndex, Inv, TypeOK, Calm, SwapOK, LoadOK, SaveOK, SearchOK, Swap, Overlap, Sharers
  <2>3. (SwapOK(t) /\ LoadOK(t) /\ SaveOK(t) /\ SearchOK(t))'
    <3>1. overlapped[t] => overlapped'[t]
      BY <1>5 DEF SetIndex, Overlap
    <3>2. overlapped'[t] => overlapped[t]
      BY <1>5 DEF SetIndex, Overlap, Sharers
    <3>3. /\ pc[t] = "setIndex" /\ pc'[t] = "setIds"
          /\ index'[Owner[t]] = local[t].index
          /\ local' = local /\ answer' = answer
      BY <1>0, <1>5 DEF SetIndex, TypeOK
    <3> QED BY <3>1, <3>2, <3>3 DEF Inv, Calm, SwapOK, LoadOK, SaveOK, SearchOK
  <2>4. SwapsKeepPairs' /\ CleanSaveRepairs'
    BY <1>0, <1>5
    DEF SetIndex, Inv, TypeOK, Calm, SwapOK, SaveOK, SwapsKeepPairs, CleanSaveRepairs, Swap
  <2>5. QuietSearchIsExact'
    BY <1>0, <1>5, AnswersStay DEF SetIndex, Inv, TypeOK, Calm, SearchOK, Overlap
  <2> QED BY <2>1, <2>2, <2>3, <2>4, <2>5 DEF Inv, Calm
<1>6. CASE SetIds(t)
  <2>1. TypeOK'
    <3>1. overlapped' \in [Threads -> BOOLEAN]
      BY <1>6 DEF SetIds, Overlap
    <3>2. /\ pc[t] = "setIds" /\ pc' = [pc EXCEPT ![t] = "release"]
          /\ ids' = [ids EXCEPT ![Owner[t]] = local[t].ids]
          /\ sound' = [sound EXCEPT ![Owner[t]] = ~overlapped[t]]
          /\ UNCHANGED <<index, lock, indexFile, idsFile, local, answer, intact>>
      BY <1>6 DEF SetIds
    <3>3. local[t].ids \in Gens \cup {EmptyIds}
      BY <1>0 DEF TypeOK, Refs
    <3>4. ids' \in [Processes -> Gens \cup {EmptyIds}] /\ sound' \in [Processes -> BOOLEAN]
      BY <1>0, <3>2, <3>3 DEF TypeOK
    <3> QED BY <1>0, <3>1, <3>2, <3>4 DEF TypeOK, Swap
  <2>2. ASSUME NEW u \in Threads, u # t
        PROVE  (SwapOK(u) /\ LoadOK(u) /\ SaveOK(u) /\ SearchOK(u))'
    BY <1>0, <1>6, <2>2, SwapAlone
    DEF SetIds, Inv, TypeOK, Calm, SwapOK, LoadOK, SaveOK, SearchOK, Swap, Overlap, Sharers
  <2>3. (SwapOK(t) /\ LoadOK(t) /\ SaveOK(t) /\ SearchOK(t))'
    <3>1. overlapped[t] => overlapped'[t]
      BY <1>6 DEF SetIds, Overlap
    <3>2. /\ pc[t] = "setIds" /\ pc'[t] = "release"
          /\ ids'[Owner[t]] = local[t].ids /\ index' = index
          /\ sound'[Owner[t]] = ~overlapped[t]
          /\ local' = local /\ answer' = answer
      BY <1>0, <1>6 DEF SetIds, TypeOK
    <3>3. SwapOK(t) /\ SearchOK(t)
      BY DEF Inv, Calm
    <3>4. index'[Owner[t]] # None
      BY <3>2, <3>3 DEF SwapOK
    <3>5. answer'[t] = {}
      BY <3>2, <3>3 DEF SearchOK
    <3> QED BY <3>1, <3>2, <3>4, <3>5 DEF SwapOK, LoadOK, SaveOK, SearchOK
  <2>4. SwapsKeepPairs' /\ CleanSaveRepairs'
    <3>1. /\ sound'[Owner[t]] = ~overlapped[t] /\ ids'[Owner[t]] = local[t].ids
          /\ \A o \in Processes \ {Owner[t]} : sound'[o] = sound[o] /\ ids'[o] = ids[o]
          /\ pc[t] = "setIds" /\ UNCHANGED <<index, intact, indexFile, idsFile>>
      BY <1>0, <1>6 DEF SetIds, TypeOK
    <3>2. SwapOK(t) /\ SwapsKeepPairs /\ CleanSaveRepairs
      BY DEF Inv, Calm
    <3>3. \A o \in Processes : sound'[o] /\ index'[o] # None => ids'[o] = index'[o]
      BY <3>1, <3>2 DEF SwapOK, SwapsKeepPairs
    <3> QED BY <3>1, <3>2, <3>3 DEF SwapsKeepPairs, CleanSaveRepairs
  <2>5. QuietSearchIsExact'
    BY <1>0, <1>6, AnswersStay DEF SetIds, Inv, TypeOK, Calm, SearchOK, Overlap
  <2> QED BY <2>1, <2>2, <2>3, <2>4, <2>5 DEF Inv, Calm
<1>7. CASE Release(t)
  <2>1. TypeOK'
    BY <1>0, <1>7 DEF Release, TypeOK, Refs, NoRefs, Swap
  <2>2. ASSUME NEW u \in Threads, u # t
        PROVE  (SwapOK(u) /\ LoadOK(u) /\ SaveOK(u) /\ SearchOK(u))'
    BY <1>0, <1>7, <2>2, SwapAlone
    DEF Release, Inv, TypeOK, Calm, SwapOK, LoadOK, SaveOK, SearchOK, Swap, Overlap, Sharers
  <2>3. (SwapOK(t) /\ LoadOK(t) /\ SaveOK(t) /\ SearchOK(t))'
    BY <1>0, <1>7
    DEF Release, Inv, TypeOK, Calm, SwapOK, LoadOK, SaveOK, SearchOK, Swap, Overlap, Sharers, Refs,
        SwapsKeepPairs, CleanSaveRepairs
  <2>4. SwapsKeepPairs' /\ CleanSaveRepairs'
    BY <1>0, <1>7
    DEF Release, Inv, TypeOK, Calm, SwapOK, SaveOK, SwapsKeepPairs, CleanSaveRepairs, Swap
  <2>5. QuietSearchIsExact'
    BY <1>0, <1>7, AnswersStay DEF Release, Inv, TypeOK, Calm, SearchOK, Overlap
  <2> QED BY <2>1, <2>2, <2>3, <2>4, <2>5 DEF Inv, Calm
<1> QED BY <1>1, <1>2, <1>3, <1>4, <1>5, <1>6, <1>7 DEF Replace

LEMMA SaveStep ==
    ASSUME Inv, NEW t \in Threads, Save(t)
    PROVE  Inv'
<1> USE FaissAssumption DEF Step, Call, memory, files
<1>0. Owner[t] \in Processes /\ TypeOK
  BY DEF Inv
<1>1. CASE SaveIndexFile(t)
  <2>1. TypeOK'
    <3>1. overlapped' \in [Threads -> BOOLEAN]
      <4>1. sound[Owner[t]] \in BOOLEAN /\ \A u \in Threads : overlapped[u] \in BOOLEAN
        BY <1>0 DEF TypeOK
      <4> QED BY <1>1, <4>1 DEF SaveIndexFile
    <3>2. /\ index[Owner[t]] # None /\ indexFile' = index[Owner[t]] /\ intact' = FALSE
          /\ pc[t] = "idle" /\ pc' = [pc EXCEPT ![t] = "saveIds"]
          /\ answer' = [answer EXCEPT ![t] = {}]
          /\ UNCHANGED <<index, ids, lock, sound, idsFile, local>>
      BY <1>1 DEF SaveIndexFile
    <3> QED BY <1>0, <3>1, <3>2 DEF TypeOK, Swap
  <2>2. ASSUME NEW u \in Threads, u # t
        PROVE  (SwapOK(u) /\ LoadOK(u) /\ SaveOK(u) /\ SearchOK(u))'
    <3>1. /\ pc'[u] = pc[u] /\ answer'[u] = answer[u] /\ UNCHANGED <<index, local, sound>>
          /\ overlapped[u] => overlapped'[u]
      BY <1>0, <1>1, <2>2 DEF SaveIndexFile, TypeOK, Overlap
    <3>2. SwapOK(u)' /\ SearchOK(u)'
      BY <3>1 DEF Inv, Calm, SwapOK, SearchOK
    <3>3. LoadOK(u)' /\ SaveOK(u)'
      BY <1>0, <1>1, <2>2, <3>1 DEF SaveIndexFile, Inv, TypeOK, Calm, LoadOK, SaveOK, Overlap, Sharers
    <3> QED BY <3>2, <3>3
  <2>3. (SwapOK(t) /\ LoadOK(t) /\ SaveOK(t) /\ SearchOK(t))'
    <3>1. ~overlapped'[t] => sound[Owner[t]]
      BY <1>1 DEF SaveIndexFile
    <3>2. /\ pc'[t] = "saveIds" /\ answer'[t] = {}
          /\ index[Owner[t]] # None /\ indexFile' = index[Owner[t]]
          /\ sound' = sound /\ index' = index
      BY <1>0, <1>1 DEF SaveIndexFile, TypeOK
    <3> QED BY <3>1, <3>2 DEF SwapOK, LoadOK, SaveOK, SearchOK
  <2>4. SwapsKeepPairs' /\ CleanSaveRepairs'
    BY <1>0, <1>1
    DEF SaveIndexFile, Inv, TypeOK, Calm, SwapOK, SaveOK, SwapsKeepPairs, CleanSaveRepairs, Swap
  <2>5. QuietSearchIsExact'
    BY <1>0, <1>1, AnswersStay DEF SaveIndexFile, Inv, TypeOK, Calm, SearchOK, Overlap
  <2> QED BY <2>1, <2>2, <2>3, <2>4, <2>5 DEF Inv, Calm
<1>2. CASE SaveIdsFile(t)
  <2>1. TypeOK'
    <3>1. overlapped' \in [Threads -> BOOLEAN]
      BY <1>2 DEF SaveIdsFile, Overlap
    <3>2. intact' \in BOOLEAN
      BY <1>2 DEF SaveIdsFile
    <3>3. /\ pc[t] = "saveIds" /\ pc' = [pc EXCEPT ![t] = "idle"]
          /\ idsFile' = ids[Owner[t]]
          /\ UNCHANGED <<index, ids, lock, sound, indexFile, local, answer>>
      BY <1>2 DEF SaveIdsFile
    <3> QED BY <1>0, <3>1, <3>2, <3>3 DEF TypeOK, Swap
  <2>2. ASSUME NEW u \in Threads, u # t
        PROVE  (SwapOK(u) /\ LoadOK(u) /\ SaveOK(u) /\ SearchOK(u))'
    BY <1>0, <1>2, <2>2, SwapAlone
    DEF SaveIdsFile, Inv, TypeOK, Calm, SwapOK, LoadOK, SaveOK, SearchOK, Swap, Overlap, Sharers
  <2>3. (SwapOK(t) /\ LoadOK(t) /\ SaveOK(t) /\ SearchOK(t))'
    BY <1>0, <1>2
    DEF SaveIdsFile, Inv, TypeOK, Calm, SwapOK, LoadOK, SaveOK, SearchOK, Swap, Overlap, Sharers, Refs,
        SwapsKeepPairs, CleanSaveRepairs
  <2>4. SwapsKeepPairs' /\ CleanSaveRepairs'
    BY <1>0, <1>2
    DEF SaveIdsFile, Inv, TypeOK, Calm, SwapOK, SaveOK, SwapsKeepPairs, CleanSaveRepairs, Swap
  <2>5. QuietSearchIsExact'
    BY <1>0, <1>2, AnswersStay DEF SaveIdsFile, Inv, TypeOK, Calm, SearchOK, Overlap
  <2> QED BY <2>1, <2>2, <2>3, <2>4, <2>5 DEF Inv, Calm
<1> QED BY <1>1, <1>2 DEF Save

LEMMA QueryStep ==
    ASSUME Inv, NEW t \in Threads, Query(t)
    PROVE  Inv'
<1> USE FaissAssumption
<1> DEFINE i == local[t].index
<1>0. /\ TypeOK /\ local[t] \in Refs
      /\ pc[t] = "query" /\ pc' = [pc EXCEPT ![t] = "idle"]
      /\ UNCHANGED <<index, ids, lock, sound, indexFile, idsFile, intact, local, overlapped>>
  BY DEF Inv, TypeOK, Query, Step, memory, files
<1>1. PICK a : /\ answer' = [answer EXCEPT ![t] = a]
               /\ a \subseteq Items \cup {NotReady, OutOfRange}
               /\ i # None /\ ~overlapped[t] => a \subseteq Generation(i)
  <2>1. CASE i = None
    BY <2>1 DEF Query
  <2>2. CASE i # None
    <3>1. i \in Gens
      BY <1>0, <2>2 DEF Refs
    <3>2. PICK hits \in SUBSET Positions(i) :
                answer' = [answer EXCEPT ![t] = Found(local[t], hits)]
      BY <2>2 DEF Query
    <3>3. Found(local[t], hits) \subseteq Items \cup {OutOfRange}
      BY <1>0, <3>1, FoundType
    <3>4. ASSUME ~overlapped[t]
          PROVE  Found(local[t], hits) \subseteq Generation(i)
      <4>1. local[t].ids = i
        BY <1>0, <2>2, <3>4 DEF Inv, Calm, SearchOK
      <4>2. local[t] = [index |-> i, ids |-> i]
        BY <1>0, <4>1 DEF Refs
      <4>3. Found([index |-> i, ids |-> i], hits) \subseteq Generation(i)
        BY <3>1, FoundExact
      <4> QED BY <4>2, <4>3
    <3> QED BY <3>2, <3>3, <3>4
  <2> QED BY <2>1, <2>2
<1>2. TypeOK'
  <2>1. answer' \in [Threads -> SUBSET (Items \cup {NotReady, OutOfRange})]
    BY <1>0, <1>1 DEF TypeOK
  <2> QED BY <1>0, <2>1 DEF TypeOK, Swap
<1>3. Calm'
  BY <1>0, <1>1 DEF Inv, TypeOK, Calm, SwapOK, LoadOK, SaveOK, SearchOK
<1>4. SwapsKeepPairs' /\ CleanSaveRepairs'
  BY <1>0 DEF Inv, SwapsKeepPairs, CleanSaveRepairs
<1>5. QuietSearchIsExact'
  <2>1. ASSUME NEW u \in Threads, answer'[u] # {}, ~overlapped'[u], local'[u].index # None
        PROVE  answer'[u] \subseteq Generation(local'[u].index)
    <3>1. CASE u = t
      BY <1>0, <1>1, <2>1, <3>1 DEF TypeOK
    <3>2. CASE u # t
      BY <1>0, <1>1, <2>1, <3>2 DEF Inv, TypeOK, QuietSearchIsExact
    <3> QED BY <3>1, <3>2
  <2> QED BY <2>1 DEF QuietSearchIsExact
<1> QED BY <1>2, <1>3, <1>4, <1>5 DEF Inv

LEMMA CrashStep ==
    ASSUME Inv, NEW o \in Processes, Crash(o)
    PROVE  Inv'
<1> USE FaissAssumption DEF files
<1>0. /\ TypeOK
      /\ \A t \in Threads : Owner[t] \in Processes
      /\ \A t \in Threads : Owner[t] = o =>
            /\ pc'[t] = "idle" /\ local'[t] = NoRefs
            /\ answer'[t] = {} /\ ~overlapped'[t]
      /\ \A t \in Threads : Owner[t] # o =>
            /\ pc'[t] = pc[t] /\ local'[t] = local[t]
            /\ answer'[t] = answer[t] /\ (overlapped'[t] <=> overlapped[t])
  BY DEF Inv, Crash
<1>1. /\ \A p \in Processes : p # o =>
            /\ index'[p] = index[p] /\ ids'[p] = ids[p]
            /\ lock'[p] = lock[p] /\ sound'[p] = sound[p]
      /\ index'[o] = None /\ lock'[o] = NoThread
      /\ UNCHANGED files
  BY <1>0 DEF Crash, TypeOK
<1>2. TypeOK'
  <2>1. overlapped' \in [Threads -> BOOLEAN]
    BY DEF Crash
  <2>2. /\ index' \in [Processes -> Gens \cup {None}]
        /\ ids' \in [Processes -> Gens \cup {EmptyIds}]
        /\ lock' \in [Processes -> Threads \cup {NoThread}]
        /\ sound' \in [Processes -> BOOLEAN]
    BY <1>0 DEF Crash, TypeOK
  <2>3. /\ pc' \in [Threads -> {"idle", "idMap", "query", "idsFile", "acquire", "saveIds"}
                                 \cup Swap]
        /\ local' \in [Threads -> Refs]
        /\ answer' \in [Threads -> SUBSET (Items \cup {NotReady, OutOfRange})]
    BY <1>0 DEF Crash, TypeOK, Refs, NoRefs
  <2>4. \A t \in Threads : pc'[t] \in Swap <=> lock'[Owner[t]] = t
    BY <1>0, <1>1 DEF TypeOK, Swap
  <2> QED BY <1>0, <1>1, <2>1, <2>2, <2>3, <2>4 DEF TypeOK
<1>3. Calm'
  BY <1>0, <1>1 DEF Inv, Calm, SwapOK, LoadOK, SaveOK, SearchOK
<1>4. SwapsKeepPairs' /\ CleanSaveRepairs'
  BY <1>1 DEF Inv, SwapsKeepPairs, CleanSaveRepairs
<1>5. QuietSearchIsExact'
  BY <1>0 DEF Inv, QuietSearchIsExact
<1> QED BY <1>2, <1>3, <1>4, <1>5 DEF Inv

\* The inductive invariant holds in every reachable state.
THEOREM FaissInvariant == Spec => []Inv
<1>1. Inv /\ UNCHANGED vars => Inv'
  BY DEF Inv, TypeOK, Calm, SwapOK, LoadOK, SaveOK, SearchOK, SwapsKeepPairs,
         CleanSaveRepairs, QuietSearchIsExact, vars, memory, files
<1>2. Inv /\ [Next]_vars => Inv'
  BY <1>1, SearchReads, QueryStep, ReplaceStep, SaveStep, CrashStep DEF Next, Search
<1> QED BY <1>2, InitInv, PTL DEF Spec

\* The lock of a process is held by exactly the thread that is swapping its index.
THEOREM FaissTypeCorrect == Spec => []TypeOK
  BY FaissInvariant, PTL DEF Inv

\* Swaps never leave one generation's index beside another's id list: with a pair from a
\* build or an undisturbed load, `with self._lock` is enough.
THEOREM SwapsPaired == Spec => []SwapsKeepPairs
  BY FaissInvariant, PTL DEF Inv

\* A save that nothing overlapped leaves two files of one generation.
THEOREM CleanSavePaired == Spec => []CleanSaveRepairs
  BY FaissInvariant, PTL DEF Inv

\* A search that nothing overlapped answers items of one generation only.
THEOREM QuietSearchExact == Spec => []QuietSearchIsExact
  BY FaissInvariant, PTL DEF Inv

====

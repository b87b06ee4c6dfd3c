---- MODULE SeedingProofs ----
(***************************************************************************)
(* What TLAPS proves of the data an installation starts from, for any      *)
(* number of generators, seeders and API processes, and any sizes.         *)
(***************************************************************************)
EXTENDS Seeding, TLAPS

USE SeedingAssumption

Known == committed \cup dropped
Written == interactions \cup lost

RowsNamed == interactions \subseteq committed
IndexNamed == index \subseteq Known
FilesNamed == \A f \in Files : file[f] # None => file[f] \in Written
UsersNamed == \A u \in Users : embedding[u] # None => u[1] \in Written

\* A generator has committed what its step comes after, and a seeder holds what was committed.
StepsNamed ==
    \A g \in Gens :
        /\ step[g] = "interactions" => g \in Known
        /\ step[g] \in Files => g \in Written
SeedersNamed ==
    \A s \in Seeders :
        built[s] \subseteq Known /\ ids[s] \in Written \cup {None} /\ factors[s] \in Written \cup {None}

NamedInv == RowsNamed /\ IndexNamed /\ FilesNamed /\ UsersNamed /\ StepsNamed /\ SeedersNamed

\* An index is saved before a model is trained, and lost only to a later save.
IndexSaved == index # {} \/ "index" \in cut \/ \E s \in Seeders : at[s] = "saving"
Trained == {"train", "save model", "saving model"}
ModelInv == model => IndexSaved
SeedersInv ==
    \A s \in Seeders :
        /\ at[s] \in {"save", "saving"} => built[s] # {}
        /\ at[s] \in Trained => IndexSaved

\* A pod that found no index, with none being saved or cut off, has seen no save end since.
Unseeded == ~model /\ \A s \in Seeders : at[s] \notin Trained
PodInv(p) ==
    /\ pod[p] \in {"down", "load index"} => served[p] = {}
    /\ pod[p] = "load ranker" /\ "index" \notin served[p] /\ p \notin late => Unseeded
    /\ "ranker" \in served[p] => "index" \in served[p] \/ p \in late
PodsInv == \A p \in Pods : PodInv(p)

RankerInv == ModelInv /\ SeedersInv /\ PodsInv

\* Arrays that are not mixed are of one run, or somebody is halfway with them.
ArraysInv ==
    /\ ~mixed => \/ file["user_ids"] \in {file["user_factors"], None}
                 \/ \E g \in Gens : Halfway(g)
    /\ ~mixed => \A g \in Gens : Halfway(g) => file["user_ids"] \in {g, None}

\* A seeder that is not loud has both arrays of one run.
LoadsInv ==
    \A s \in Seeders :
        /\ at[s] \in {"user_factors", "users"} => ids[s] \in Gens
        /\ at[s] = "users" => factors[s] \in Gens
        /\ at[s] = "user_factors" /\ s \notin loud =>
              /\ ids[s] = file["user_factors"]
              /\ \A g \in Gens : ~Halfway(g)
        /\ at[s] = "users" /\ s \notin loud =>
              ids[s] = factors[s]

SInv == TypeOK /\ NamedInv /\ RankerInv /\ ArraysInv /\ LoadsInv /\ EmbeddingsAreOwn

-----------------------------------------------------------------------------

LEMMA UsersArePairs ==
    /\ \A u \in Users : u \in Gens \X Nat /\ u = <<u[1], u[2]>>
    /\ \A g \in Gens, k \in Nat : <<g, k>> \in Users <=> k \in 1..NumUsers[g]
  BY DEF Users

DatabaseType ==
    /\ schema \in {"none", "open", "over"}
    /\ committed \subseteq Gens /\ interactions \subseteq Gens
    /\ dropped \subseteq Gens /\ lost \subseteq Gens
GeneratorsType ==
    step \in [Gens -> Steps] /\ file \in [Files -> Gens \cup {None}] /\ mixed \in BOOLEAN
SeedersType ==
    /\ at \in [Seeders -> Seeds]
    /\ built \in [Seeders -> SUBSET Gens]
    /\ ids \in [Seeders -> Gens \cup {None}]
    /\ factors \in [Seeders -> Gens \cup {None}]
    /\ next \in [Seeders -> Nat \ {0}]
    /\ loud \subseteq Seeders
SavedType == index \subseteq Gens /\ model \in BOOLEAN /\ cut \subseteq {"index", "model"}
RedisType == embedding \in [Users -> (Gens \X Nat) \cup {None}] /\ spoilt \subseteq Users
PodsType ==
    /\ pod \in [Pods -> {"down", "load index", "load ranker", "up"}]
    /\ served \in [Pods -> SUBSET {"index", "ranker"}]
    /\ late \subseteq Pods

LEMMA TypeParts ==
    TypeOK <=> DatabaseType /\ GeneratorsType /\ SeedersType /\ SavedType /\ RedisType /\ PodsType
  BY DEF TypeOK, DatabaseType, GeneratorsType, SeedersType, SavedType, RedisType, PodsType

LEMMA InitSInv == Init => SInv
  <1> SUFFICES ASSUME Init PROVE SInv
    OBVIOUS
  <1>1. TypeOK
    <2>1. DatabaseType /\ GeneratorsType /\ SavedType /\ RedisType /\ PodsType
      BY DEF Init, DatabaseType, GeneratorsType, SavedType, RedisType, PodsType, Steps
    <2>2. SeedersType
      BY DEF Init, SeedersType, Seeds
    <2>3. QED
      BY <2>1, <2>2, TypeParts
  <1>2. NamedInv
    BY DEF Init, NamedInv, RowsNamed, IndexNamed, FilesNamed, UsersNamed, StepsNamed, SeedersNamed, Files, Arrays
  <1>3. RankerInv
    BY DEF Init, RankerInv, ModelInv, SeedersInv, PodsInv, PodInv, Trained
  <1>4. ArraysInv
    BY DEF Init, ArraysInv, Halfway, Files, Arrays
  <1>5. LoadsInv /\ EmbeddingsAreOwn
    BY DEF Init, LoadsInv, EmbeddingsAreOwn
  <1>6. QED
    BY <1>1, <1>2, <1>3, <1>4, <1>5 DEF SInv

LEMMA TypeFrames ==
    /\ DatabaseType /\ UNCHANGED database => DatabaseType'
    /\ GeneratorsType /\ UNCHANGED generators => GeneratorsType'
    /\ SeedersType /\ UNCHANGED seeders => SeedersType'
    /\ SavedType /\ UNCHANGED saved => SavedType'
    /\ RedisType /\ UNCHANGED redis => RedisType'
    /\ PodsType /\ UNCHANGED pods => PodsType'
  BY DEF database, generators, seeders, saved, redis, pods,
         DatabaseType, GeneratorsType, SeedersType, SavedType, RedisType, PodsType

LEMMA EndsTyped == ASSUME SeedersType, NEW s \in Seeders, End(s) PROVE SeedersType'
  <1>1. at' \in [Seeders -> Seeds]
    BY DEF SeedersType, Seeds, End, Advance
  <1>2. built' \in [Seeders -> SUBSET Gens]
    BY DEF SeedersType, End
  <1>3. ids' \in [Seeders -> Gens \cup {None}] /\ factors' \in [Seeders -> Gens \cup {None}]
    BY DEF SeedersType, End
  <1>4. next' \in [Seeders -> Nat \ {0}] /\ loud' \subseteq Seeders
    BY DEF SeedersType, End
  <1>5. QED
    BY <1>1, <1>2, <1>3, <1>4 DEF SeedersType

\* What End leaves of its seeder, and of the others.
LEMMA Ends ==
    ASSUME SeedersType, NEW s \in Seeders, End(s)
    PROVE  /\ at'[s] = "ended" /\ built'[s] = {} /\ ids'[s] = None /\ factors'[s] = None
           /\ \A t \in Seeders \ {s} :
                 /\ at'[t] = at[t] /\ built'[t] = built[t]
                 /\ ids'[t] = ids[t] /\ factors'[t] = factors[t]
                 /\ t \in loud' <=> t \in loud
  BY DEF SeedersType, End, Advance

LEMMA AdvanceTyped ==
    ASSUME SeedersType, NEW s \in Seeders, NEW to \in Seeds, Advance(s, to),
           UNCHANGED <<built, ids, factors, next, loud>>
    PROVE  SeedersType'
  BY DEF SeedersType, Advance

LEMMA ProceedTyped == ASSUME GeneratorsType, NEW g \in Gens, NEW to \in Steps, Proceed(g, to)
                      PROVE  step' \in [Gens -> Steps]
  BY DEF GeneratorsType, Proceed

LEMMA TypeStep == TypeOK /\ LoadsInv /\ [Next]_seedingVars => TypeOK'
  <1> SUFFICES ASSUME TypeOK, LoadsInv, [Next]_seedingVars PROVE TypeOK'
    OBVIOUS
  <1>a. DatabaseType /\ GeneratorsType /\ SeedersType /\ SavedType /\ RedisType /\ PodsType
    BY TypeParts
  <1>b. ASSUME DatabaseType', GeneratorsType', SeedersType', SavedType', RedisType', PodsType'
        PROVE  TypeOK'
    BY <1>b DEF TypeOK, DatabaseType, GeneratorsType, SeedersType, SavedType, RedisType, PodsType
  <1> USE DEF Steps, Seeds
  <1>1. ASSUME NEW g \in Gens, StartGenerator(g) PROVE TypeOK'
    <2>1. GeneratorsType'
      BY <1>1, <1>a, ProceedTyped DEF StartGenerator, GeneratorsType
    <2>2. QED
      BY <1>1, <1>a, <1>b, <2>1, TypeFrames DEF StartGenerator
  <1>2. ASSUME NEW g \in Gens, InsertCatalogue(g) PROVE TypeOK'
    <2>1. GeneratorsType'
      <3>1. Proceed(g, "interactions") \/ Proceed(g, "ended")
        BY <1>2 DEF InsertCatalogue, After
      <3>2. step' \in [Gens -> Steps]
        BY <1>a, <3>1, ProceedTyped
      <3>3. QED
        BY <1>2, <1>a, <3>2 DEF InsertCatalogue, GeneratorsType
    <2>2. DatabaseType'
      BY <1>2, <1>a DEF InsertCatalogue, DatabaseType
    <2>3. QED
      BY <1>2, <1>a, <1>b, <2>1, <2>2, TypeFrames DEF InsertCatalogue
  <1>3. ASSUME NEW g \in Gens, InsertInteractions(g) PROVE TypeOK'
    <2>1. GeneratorsType'
      <3>1. Proceed(g, "parquet") \/ Proceed(g, "ended")
        BY <1>3 DEF InsertInteractions, After
      <3>2. step' \in [Gens -> Steps]
        BY <1>a, <3>1, ProceedTyped DEF Files
      <3>3. QED
        BY <1>3, <1>a, <3>2 DEF InsertInteractions, GeneratorsType
    <2>2. DatabaseType'
      BY <1>3, <1>a DEF InsertInteractions, DatabaseType
    <2>3. QED
      BY <1>3, <1>a, <1>b, <2>1, <2>2, TypeFrames DEF InsertInteractions
  <1>4. ASSUME NEW g \in Gens, SaveFile(g) PROVE TypeOK'
    <2>1. step' \in [Gens -> Steps]
      <3>1. After[step[g]] \in Steps /\ Proceed(g, After[step[g]])
        BY <1>4 DEF SaveFile, After, Files, Arrays
      <3>2. QED
        BY <1>a, <3>1, ProceedTyped
    <2>2. file' \in [Files -> Gens \cup {None}] /\ mixed' \in BOOLEAN
      BY <1>4, <1>a DEF SaveFile, Saved, GeneratorsType, Halfway
    <2>3. SeedersType'
      BY <1>4, <1>a DEF SaveFile, SeedersType
    <2>4. GeneratorsType'
      BY <2>1, <2>2 DEF GeneratorsType
    <2>5. QED
      BY <1>4, <1>a, <1>b, <2>3, <2>4, TypeFrames DEF SaveFile
  <1>5. ASSUME NEW g \in Gens, GeneratorDies(g) PROVE TypeOK'
    <2>1. step' \in [Gens -> Steps]
      BY <1>5, <1>a, ProceedTyped DEF GeneratorDies
    <2>2. file' \in [Files -> Gens \cup {None}]
      BY <1>5, <1>a DEF GeneratorDies, GeneratorsType
    <2>3. mixed' \in BOOLEAN
      BY <1>5, <1>a DEF GeneratorDies, GeneratorsType, Halfway
    <2>4. GeneratorsType'
      BY <2>1, <2>2, <2>3 DEF GeneratorsType
    <2>5. QED
      BY <1>5, <1>a, <1>b, <2>4, TypeFrames DEF GeneratorDies
  <1>6. ASSUME NEW s \in Seeders, StartSeeder(s) PROVE TypeOK'
    <2>1. SeedersType'
      BY <1>6, <1>a, AdvanceTyped DEF StartSeeder, First
    <2>2. QED
      BY <1>6, <1>a, <1>b, <2>1, TypeFrames DEF StartSeeder
  <1>7. ASSUME NEW s \in Seeders, BuildIndex(s) PROVE TypeOK'
    <2>1. CASE End(s)
      BY <1>7, <1>a, <1>b, <2>1, EndsTyped, TypeFrames DEF BuildIndex
    <2>2. CASE ~End(s)
      <3>1. SeedersType'
        BY <1>7, <1>a, <2>2 DEF BuildIndex, EmbeddedItems, Advance, SeedersType, DatabaseType
      <3>2. QED
        BY <1>7, <1>a, <1>b, <3>1, TypeFrames DEF BuildIndex
    <2>3. QED
      BY <2>1, <2>2
  <1>8. ASSUME NEW s \in Seeders, OpenIndex(s) \/ SaveIndex(s) PROVE TypeOK'
    <2>1. CASE OpenIndex(s)
      <3>1. SeedersType'
        BY <2>1, <1>a, AdvanceTyped DEF OpenIndex
      <3>2. SavedType'
        BY <2>1, <1>a DEF OpenIndex, Opens, SavedType
      <3>3. QED
        BY <2>1, <1>a, <1>b, <3>1, <3>2, TypeFrames DEF OpenIndex
    <2>2. CASE SaveIndex(s)
      <3>1. SeedersType'
        BY <2>2, <1>a DEF SaveIndex, Advance, SeedersType
      <3>2. SavedType'
        <4>1. index' \in {built[s], {}} /\ UNCHANGED <<model, cut>>
          BY <2>2 DEF SaveIndex
        <4>2. QED
          BY <4>1, <1>a DEF SavedType, SeedersType
      <3>3. PodsType'
        BY <2>2, <1>a DEF SaveIndex, PodsType
      <3>4. QED
        BY <2>2, <1>a, <1>b, <3>1, <3>2, <3>3, TypeFrames DEF SaveIndex
    <2>3. QED
      BY <1>8, <2>1, <2>2
  <1>9. ASSUME NEW s \in Seeders, Train(s) PROVE TypeOK'
    <2>1. SeedersType'
      BY <1>9, <1>a, EndsTyped, AdvanceTyped DEF Train
    <2>2. QED
      BY <1>9, <1>a, <1>b, <2>1, TypeFrames DEF Train
  <1>10. ASSUME NEW s \in Seeders, OpenModel(s) \/ SaveModel(s) PROVE TypeOK'
    <2>1. SeedersType'
      BY <1>10, <1>a, AdvanceTyped DEF OpenModel, SaveModel
    <2>2. SavedType'
      BY <1>10, <1>a DEF OpenModel, Opens, SaveModel, SavedType
    <2>3. QED
      BY <1>10, <1>a, <1>b, <2>1, <2>2, TypeFrames DEF OpenModel, SaveModel
  <1>11. ASSUME NEW s \in Seeders, LoadIds(s) \/ LoadFactors(s) PROVE TypeOK'
    <2>1. CASE End(s)
      BY <1>11, <1>a, <1>b, <2>1, EndsTyped, TypeFrames DEF LoadIds, LoadFactors
    <2>2. CASE ~End(s)
      <3>1. SeedersType'
        <4>1. \/ /\ ids' = [ids EXCEPT ![s] = file["user_ids"]]
                 /\ at' = [at EXCEPT ![s] = "user_factors"]
                 /\ UNCHANGED <<built, factors, next>>
              \/ /\ factors' = [factors EXCEPT ![s] = file["user_factors"]]
                 /\ at' = [at EXCEPT ![s] = "users"]
                 /\ UNCHANGED <<built, ids, next>>
          BY <1>11, <2>2 DEF LoadIds, LoadFactors, Advance
        <4>2. file["user_ids"] \in Gens \cup {None} /\ file["user_factors"] \in Gens \cup {None}
          BY <1>a DEF GeneratorsType, Files, Arrays
        <4>3. loud' \subseteq Seeders
          <5>1. loud' \in {loud, loud \cup {s}}
            BY <1>11, <2>2 DEF LoadIds, LoadFactors, Hears
          <5>2. QED
            BY <5>1, <1>a DEF SeedersType
        <4>4. QED
          BY <1>a, <4>1, <4>2, <4>3 DEF SeedersType
      <3>2. QED
        BY <1>11, <1>a, <1>b, <3>1, TypeFrames DEF LoadIds, LoadFactors
    <2>3. QED
      BY <2>1, <2>2
  <1>12. ASSUME NEW s \in Seeders, WarmUser(s) PROVE TypeOK'
    <2>1. CASE End(s)
      <3>1. SeedersType'
        BY <1>a, <2>1, EndsTyped
      <3>2. UNCHANGED redis
        BY <1>12, <2>1, <1>a, Ends DEF WarmUser, SeedersType
      <3>3. QED
        BY <1>12, <1>a, <1>b, <3>1, <3>2, TypeFrames DEF WarmUser
    <2>2. CASE ~End(s)
      <3>1. SeedersType'
        <4>1. next' = [next EXCEPT ![s] = next[s] + 1] /\ UNCHANGED <<at, built, ids, factors, loud>>
          BY <1>12, <2>2 DEF WarmUser
        <4>2. next' \in [Seeders -> Nat \ {0}]
          <5>1. next[s] \in Nat
            BY <1>a DEF SeedersType
          <5>2. next[s] + 1 \in Nat \ {0}
            BY <5>1
          <5>3. QED
            BY <4>1, <5>2, <1>a DEF SeedersType
        <4>3. QED
          BY <4>1, <4>2, <1>a DEF SeedersType
      <3>2. ids[s] \in Gens /\ factors[s] \in Gens /\ next[s] \in Nat
        BY <1>12, <1>a DEF WarmUser, LoadsInv, SeedersType
      <3>3. <<ids[s], next[s]>> \in Users
        <4>1. next[s] <= Slice(ids[s]) /\ next[s] # 0
          BY <1>12, <2>2, <1>a DEF WarmUser, SeedersType
        <4>2. next[s] \in 1..NumUsers[ids[s]]
          BY <4>1, <3>2 DEF Slice
        <4>3. QED
          BY <4>2, <3>2, UsersArePairs
      <3>4. RedisType'
        BY <1>12, <1>a, <2>2, <3>2, <3>3 DEF WarmUser, RedisType
      <3>5. QED
        BY <1>12, <1>a, <1>b, <3>1, <3>4, TypeFrames DEF WarmUser
    <2>3. QED
      BY <2>1, <2>2
  <1>13. ASSUME NEW s \in Seeders, SeederDies(s) PROVE TypeOK'
    <2>1. SavedType'
      BY <1>13, <1>a DEF SeederDies, SavedType, saved
    <2>2. QED
      BY <1>13, <1>a, <1>b, <2>1, EndsTyped, TypeFrames DEF SeederDies
  <1>14. CASE Upgrade \/ PartitionsEnd \/ Downgrade
    <2>1. DatabaseType'
      BY <1>14, <1>a DEF Upgrade, PartitionsEnd, Downgrade, DatabaseType
    <2>2. UNCHANGED <<generators, seeders, saved, redis, pods>>
      BY <1>14 DEF Upgrade, PartitionsEnd, Downgrade
    <2>3. QED
      BY <1>a, <1>b, <2>1, <2>2, TypeFrames
  <1>15. ASSUME NEW u \in Users, EmbeddingExpires(u) PROVE TypeOK'
    <2>1. RedisType'
      BY <1>15, <1>a DEF EmbeddingExpires, RedisType
    <2>2. QED
      BY <1>15, <1>a, <1>b, <2>1, TypeFrames DEF EmbeddingExpires
  <1>16. ASSUME NEW p \in Pods, Boot(p) \/ LoadIndex(p) \/ LoadRanker(p) PROVE TypeOK'
    <2>1. pod' \in [Pods -> {"down", "load index", "load ranker", "up"}]
      BY <1>16, <1>a DEF Boot, LoadIndex, LoadRanker, PodsType
    <2>2. late' \subseteq Pods
      <3>1. late' \in {late, late \cup {p}}
        BY <1>16 DEF Boot, LoadIndex, LoadRanker
      <3>2. QED
        BY <3>1, <1>a DEF PodsType
    <2>3. served[p] \cup {"ranker"} \in SUBSET {"index", "ranker"}
      BY <1>a DEF PodsType
    <2>4. \/ UNCHANGED served
           \/ \E v \in SUBSET {"index", "ranker"} : served' = [served EXCEPT ![p] = v]
      BY <1>16, <1>a, <2>3 DEF Boot, LoadIndex, LoadRanker, PodsType
    <2>5. served' \in [Pods -> SUBSET {"index", "ranker"}]
      BY <1>a, <2>4 DEF PodsType
    <2>6. PodsType'
      BY <2>1, <2>2, <2>5 DEF PodsType
    <2>7. UNCHANGED <<database, generators, seeders, saved, redis>>
      BY <1>16 DEF Boot, LoadIndex, LoadRanker
    <2>8. QED
      BY <1>a, <1>b, <2>6, <2>7, TypeFrames
  <1>17. CASE UNCHANGED seedingVars
    BY <1>17, <1>a, <1>b, TypeFrames DEF seedingVars
  <1>18. QED
    BY <1>1, <1>2, <1>3, <1>4, <1>5, <1>6, <1>7, <1>8, <1>9, <1>10, <1>11, <1>12, <1>13, <1>14,
       <1>15, <1>16, <1>17 DEF Next

LEMMA NamedFrames ==
    ASSUME NamedInv, Known \subseteq Known', Written \subseteq Written'
    PROVE  /\ UNCHANGED <<committed, interactions>> => RowsNamed'
           /\ UNCHANGED index => IndexNamed'
           /\ UNCHANGED file => FilesNamed'
           /\ UNCHANGED embedding => UsersNamed'
           /\ UNCHANGED step => StepsNamed'
           /\ UNCHANGED <<built, ids, factors>> => SeedersNamed'
  BY DEF NamedInv, RowsNamed, IndexNamed, FilesNamed, UsersNamed, StepsNamed, SeedersNamed

LEMMA NamedEnds ==
    ASSUME NamedInv, SeedersType, Known \subseteq Known', Written \subseteq Written', NEW s \in Seeders, End(s)
    PROVE  SeedersNamed'
  BY Ends DEF NamedInv, SeedersNamed

LEMMA NamedStep == TypeOK /\ LoadsInv /\ NamedInv /\ [Next]_seedingVars => NamedInv'
  <1> SUFFICES ASSUME TypeOK, LoadsInv, NamedInv, [Next]_seedingVars PROVE NamedInv'
    OBVIOUS
  <1>a. GeneratorsType /\ SeedersType /\ RedisType
    BY TypeParts
  <1>b. ASSUME RowsNamed', IndexNamed', FilesNamed', UsersNamed', StepsNamed', SeedersNamed'
        PROVE  NamedInv'
    BY <1>b DEF NamedInv
  <1>c. ASSUME UNCHANGED database
        PROVE  Known \subseteq Known' /\ Written \subseteq Written' /\ RowsNamed'
    BY <1>c, NamedFrames DEF database, Known, Written
  <1> USE DEF database, generators, seeders, saved, redis, pods
  <1>1. ASSUME NEW g \in Gens, StartGenerator(g) PROVE NamedInv'
    <2>1. UNCHANGED database /\ UNCHANGED <<index, file, embedding, built, ids, factors>>
      BY <1>1 DEF StartGenerator
    <2>c. Known \subseteq Known' /\ Written \subseteq Written' /\ RowsNamed'
      BY <1>c, <2>1
    <2>2. StepsNamed'
      BY <1>1, <1>a, <2>1, <2>c DEF NamedInv, StepsNamed, StartGenerator, Proceed, GeneratorsType, Files, Arrays
    <2>3. QED
      BY <1>b, <2>1, <2>c, <2>2, NamedFrames
  <1>2. ASSUME NEW g \in Gens, InsertCatalogue(g) PROVE NamedInv'
    <2>1. UNCHANGED <<interactions, lost, dropped, index, file, embedding, built, ids, factors>>
      BY <1>2 DEF InsertCatalogue
    <2>2. committed \subseteq committed'
      BY <1>2 DEF InsertCatalogue
    <2>c. Known \subseteq Known' /\ Written \subseteq Written' /\ RowsNamed'
      BY <2>1, <2>2 DEF Known, Written, NamedInv, RowsNamed
    <2>3. step'[g] = "interactions" => g \in Known'
      BY <1>2, <1>a DEF InsertCatalogue, Proceed, Known, GeneratorsType
    <2>4. step'[g] \in {"interactions", "ended"} /\ \A h \in Gens \ {g} : step'[h] = step[h]
      BY <1>2, <1>a DEF InsertCatalogue, Proceed, After, GeneratorsType
    <2>5. StepsNamed'
      BY <2>c, <2>3, <2>4 DEF NamedInv, StepsNamed, Files, Arrays
    <2>6. QED
      BY <1>b, <2>1, <2>c, <2>5, NamedFrames
  <1>3. ASSUME NEW g \in Gens, InsertInteractions(g) PROVE NamedInv'
    <2>1. UNCHANGED <<committed, lost, dropped, index, file, embedding, built, ids, factors>>
      BY <1>3 DEF InsertInteractions
    <2>2. interactions \subseteq interactions' /\ interactions' \subseteq committed \cup interactions
      BY <1>3 DEF InsertInteractions
    <2>c. Known \subseteq Known' /\ Written \subseteq Written' /\ RowsNamed'
      BY <2>1, <2>2 DEF Known, Written, NamedInv, RowsNamed
    <2>3. step'[g] = "parquet" => g \in Written'
      BY <1>3, <1>a DEF InsertInteractions, Proceed, Written, GeneratorsType
    <2>4. step'[g] \in {"parquet", "ended"} /\ \A h \in Gens \ {g} : step'[h] = step[h]
      BY <1>3, <1>a DEF InsertInteractions, Proceed, After, GeneratorsType
    <2>5. StepsNamed'
      BY <2>c, <2>3, <2>4 DEF NamedInv, StepsNamed, Files, Arrays
    <2>6. QED
      BY <1>b, <2>1, <2>c, <2>5, NamedFrames
  <1>4. ASSUME NEW g \in Gens, SaveFile(g) PROVE NamedInv'
    <2>1. UNCHANGED database /\ UNCHANGED <<index, embedding, built, ids, factors>>
      BY <1>4 DEF SaveFile
    <2>c. Known \subseteq Known' /\ Written \subseteq Written' /\ RowsNamed'
      BY <1>c, <2>1
    <2>2. g \in Written /\ \A h \in Gens \ {g} : step'[h] = step[h]
      BY <1>4, <1>a DEF SaveFile, Proceed, GeneratorsType, NamedInv, StepsNamed
    <2>6. step'[g] # "interactions"
      BY <1>4, <1>a DEF SaveFile, Proceed, After, GeneratorsType, Files, Arrays
    <2>3. StepsNamed'
      BY <2>c, <2>2, <2>6 DEF NamedInv, StepsNamed
    <2>4. FilesNamed'
      BY <1>4, <1>a, <2>1, <2>c, <2>2 DEF SaveFile, Saved, GeneratorsType, NamedInv, FilesNamed
    <2>5. QED
      BY <1>b, <2>1, <2>c, <2>3, <2>4, NamedFrames
  <1>5. ASSUME NEW g \in Gens, GeneratorDies(g) PROVE NamedInv'
    <2>1. UNCHANGED database /\ UNCHANGED <<index, embedding, built, ids, factors>>
      BY <1>5 DEF GeneratorDies
    <2>c. Known \subseteq Known' /\ Written \subseteq Written' /\ RowsNamed'
      BY <1>c, <2>1
    <2>2. step'[g] = "ended" /\ \A h \in Gens \ {g} : step'[h] = step[h]
      BY <1>5, <1>a DEF GeneratorDies, Proceed, GeneratorsType
    <2>3. StepsNamed'
      BY <2>c, <2>2 DEF NamedInv, StepsNamed, Files, Arrays
    <2>4. FilesNamed'
      BY <1>5, <1>a, <2>1, <2>c DEF GeneratorDies, GeneratorsType, NamedInv, FilesNamed
    <2>5. QED
      BY <1>b, <2>1, <2>c, <2>3, <2>4, NamedFrames
  <1>6. ASSUME NEW s \in Seeders, StartSeeder(s) \/ OpenModel(s) \/ SaveModel(s) PROVE NamedInv'
    <2>1. UNCHANGED database /\ UNCHANGED <<index, file, embedding, step, built, ids, factors>>
      BY <1>6 DEF StartSeeder, OpenModel, SaveModel
    <2>c. Known \subseteq Known' /\ Written \subseteq Written' /\ RowsNamed'
      BY <1>c, <2>1
    <2>2. QED
      BY <1>b, <2>1, <2>c, NamedFrames
  <1>7. ASSUME NEW s \in Seeders, BuildIndex(s) PROVE NamedInv'
    <2>1. UNCHANGED database /\ UNCHANGED <<index, file, embedding, step>>
      BY <1>7 DEF BuildIndex
    <2>c. Known \subseteq Known' /\ Written \subseteq Written' /\ RowsNamed'
      BY <1>c, <2>1
    <2>2. CASE End(s)
      BY <1>a, <1>b, <2>1, <2>c, <2>2, NamedFrames, NamedEnds
    <2>3. CASE ~End(s)
      <3>1. built' = [built EXCEPT ![s] = committed] /\ UNCHANGED <<ids, factors>>
        BY <1>7, <2>3 DEF BuildIndex, EmbeddedItems
      <3>2. SeedersNamed'
        BY <1>a, <2>1, <2>c, <3>1 DEF SeedersType, NamedInv, SeedersNamed, Known
      <3>3. QED
        BY <1>b, <2>1, <2>c, <3>2, NamedFrames
    <2>4. QED
      BY <2>2, <2>3
  <1>8. ASSUME NEW s \in Seeders, OpenIndex(s) \/ SaveIndex(s) PROVE NamedInv'
    <2>1. UNCHANGED database /\ UNCHANGED <<file, embedding, step, ids, factors>>
      BY <1>8 DEF OpenIndex, SaveIndex
    <2>c. Known \subseteq Known' /\ Written \subseteq Written' /\ RowsNamed'
      BY <1>c, <2>1
    <2>2. index' \in {built[s], {}} /\ built' \in {built, [built EXCEPT ![s] = {}]}
      BY <1>8 DEF OpenIndex, SaveIndex
    <2>3. IndexNamed'
      BY <2>c, <2>2 DEF NamedInv, IndexNamed, SeedersNamed
    <2>4. SeedersNamed'
      BY <1>a, <2>1, <2>c, <2>2 DEF SeedersType, NamedInv, SeedersNamed
    <2>5. QED
      BY <1>b, <2>1, <2>c, <2>3, <2>4, NamedFrames
  <1>9. ASSUME NEW s \in Seeders, Train(s) PROVE NamedInv'
    <2>1. UNCHANGED database /\ UNCHANGED <<index, file, embedding, step>>
      BY <1>9 DEF Train
    <2>c. Known \subseteq Known' /\ Written \subseteq Written' /\ RowsNamed'
      BY <1>c, <2>1
    <2>2. End(s) \/ UNCHANGED <<built, ids, factors>>
      BY <1>9 DEF Train
    <2>3. QED
      BY <1>a, <1>b, <2>1, <2>c, <2>2, NamedFrames, NamedEnds
  <1>10. ASSUME NEW s \in Seeders, LoadIds(s) \/ LoadFactors(s) PROVE NamedInv'
    <2>1. UNCHANGED database /\ UNCHANGED <<index, file, embedding, step>>
      BY <1>10 DEF LoadIds, LoadFactors
    <2>c. Known \subseteq Known' /\ Written \subseteq Written' /\ RowsNamed'
      BY <1>c, <2>1
    <2>2. CASE End(s)
      BY <1>a, <1>b, <2>1, <2>c, <2>2, NamedFrames, NamedEnds
    <2>3. CASE ~End(s)
      <3>1. file["user_ids"] \in Written \cup {None} /\ file["user_factors"] \in Written \cup {None}
        BY DEF NamedInv, FilesNamed, Files, Arrays
      <3>2. SeedersNamed'
        BY <1>10, <1>a, <2>1, <2>c, <2>3, <3>1 DEF LoadIds, LoadFactors, SeedersType, NamedInv, SeedersNamed
      <3>3. QED
        BY <1>b, <2>1, <2>c, <3>2, NamedFrames
    <2>4. QED
      BY <2>2, <2>3
  <1>11. ASSUME NEW s \in Seeders, WarmUser(s) PROVE NamedInv'
    <2>1. UNCHANGED database /\ UNCHANGED <<index, file, step>>
      BY <1>11 DEF WarmUser
    <2>c. Known \subseteq Known' /\ Written \subseteq Written' /\ RowsNamed'
      BY <1>c, <2>1
    <2>2. CASE UNCHANGED embedding
      <3>1. End(s) \/ UNCHANGED <<built, ids, factors>>
        BY <1>11 DEF WarmUser
      <3>2. QED
        BY <1>a, <1>b, <2>1, <2>c, <2>2, <3>1, NamedFrames, NamedEnds
    <2>3. CASE embedding' # embedding
      <3>1. /\ embedding' = [embedding EXCEPT ![<<ids[s], next[s]>>] = <<factors[s], next[s]>>]
            /\ UNCHANGED <<built, ids, factors>>
        BY <1>11, <2>3 DEF WarmUser
      <3>2. ids[s] \in Gens
        BY <1>11 DEF WarmUser, LoadsInv
      <3>3. ids[s] \in Written
        BY <3>2 DEF NamedInv, SeedersNamed
      <3>4. \A u \in Users : u # <<ids[s], next[s]>> => embedding'[u] = embedding[u]
        BY <1>a, <3>1 DEF RedisType
      <3>5. UsersNamed'
        BY <2>1, <2>c, <3>3, <3>4 DEF NamedInv, UsersNamed
      <3>6. QED
        BY <1>b, <2>1, <2>c, <3>1, <3>5, NamedFrames
    <2>4. QED
      BY <2>2, <2>3
  <1>12. ASSUME NEW s \in Seeders, SeederDies(s) PROVE NamedInv'
    <2>1. UNCHANGED database /\ UNCHANGED <<file, embedding, step, index>>
      BY <1>12 DEF SeederDies
    <2>c. Known \subseteq Known' /\ Written \subseteq Written' /\ RowsNamed'
      BY <1>c, <2>1
    <2>2. IndexNamed'
      BY <2>1, <2>c DEF NamedInv, IndexNamed
    <2>3. End(s)
      BY <1>12 DEF SeederDies
    <2>4. QED
      BY <1>a, <1>b, <2>1, <2>c, <2>2, <2>3, NamedFrames, NamedEnds
  <1>13. CASE Upgrade \/ PartitionsEnd \/ Downgrade
    <2>1. UNCHANGED <<index, file, embedding, step, built, ids, factors>>
      BY <1>13 DEF Upgrade, PartitionsEnd, Downgrade
    <2>c. Known \subseteq Known' /\ Written \subseteq Written' /\ RowsNamed'
      <3>1. CASE Upgrade \/ PartitionsEnd
        BY <3>1 DEF Upgrade, PartitionsEnd, Known, Written, NamedInv, RowsNamed
      <3>2. CASE Downgrade
        BY <3>2 DEF Downgrade, Known, Written, RowsNamed
      <3>3. QED
        BY <1>13, <3>1, <3>2
    <2>2. QED
      BY <1>b, <2>1, <2>c, NamedFrames
  <1>14. ASSUME NEW u \in Users, EmbeddingExpires(u) PROVE NamedInv'
    <2>1. UNCHANGED database /\ UNCHANGED <<index, file, step, built, ids, factors>>
      BY <1>14 DEF EmbeddingExpires
    <2>c. Known \subseteq Known' /\ Written \subseteq Written' /\ RowsNamed'
      BY <1>c, <2>1
    <2>2. UsersNamed'
      BY <1>14, <1>a, <2>1, <2>c DEF EmbeddingExpires, RedisType, NamedInv, UsersNamed
    <2>3. QED
      BY <1>b, <2>1, <2>c, <2>2, NamedFrames
  <1>15. CASE UNCHANGED seedingVars \/ \E p \in Pods : Boot(p) \/ LoadIndex(p) \/ LoadRanker(p)
    <2>1. UNCHANGED database /\ UNCHANGED <<index, file, embedding, step, built, ids, factors>>
      BY <1>15 DEF seedingVars, Boot, LoadIndex, LoadRanker
    <2>c. Known \subseteq Known' /\ Written \subseteq Written' /\ RowsNamed'
      BY <1>c, <2>1
    <2>2. QED
      BY <1>b, <2>1, <2>c, NamedFrames
  <1>16. QED
    BY <1>1, <1>2, <1>3, <1>4, <1>5, <1>6, <1>7, <1>8, <1>9, <1>10, <1>11, <1>12, <1>13, <1>14,
       <1>15 DEF Next

LEMMA RankerFrames ==
    ASSUME RankerInv, IndexSaved => IndexSaved'
    PROVE  /\ UNCHANGED model => ModelInv'
           /\ UNCHANGED <<at, built>> => SeedersInv'
           /\ UNCHANGED <<pod, served, late>> /\ (Unseeded => Unseeded') => PodsInv'
  <1>1. UNCHANGED model => ModelInv'
    BY DEF RankerInv, ModelInv
  <1>2. UNCHANGED <<at, built>> => SeedersInv'
    BY DEF RankerInv, SeedersInv
  <1>3. UNCHANGED <<pod, served, late>> /\ (Unseeded => Unseeded') => PodsInv'
    <2> SUFFICES ASSUME UNCHANGED <<pod, served, late>>, Unseeded => Unseeded', NEW p \in Pods
                 PROVE  PodInv(p)'
      BY DEF PodsInv
    <2>1. PodInv(p)
      BY DEF RankerInv, PodsInv
    <2>2. QED
      BY <2>1 DEF PodInv
  <1>4. QED
    BY <1>1, <1>2, <1>3

LEMMA RankerMoves ==
    ASSUME RankerInv, SeedersType, IndexSaved => IndexSaved', NEW s \in Seeders,
           \A t \in Seeders \ {s} : at'[t] = at[t] /\ built'[t] = built[t],
           at'[s] \in {"save", "saving"} => built'[s] # {},
           at'[s] \in Trained => IndexSaved'
    PROVE  SeedersInv'
  BY DEF RankerInv, SeedersInv

\* A step of one seeder that saves no index.
LEMMA SavedMoves ==
    ASSUME NEW s \in Seeders, \A t \in Seeders \ {s} : at'[t] = at[t],
           at[s] # "saving", UNCHANGED <<index, cut>>
    PROVE  IndexSaved => IndexSaved'
  BY DEF IndexSaved

LEMMA UnseededMoves ==
    ASSUME NEW s \in Seeders, \A t \in Seeders \ {s} : at'[t] = at[t],
           at[s] \in Trained \/ at'[s] \notin Trained, UNCHANGED model \/ model' = FALSE \/ at[s] \in Trained
    PROVE  Unseeded => Unseeded'
  BY DEF Unseeded

LEMMA RankerStep == TypeOK /\ RankerInv /\ [Next]_seedingVars => RankerInv'
  <1> SUFFICES ASSUME TypeOK, RankerInv, [Next]_seedingVars PROVE RankerInv'
    OBVIOUS
  <1>a. SeedersType /\ PodsType
    BY TypeParts
  <1>b. ASSUME ModelInv', SeedersInv', PodsInv' PROVE RankerInv'
    BY <1>b DEF RankerInv
  <1> USE DEF database, generators, seeders, saved, redis, pods
  <1>1. CASE UNCHANGED <<at, built, saved, pods>>
    BY <1>1, <1>b, RankerFrames DEF IndexSaved, Unseeded
  <1>c. ASSUME NEW s \in Seeders, NEW to \in Seeds, Advance(s, to)
        PROVE  at'[s] = to /\ \A t \in Seeders \ {s} : at'[t] = at[t]
    BY <1>a, <1>c DEF SeedersType, Advance
  <1>d. ASSUME NEW s \in Seeders, End(s), at[s] # "saving", UNCHANGED <<saved, pods>>
        PROVE  RankerInv'
    <2>1. at'[s] = "ended" /\ \A t \in Seeders \ {s} : at'[t] = at[t] /\ built'[t] = built[t]
      BY <1>a, <1>d, Ends
    <2>2. IndexSaved => IndexSaved'
      BY <1>d, <2>1, SavedMoves
    <2>3. Unseeded => Unseeded'
      BY <1>d, <2>1, UnseededMoves DEF Trained
    <2>4. SeedersInv'
      BY <1>a, <2>1, <2>2, RankerMoves DEF Trained
    <2>5. QED
      BY <1>b, <1>d, <2>2, <2>3, <2>4, RankerFrames
  <1>e. ASSUME NEW s \in Seeders, NEW to \in Seeds \ {"save", "saving"}, Advance(s, to),
               at[s] # "saving", to \in Trained => at[s] \in Trained,
               UNCHANGED <<built, saved, pods>>
        PROVE  RankerInv'
    <2>1. at'[s] = to /\ \A t \in Seeders \ {s} : at'[t] = at[t] /\ built'[t] = built[t]
      BY <1>c, <1>e
    <2>2. IndexSaved => IndexSaved'
      BY <1>e, <2>1, SavedMoves
    <2>3. Unseeded => Unseeded'
      BY <1>e, <2>1, UnseededMoves
    <2>4. to \in Trained => IndexSaved'
      BY <1>e, <2>2 DEF RankerInv, SeedersInv
    <2>5. SeedersInv'
      BY <1>a, <1>e, <2>1, <2>2, <2>4, RankerMoves
    <2>6. QED
      BY <1>b, <1>e, <2>2, <2>3, <2>5, RankerFrames
  <1>2. ASSUME NEW s \in Seeders, StartSeeder(s) PROVE RankerInv'
    BY <1>2, <1>e DEF StartSeeder, First, Seeds, Trained
  <1>3. ASSUME NEW s \in Seeders, BuildIndex(s) PROVE RankerInv'
    <2>1. CASE End(s)
      BY <1>3, <1>d, <2>1 DEF BuildIndex
    <2>2. CASE ~End(s)
      <3>1. committed # {} /\ built' = [built EXCEPT ![s] = committed] /\ Advance(s, "save")
        BY <1>3, <2>2 DEF BuildIndex, EmbeddedItems
      <3>2. at'[s] = "save" /\ \A t \in Seeders \ {s} : at'[t] = at[t]
        BY <1>c, <3>1 DEF Seeds
      <3>3. UNCHANGED <<saved, pods>> /\ at[s] = "build"
        BY <1>3 DEF BuildIndex
      <3>4. (IndexSaved => IndexSaved') /\ (Unseeded => Unseeded')
        BY <3>2, <3>3, SavedMoves, UnseededMoves DEF Trained
      <3>5. SeedersInv'
        BY <1>a, <3>1, <3>2, <3>4, RankerMoves DEF SeedersType, Trained
      <3>6. QED
        BY <1>b, <3>3, <3>4, <3>5, RankerFrames
    <2>3. QED
      BY <2>1, <2>2
  <1>4. ASSUME NEW s \in Seeders, OpenIndex(s) PROVE RankerInv'
    <2>1. at'[s] = "saving" /\ \A t \in Seeders \ {s} : at'[t] = at[t]
      BY <1>4, <1>c DEF OpenIndex, Seeds
    <2>2. UNCHANGED <<built, model, pods>> /\ at[s] = "save"
      BY <1>4 DEF OpenIndex
    <2>3. IndexSaved'
      BY <2>1 DEF IndexSaved
    <2>4. Unseeded => Unseeded'
      BY <2>1, <2>2, UnseededMoves DEF Trained
    <2>5. SeedersInv'
      BY <1>a, <2>1, <2>2, <2>3, RankerMoves DEF RankerInv, SeedersInv
    <2>6. QED
      BY <1>b, <2>2, <2>3, <2>4, <2>5, RankerFrames
  <1>5. ASSUME NEW s \in Seeders, SaveIndex(s) PROVE RankerInv'
    <2>1. at'[s] = "train" /\ \A t \in Seeders \ {s} : at'[t] = at[t]
      BY <1>5, <1>c DEF SaveIndex, Seeds
    <2>2. /\ built[s] # {} /\ built' = [built EXCEPT ![s] = {}]
          /\ UNCHANGED <<cut, model, pod, served>>
          /\ late' = late \cup {p \in Pods : pod[p] = "load ranker"}
          /\ index' = built[s] \/ "index" \in cut
      BY <1>5 DEF SaveIndex, RankerInv, SeedersInv
    <2>3. IndexSaved'
      BY <2>2 DEF IndexSaved
    <2>4. SeedersInv'
      BY <1>a, <2>1, <2>2, <2>3, RankerMoves DEF SeedersType
    <2>5. PodsInv'
      BY <2>2 DEF RankerInv, PodsInv, PodInv
    <2>6. QED
      BY <1>b, <2>2, <2>3, <2>4, <2>5, RankerFrames
  <1>6. ASSUME NEW s \in Seeders, Train(s) PROVE RankerInv'
    BY <1>6, <1>d, <1>e DEF Train, Seeds, Trained
  <1>7. ASSUME NEW s \in Seeders, OpenModel(s) PROVE RankerInv'
    <2>1. at'[s] = "saving model" /\ \A t \in Seeders \ {s} : at'[t] = at[t]
      BY <1>7, <1>c DEF OpenModel, Seeds
    <2>2. /\ UNCHANGED <<built, index, pods>> /\ at[s] = "save model" /\ model' = FALSE
          /\ "index" \in cut <=> "index" \in cut'
      BY <1>7 DEF OpenModel, Opens
    <2>3. IndexSaved => IndexSaved'
      BY <2>1, <2>2 DEF IndexSaved
    <2>4. Unseeded => Unseeded'
      BY <2>2 DEF Unseeded, Trained
    <2>5. SeedersInv'
      BY <1>a, <2>1, <2>2, <2>3, RankerMoves DEF RankerInv, SeedersInv, Trained
    <2>6. ModelInv'
      BY <2>2 DEF ModelInv
    <2>7. QED
      BY <1>b, <2>2, <2>3, <2>4, <2>5, <2>6, RankerFrames
  <1>8. ASSUME NEW s \in Seeders, SaveModel(s) PROVE RankerInv'
    <2>1. at'[s] = "user_ids" /\ \A t \in Seeders \ {s} : at'[t] = at[t]
      BY <1>8, <1>c DEF SaveModel, Seeds
    <2>2. UNCHANGED <<built, index, cut, pods>> /\ at[s] = "saving model"
      BY <1>8 DEF SaveModel
    <2>3. IndexSaved' /\ ~Unseeded
      BY <2>1, <2>2, SavedMoves DEF RankerInv, SeedersInv, Unseeded, Trained
    <2>4. SeedersInv'
      BY <1>a, <2>1, <2>2, <2>3, RankerMoves DEF Trained
    <2>5. QED
      BY <1>b, <2>2, <2>3, <2>4, RankerFrames DEF ModelInv
  <1>9. ASSUME NEW s \in Seeders, LoadIds(s) \/ LoadFactors(s) PROVE RankerInv'
    BY <1>9, <1>d, <1>e DEF LoadIds, LoadFactors, Seeds, Trained
  <1>10. ASSUME NEW s \in Seeders, WarmUser(s) PROVE RankerInv'
    BY <1>10, <1>1, <1>d DEF WarmUser
  <1>11. ASSUME NEW s \in Seeders, SeederDies(s) PROVE RankerInv'
    <2>1. CASE at[s] \notin {"saving", "saving model"}
      BY <1>11, <1>d, <2>1 DEF SeederDies
    <2>2. CASE at[s] \in {"saving", "saving model"}
      <3>1. at'[s] = "ended" /\ \A t \in Seeders \ {s} : at'[t] = at[t] /\ built'[t] = built[t]
        BY <1>11, <1>a, Ends DEF SeederDies
      <3>2. /\ UNCHANGED <<index, model, pods>> /\ cut \subseteq cut'
            /\ at[s] = "saving" => "index" \in cut'
        BY <1>11, <2>2 DEF SeederDies
      <3>3. IndexSaved => IndexSaved'
        BY <3>1, <3>2 DEF IndexSaved
      <3>4. Unseeded => Unseeded'
        BY <3>1, <3>2, UnseededMoves DEF Trained
      <3>5. SeedersInv'
        BY <1>a, <3>1, <3>3, RankerMoves DEF Trained
      <3>6. QED
        BY <1>b, <3>2, <3>3, <3>4, <3>5, RankerFrames
    <2>3. QED
      BY <2>1, <2>2
  <1>12. ASSUME NEW p \in Pods, Boot(p) \/ LoadIndex(p) \/ LoadRanker(p) PROVE RankerInv'
    <2>1. UNCHANGED <<at, built, saved>>
      BY <1>12 DEF Boot, LoadIndex, LoadRanker
    <2>2. /\ late \subseteq late'
          /\ \A q \in Pods \ {p} : pod'[q] = pod[q] /\ served'[q] = served[q]
      BY <1>12, <1>a DEF Boot, LoadIndex, LoadRanker, PodsType
    <2>3. PodInv(p)
      BY DEF RankerInv, PodsInv
    <2>4. /\ pod'[p] \in {"down", "load index"} => served'[p] = {}
          /\ pod'[p] = "load ranker" /\ "index" \notin served'[p] /\ p \notin late' => Unseeded
          /\ "ranker" \in served'[p] => "index" \in served'[p] \/ p \in late'
      <3>1. CASE Boot(p)
        BY <3>1, <1>a, <2>3 DEF Boot, PodsType, PodInv
      <3>2. CASE LoadIndex(p)
        <4>1. pod'[p] = "load ranker" /\ served'[p] = IF index # {} THEN {"index"} ELSE {}
          BY <3>2, <1>a DEF LoadIndex, PodsType
        <4>2. p \notin late' => "index" \notin cut /\ \A s \in Seeders : at[s] # "saving"
          BY <3>2 DEF LoadIndex
        <4>3. "index" \notin served'[p] /\ p \notin late' => ~IndexSaved
          BY <4>1, <4>2 DEF IndexSaved
        <4>4. ~IndexSaved => Unseeded
          BY DEF RankerInv, ModelInv, SeedersInv, Unseeded
        <4>5. QED
          BY <4>1, <4>3, <4>4
      <3>3. CASE LoadRanker(p)
        BY <3>3, <1>a, <2>3 DEF LoadRanker, PodsType, PodInv, Unseeded
      <3>4. QED
        BY <1>12, <3>1, <3>2, <3>3
    <2>5. PodInv(p)'
      BY <2>1, <2>4 DEF PodInv, Unseeded
    <2>6. \A q \in Pods \ {p} : PodInv(q)'
      BY <2>1, <2>2 DEF RankerInv, PodsInv, PodInv, Unseeded
    <2>7. PodsInv'
      BY <2>5, <2>6 DEF PodsInv
    <2>8. QED
      BY <1>b, <2>1, <2>7, RankerFrames DEF IndexSaved
  <1>13. ASSUME NEW g \in Gens,
               \/ StartGenerator(g) \/ InsertCatalogue(g) \/ InsertInteractions(g)
               \/ SaveFile(g) \/ GeneratorDies(g)
         PROVE RankerInv'
    BY <1>1, <1>13 DEF StartGenerator, InsertCatalogue, InsertInteractions, SaveFile, GeneratorDies
  <1>14. CASE Upgrade \/ PartitionsEnd \/ Downgrade
    BY <1>1, <1>14 DEF Upgrade, PartitionsEnd, Downgrade
  <1>15. CASE UNCHANGED seedingVars \/ \E u \in Users : EmbeddingExpires(u)
    BY <1>1, <1>15 DEF seedingVars, EmbeddingExpires
  <1>16. QED
    BY <1>2, <1>3, <1>4, <1>5, <1>6, <1>7, <1>8, <1>9, <1>10, <1>11, <1>12, <1>13, <1>14, <1>15
       DEF Next

LEMMA ArraysStep == TypeOK /\ ArraysInv /\ [Next]_seedingVars => ArraysInv'
  <1> SUFFICES ASSUME TypeOK, ArraysInv, [Next]_seedingVars PROVE ArraysInv'
    OBVIOUS
  <1>a. GeneratorsType
    BY TypeParts
  <1> USE DEF generators
  <1>1. CASE /\ UNCHANGED <<file, mixed>>
             /\ \A h \in Gens : Halfway(h)' <=> Halfway(h)
    BY <1>1 DEF ArraysInv
  <1>2. CASE UNCHANGED generators
    BY <1>1, <1>2 DEF Halfway
  <1>3. ASSUME NEW g \in Gens, StartGenerator(g) \/ InsertCatalogue(g) \/ InsertInteractions(g)
        PROVE  ArraysInv'
    BY <1>a, <1>1, <1>3
       DEF StartGenerator, InsertCatalogue, InsertInteractions, Proceed, After, GeneratorsType, Halfway
  <1>4. ASSUME NEW g \in Gens, SaveFile(g) PROVE ArraysInv'
    <2>1. \A h \in Gens \ {g} : Halfway(h)' <=> Halfway(h)
      BY <1>4, <1>a DEF SaveFile, Proceed, GeneratorsType, Halfway
    <2>2. CASE step[g] = "parquet"
      <3>1. ~Halfway(g) /\ ~Halfway(g)' /\ mixed' = mixed
        BY <1>4, <1>a, <2>2 DEF SaveFile, Proceed, After, GeneratorsType, Halfway, Arrays
      <3>2. file'["user_ids"] = file["user_ids"] /\ file'["user_factors"] = file["user_factors"]
        BY <1>4, <1>a, <2>2 DEF SaveFile, Saved, GeneratorsType, Files, Arrays
      <3>3. QED
        BY <2>1, <3>1, <3>2 DEF ArraysInv
    <2>3. CASE step[g] = "user_ids"
      <3>1. Halfway(g)' /\ ~Halfway(g)
        BY <1>4, <1>a, <2>3 DEF SaveFile, Proceed, After, GeneratorsType, Halfway
      <3>9. ~mixed' => \A h \in Gens \ {g} : ~Halfway(h)
        BY <1>4, <2>3 DEF SaveFile, Arrays
      <3>2. file'["user_ids"] = g
        BY <1>4, <1>a, <2>3 DEF SaveFile, Saved, GeneratorsType, Files, Arrays
      <3>3. QED
        BY <2>1, <3>1, <3>9, <3>2 DEF ArraysInv
    <2>4. CASE step[g] = "user_factors"
      <3>1. ~Halfway(g)' /\ Halfway(g) /\ (mixed' = ((\E h \in Gens \ {g} : Halfway(h)) \/ mixed))
        BY <1>4, <1>a, <2>4 DEF SaveFile, Proceed, After, GeneratorsType, Halfway, Arrays
      <3>2. file'["user_ids"] = file["user_ids"] /\ file'["user_factors"] = g
        BY <1>4, <1>a, <2>4 DEF SaveFile, Saved, GeneratorsType, Files, Arrays
      <3>3. QED
        BY <2>1, <3>1, <3>2 DEF ArraysInv
    <2>5. QED
      BY <1>4, <2>2, <2>3, <2>4 DEF SaveFile, Files, Arrays
  <1>5. ASSUME NEW g \in Gens, GeneratorDies(g) PROVE ArraysInv'
    <2>1. \A h \in Gens \ {g} : Halfway(h)' <=> Halfway(h)
      BY <1>5, <1>a DEF GeneratorDies, Proceed, GeneratorsType, Halfway
    <2>2. ~Halfway(g)' /\ (mixed' = (mixed \/ Halfway(g)))
      BY <1>5, <1>a DEF GeneratorDies, Proceed, GeneratorsType, Halfway
    <2>3. step[g] # "user_factors" =>
            /\ file'["user_ids"] \in {file["user_ids"], None}
            /\ file'["user_factors"] = file["user_factors"]
      BY <1>5, <1>a DEF GeneratorDies, GeneratorsType, Files, Arrays
    <2>4. QED
      BY <2>1, <2>2, <2>3 DEF ArraysInv, Halfway
  <1>6. ASSUME NEW s \in Seeders,
               \/ StartSeeder(s) \/ BuildIndex(s) \/ OpenIndex(s) \/ SaveIndex(s)
               \/ Train(s) \/ OpenModel(s) \/ SaveModel(s)
               \/ LoadIds(s) \/ LoadFactors(s) \/ WarmUser(s) \/ SeederDies(s)
        PROVE  ArraysInv'
    BY <1>2, <1>6 DEF StartSeeder, BuildIndex, OpenIndex, SaveIndex, Train, OpenModel, SaveModel,
                      LoadIds, LoadFactors, WarmUser, SeederDies
  <1>7. CASE Upgrade \/ PartitionsEnd \/ Downgrade \/ \E u \in Users : EmbeddingExpires(u)
    BY <1>2, <1>7 DEF Upgrade, PartitionsEnd, Downgrade, EmbeddingExpires
  <1>8. CASE UNCHANGED seedingVars \/ \E p \in Pods : Boot(p) \/ LoadIndex(p) \/ LoadRanker(p)
    BY <1>2, <1>8 DEF seedingVars, Boot, LoadIndex, LoadRanker
  <1>9. QED
    BY <1>3, <1>4, <1>5, <1>6, <1>7, <1>8 DEF Next

LEMMA LoadsStep == TypeOK /\ ArraysInv /\ LoadsInv /\ [Next]_seedingVars => LoadsInv'
  <1> SUFFICES ASSUME TypeOK, ArraysInv, LoadsInv, [Next]_seedingVars PROVE LoadsInv'
    OBVIOUS
  <1>a. GeneratorsType /\ SeedersType
    BY TypeParts
  <1> USE DEF generators, seeders
  <1>1. CASE /\ UNCHANGED seeders /\ file'["user_factors"] = file["user_factors"]
             /\ \A g \in Gens : Halfway(g)' => Halfway(g)
    BY <1>1 DEF LoadsInv
  <1>2. CASE UNCHANGED <<generators, seeders>>
    BY <1>1, <1>2 DEF Halfway
  <1>3. ASSUME NEW g \in Gens, StartGenerator(g) \/ InsertCatalogue(g) \/ InsertInteractions(g)
        PROVE  LoadsInv'
    BY <1>a, <1>1, <1>3
       DEF StartGenerator, InsertCatalogue, InsertInteractions, Proceed, After, GeneratorsType, Halfway
  <1>4. ASSUME NEW g \in Gens, SaveFile(g) PROVE LoadsInv'
    <2>1. UNCHANGED <<at, ids, factors>>
      BY <1>4 DEF SaveFile
    <2>2. CASE step[g] = "parquet"
      <3>1. UNCHANGED seeders
        BY <1>4, <1>a, <2>2 DEF SaveFile, Arrays, SeedersType
      <3>2. file'["user_factors"] = file["user_factors"]
        BY <1>4, <1>a, <2>2 DEF SaveFile, Saved, GeneratorsType, Files, Arrays
      <3>3. \A h \in Gens : Halfway(h)' => Halfway(h)
        BY <1>4, <1>a, <2>2 DEF SaveFile, Proceed, After, GeneratorsType, Halfway
      <3>4. QED
        BY <1>1, <3>1, <3>2, <3>3
    <2>3. CASE step[g] \in Arrays
      <3>1. loud' = loud \cup {s \in Seeders : at[s] = "user_factors"}
        BY <1>4, <2>3 DEF SaveFile, Reading
      <3>2. QED
        BY <2>1, <3>1 DEF LoadsInv
    <2>4. QED
      BY <1>4, <2>2, <2>3 DEF SaveFile, Files
  <1>5. ASSUME NEW g \in Gens, GeneratorDies(g) PROVE LoadsInv'
    <2>1. UNCHANGED seeders
      BY <1>5 DEF GeneratorDies
    <2>2. \A h \in Gens : Halfway(h)' => Halfway(h)
      BY <1>5, <1>a DEF GeneratorDies, Proceed, GeneratorsType, Halfway
    <2>3. ~Halfway(g) => file'["user_factors"] = file["user_factors"]
      BY <1>5, <1>a DEF GeneratorDies, GeneratorsType, Halfway, Files, Arrays
    <2>4. QED
      BY <2>1, <2>2, <2>3 DEF LoadsInv
  <1>6. ASSUME NEW s \in Seeders, End(s), UNCHANGED generators PROVE LoadsInv'
    <2>1. file' = file /\ \A g \in Gens : Halfway(g)' <=> Halfway(g)
      BY <1>6 DEF Halfway
    <2>2. QED
      BY <1>6, <1>a, <2>1, Ends DEF LoadsInv
  <1>7. ASSUME NEW s \in Seeders, NEW to \in Seeds \ Arrays, to # "users", Advance(s, to),
               UNCHANGED <<ids, factors, loud, generators>>
        PROVE  LoadsInv'
    <2>1. at'[s] = to /\ \A t \in Seeders \ {s} : at'[t] = at[t]
      BY <1>7, <1>a DEF Advance, SeedersType
    <2>2. file' = file /\ \A g \in Gens : Halfway(g)' <=> Halfway(g)
      BY <1>7 DEF Halfway
    <2>3. QED
      BY <1>7, <2>1, <2>2 DEF LoadsInv, Arrays
  <1>8. ASSUME NEW s \in Seeders,
               \/ StartSeeder(s) \/ BuildIndex(s) \/ OpenIndex(s) \/ SaveIndex(s)
               \/ Train(s) \/ OpenModel(s)
        PROVE  LoadsInv'
    BY <1>6, <1>7, <1>8
       DEF StartSeeder, First, BuildIndex, OpenIndex, SaveIndex, Train, OpenModel, Seeds, Arrays
  <1>9. ASSUME NEW s \in Seeders, SaveModel(s) PROVE LoadsInv'
    <2>1. at'[s] = "user_ids" /\ \A t \in Seeders \ {s} : at'[t] = at[t]
      BY <1>9, <1>a DEF SaveModel, Advance, SeedersType
    <2>2. file' = file /\ UNCHANGED <<ids, factors, loud>>
          /\ \A g \in Gens : Halfway(g)' <=> Halfway(g)
      BY <1>9 DEF SaveModel, Halfway
    <2>3. QED
      BY <2>1, <2>2 DEF LoadsInv
  <1>10. ASSUME NEW s \in Seeders, LoadIds(s) PROVE LoadsInv'
    <2>1. CASE End(s)
      BY <1>6, <1>10, <2>1 DEF LoadIds
    <2>2. CASE ~End(s)
      <3>1. at'[s] = "user_factors" /\ ids'[s] = file["user_ids"] /\ file["user_ids"] \in Gens
        BY <1>10, <1>a, <2>2 DEF LoadIds, Advance, SeedersType, GeneratorsType, Files, Arrays
      <3>2. \A t \in Seeders \ {s} : at'[t] = at[t] /\ ids'[t] = ids[t]
        BY <1>10, <1>a, <2>2 DEF LoadIds, Advance, SeedersType
      <3>3. \A t \in Seeders \ {s} : t \in loud' <=> t \in loud
        BY <1>10, <2>2 DEF LoadIds, Hears
      <3>4. s \notin loud' => ~mixed /\ \A g \in Gens : ~Halfway(g)
        BY <1>10, <2>2 DEF LoadIds, Hears
      <3>5. s \notin loud' => file["user_ids"] = file["user_factors"]
        BY <3>1, <3>4 DEF ArraysInv, GeneratorsType
      <3>6. file' = file /\ factors' = factors /\ \A g \in Gens : Halfway(g)' <=> Halfway(g)
        BY <1>10, <2>2 DEF LoadIds, Halfway
      <3>7. QED
        BY <3>1, <3>2, <3>3, <3>4, <3>5, <3>6 DEF LoadsInv
    <2>3. QED
      BY <2>1, <2>2
  <1>11. ASSUME NEW s \in Seeders, LoadFactors(s) PROVE LoadsInv'
    <2>1. CASE End(s)
      BY <1>6, <1>11, <2>1 DEF LoadFactors
    <2>2. CASE ~End(s)
      <3>1. /\ at[s] = "user_factors" /\ at'[s] = "users"
            /\ factors'[s] = file["user_factors"] /\ file["user_factors"] \in Gens
        BY <1>11, <1>a, <2>2 DEF LoadFactors, Advance, SeedersType, GeneratorsType, Files, Arrays
      <3>2. \A t \in Seeders \ {s} : at'[t] = at[t] /\ factors'[t] = factors[t]
        BY <1>11, <1>a, <2>2 DEF LoadFactors, Advance, SeedersType
      <3>3. \A t \in Seeders \ {s} : t \in loud' <=> t \in loud
        BY <1>11, <2>2 DEF LoadFactors, Hears
      <3>4. s \in loud => s \in loud'
        BY <1>11, <2>2 DEF LoadFactors, Hears
      <3>5. file' = file /\ ids' = ids /\ \A g \in Gens : Halfway(g)' <=> Halfway(g)
        BY <1>11, <2>2 DEF LoadFactors, Halfway
      <3>6. QED
        BY <3>1, <3>2, <3>3, <3>4, <3>5 DEF LoadsInv
    <2>3. QED
      BY <2>1, <2>2
  <1>12. ASSUME NEW s \in Seeders, WarmUser(s) \/ SeederDies(s) PROVE LoadsInv'
    <2>1. UNCHANGED generators /\ (End(s) \/ UNCHANGED <<at, ids, factors, loud>>)
      BY <1>12 DEF WarmUser, SeederDies
    <2>2. file' = file /\ \A g \in Gens : Halfway(g)' <=> Halfway(g)
      BY <2>1 DEF Halfway
    <2>3. CASE UNCHANGED <<at, ids, factors, loud>>
      BY <2>2, <2>3 DEF LoadsInv
    <2>4. QED
      BY <1>6, <2>1, <2>3
  <1>13. CASE Upgrade \/ PartitionsEnd \/ Downgrade \/ \E u \in Users : EmbeddingExpires(u)
    BY <1>2, <1>13 DEF Upgrade, PartitionsEnd, Downgrade, EmbeddingExpires
  <1>14. CASE UNCHANGED seedingVars \/ \E p \in Pods : Boot(p) \/ LoadIndex(p) \/ LoadRanker(p)
    BY <1>2, <1>14 DEF seedingVars, Boot, LoadIndex, LoadRanker
  <1>15. QED
    BY <1>3, <1>4, <1>5, <1>8, <1>9, <1>10, <1>11, <1>12, <1>13, <1>14 DEF Next

LEMMA EmbeddingStep ==
    TypeOK /\ LoadsInv /\ EmbeddingsAreOwn /\ [Next]_seedingVars => EmbeddingsAreOwn'
  <1> SUFFICES ASSUME TypeOK, LoadsInv, EmbeddingsAreOwn, [Next]_seedingVars
               PROVE  EmbeddingsAreOwn'
    OBVIOUS
  <1>a. RedisType
    BY TypeParts
  <1> USE DEF redis
  <1>1. CASE UNCHANGED redis
    BY <1>1 DEF EmbeddingsAreOwn
  <1>2. ASSUME NEW s \in Seeders, WarmUser(s), embedding' # embedding \/ spoilt' # spoilt
        PROVE  EmbeddingsAreOwn'
    <2> DEFINE u == <<ids[s], next[s]>>
    <2>1. /\ embedding' = [embedding EXCEPT ![u] = <<factors[s], next[s]>>]
          /\ spoilt' = IF s \in loud THEN spoilt \cup {u} ELSE spoilt \ {u}
          /\ at[s] = "users"
      BY <1>2 DEF WarmUser
    <2>2. s \notin loud => <<factors[s], next[s]>> = u
      BY <2>1 DEF LoadsInv
    <2> HIDE DEF u
    <2>3. \A v \in Users \ {u} : embedding'[v] = embedding[v] /\ (v \in spoilt' <=> v \in spoilt)
      BY <1>a, <2>1 DEF RedisType
    <2>4. u \in Users => embedding'[u] = <<factors[s], next[s]>>
      BY <1>a, <2>1 DEF RedisType
    <2>5. s \in loud => u \in spoilt'
      BY <2>1
    <2>6. QED
      BY <2>2, <2>3, <2>4, <2>5 DEF EmbeddingsAreOwn
  <1>3. ASSUME NEW u \in Users, EmbeddingExpires(u) PROVE EmbeddingsAreOwn'
    BY <1>a, <1>3 DEF EmbeddingExpires, RedisType, EmbeddingsAreOwn
  <1>4. ASSUME NEW g \in Gens,
               \/ StartGenerator(g) \/ InsertCatalogue(g) \/ InsertInteractions(g)
               \/ SaveFile(g) \/ GeneratorDies(g)
        PROVE  EmbeddingsAreOwn'
    BY <1>1, <1>4 DEF StartGenerator, InsertCatalogue, InsertInteractions, SaveFile, GeneratorDies
  <1>5. ASSUME NEW s \in Seeders,
               \/ StartSeeder(s) \/ BuildIndex(s) \/ OpenIndex(s) \/ SaveIndex(s)
               \/ Train(s) \/ OpenModel(s) \/ SaveModel(s)
               \/ LoadIds(s) \/ LoadFactors(s) \/ SeederDies(s)
        PROVE  EmbeddingsAreOwn'
    BY <1>1, <1>5 DEF StartSeeder, BuildIndex, OpenIndex, SaveIndex, Train, OpenModel, SaveModel,
                      LoadIds, LoadFactors, SeederDies
  <1>6. CASE Upgrade \/ PartitionsEnd \/ Downgrade
    BY <1>1, <1>6 DEF Upgrade, PartitionsEnd, Downgrade
  <1>7. CASE UNCHANGED seedingVars \/ \E p \in Pods : Boot(p) \/ LoadIndex(p) \/ LoadRanker(p)
    BY <1>1, <1>7 DEF seedingVars, Boot, LoadIndex, LoadRanker
  <1>8. QED
    BY <1>1, <1>2, <1>3, <1>4, <1>5, <1>6, <1>7 DEF Next

\* The inductive invariant: what is named, what is held, and the properties themselves.
THEOREM SeedingInvariant == Spec => []SInv
  <1>1. Init => SInv
    BY InitSInv
  <1>2. SInv /\ [Next]_seedingVars => SInv'
    BY TypeStep, NamedStep, RankerStep, ArraysStep, LoadsStep, EmbeddingStep DEF SInv
  <1>3. QED
    BY <1>1, <1>2, PTL DEF Spec

\* The type invariant.
THEOREM SeedingTypeCorrect == Spec => []TypeOK
  BY SeedingInvariant, PTL DEF SInv

\* Seeding gives every user its own embedding, unless it read what a generator was writing.
THEOREM EmbeddingsOwned == Spec => []EmbeddingsAreOwn
  BY SeedingInvariant, PTL DEF SInv

\* The index holds committed items only; the files and Redis only runs whose interactions were
\* committed too.
THEOREM NamesAreCommitted == Spec => []NamedWasCommitted
  <1>1. SInv => NamedWasCommitted
    BY DEF SInv, NamedInv, NamedWasCommitted, RowsNamed, IndexNamed, FilesNamed, UsersNamed, Known,
           Written
  <1>2. QED
    BY <1>1, SeedingInvariant, PTL

\* A ranker comes with an index, but for a pod that booted while one was saved or found one cut.
THEOREM RankersHaveIndex == Spec => []RankerHasIndex
  <1>1. SInv => RankerHasIndex
    BY DEF SInv, RankerInv, PodsInv, PodInv, RankerHasIndex
  <1>2. QED
    BY <1>1, SeedingInvariant, PTL
====

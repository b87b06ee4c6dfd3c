---- MODULE Seeding ----
(***************************************************************************)
(* How an installation gets its data: the migration (db/migrations), the   *)
(* generator (scripts/generate_synthetic_data.py), the seeding script      *)
(* (scripts/seed_faiss_index.py with IndexBuilder) and the API that boots  *)
(* from what they leave (lifespan in api/main.py).  They share PostgreSQL, *)
(* Redis and the files of ./data, and nothing keeps two of them apart:     *)
(* each may run, die and run again while others are in the middle.         *)
(*                                                                         *)
(* A run of the generator stands for its ids and factors, so a file or a   *)
(* table is named by the runs whose rows it holds.                         *)
(*                                                                         *)
(*   schema          none, open, or over: the months it has partitions of  *)
(*                   interactions for are over                             *)
(*   committed, interactions  the runs with committed rows in the tables   *)
(*   step, file      what each generator does next; the files of ./data    *)
(*   at, built, ids, factors, next  what each seeder does next, the index  *)
(*                   it built, the users' arrays it has loaded, the user   *)
(*                   it warms next                                         *)
(*   index, model    the runs in the index file, none when it cannot be    *)
(*                   read; is there a model file that can                  *)
(*   cut             which of these two files may be unreadable for good:  *)
(*                   a save was cut off, or two wrote it at once           *)
(*   embedding       user:{id}:embedding                                   *)
(*   pod, served     what each API process does; which of an index and a   *)
(*                   ranker it has                                         *)
(*                                                                         *)
(* Ghosts: dropped, lost (runs whose tables, and whose interactions, a     *)
(* downgrade removed), mixed (the arrays were cut off half written, or     *)
(* written by two runs at once), loud (the seeders that read mixed or      *)
(* changing arrays), spoilt (the users one of them warmed), late (the pods *)
(* that booted while an index was saved, or found one that was cut).       *)
(***************************************************************************)
EXTENDS Naturals, FiniteSets

CONSTANTS
    Gens,           \* runs of generate_synthetic_data
    NumUsers,       \* --users of each
    Seeders,        \* who runs seed_faiss_index, again and again
    Pods,           \* processes of the API; a restarted one is another
    WarmMax,        \* user_ids[:500]
    None            \* no file, nothing cached

ASSUME SeedingAssumption ==
    /\ None \notin Gens /\ None \notin Gens \X Nat
    /\ NumUsers \in [Gens -> Nat]
    /\ WarmMax \in Nat

\* The arrays of the items are written and read in between, in the same way; all that depends on
\* them is whether a load fails, which ends a seeder as SeederDies does.  So does the load of an
\* array, or of the parquet file, that is being written.
Arrays == {"user_ids", "user_factors"}
Files == Arrays \cup {"parquet"}
Steps == Files \cup {"off", "catalogue", "interactions", "ended"}
Seeds == {"build", "save", "saving", "train", "save model", "saving model",
          "user_ids", "user_factors", "users", "ended"}
Users == UNION {{g} \X (1..NumUsers[g]) : g \in Gens}

VARIABLES schema, committed, interactions, step, file,
          at, built, ids, factors, next, loud, index, model, embedding,
          pod, served, dropped, lost, mixed, spoilt, cut, late

database == <<schema, committed, interactions, dropped, lost>>
generators == <<step, file, mixed>>
seeders == <<at, built, ids, factors, next, loud>>
saved == <<index, model, cut>>
redis == <<embedding, spoilt>>
pods == <<pod, served, late>>
seedingVars == <<database, generators, seeders, saved, redis, pods>>

TypeOK ==
    /\ schema \in {"none", "open", "over"}
    /\ committed \subseteq Gens /\ interactions \subseteq Gens
    /\ dropped \subseteq Gens /\ lost \subseteq Gens
    /\ step \in [Gens -> Steps]
    /\ file \in [Files -> Gens \cup {None}]
    /\ at \in [Seeders -> Seeds]
    /\ built \in [Seeders -> SUBSET Gens]
    /\ ids \in [Seeders -> Gens \cup {None}]
    /\ factors \in [Seeders -> Gens \cup {None}]
    /\ next \in [Seeders -> Nat \ {0}]
    /\ loud \subseteq Seeders
    /\ index \subseteq Gens /\ model \in BOOLEAN
    /\ embedding \in [Users -> (Gens \X Nat) \cup {None}]
    /\ pod \in [Pods -> {"down", "load index", "load ranker", "up"}]
    /\ served \in [Pods -> SUBSET {"index", "ranker"}]
    /\ late \subseteq Pods /\ spoilt \subseteq Users
    /\ mixed \in BOOLEAN /\ cut \subseteq {"index", "model"}

Init ==
    /\ schema = "none"
    /\ committed = {} /\ interactions = {} /\ dropped = {} /\ lost = {}
    /\ step = [g \in Gens |-> "off"]
    /\ file = [f \in Files |-> None]
    /\ at = [s \in Seeders |-> "ended"]
    /\ built = [s \in Seeders |-> {}]
    /\ ids = [s \in Seeders |-> None]
    /\ factors = [s \in Seeders |-> None]
    /\ next = [s \in Seeders |-> 1]
    /\ loud = {}
    /\ index = {} /\ model = FALSE
    /\ embedding = [u \in Users |-> None]
    /\ pod = [p \in Pods |-> "down"]
    /\ served = [p \in Pods |-> {}]
    /\ late = {} /\ spoilt = {}
    /\ mixed = FALSE /\ cut = {}

-----------------------------------------------------------------------------
(* The schema *)

\* Tables, and 24 monthly partitions of interactions from twelve months back.
Upgrade ==
    /\ schema = "none"
    /\ schema' = "open"
    /\ UNCHANGED <<committed, interactions, dropped, lost, generators, seeders, saved, redis, pods>>

\* Nothing creates a partition later on.
PartitionsEnd ==
    /\ schema = "open"
    /\ schema' = "over"
    /\ UNCHANGED <<committed, interactions, dropped, lost, generators, seeders, saved, redis, pods>>

\* Drops every table; the files and Redis keep what they have.
Downgrade ==
    /\ schema # "none"
    /\ schema' = "none" /\ committed' = {} /\ interactions' = {}
    /\ dropped' = dropped \cup committed /\ lost' = lost \cup interactions
    /\ UNCHANGED <<generators, seeders, saved, redis, pods>>

-----------------------------------------------------------------------------
(* generate_synthetic_data *)

\* One array is written, or read, and the other not yet.
Halfway(g) == step[g] = "user_factors"
Reading(s) == at[s] = "user_factors"

Proceed(g, to) == step' = [step EXCEPT ![g] = to]

\* Mutant: the training file is written before the interactions.
MutAfter ==
    [catalogue |-> "parquet", parquet |-> "interactions", interactions |-> "user_ids",
     user_ids |-> "user_factors", user_factors |-> "ended"]

\* The order of main().
After ==
    [catalogue |-> "interactions", interactions |-> "parquet", parquet |-> "user_ids",
     user_ids |-> "user_factors", user_factors |-> "ended"]

StartGenerator(g) ==
    /\ step[g] = "off"
    /\ Proceed(g, "catalogue")
    /\ UNCHANGED <<database, file, mixed, seeders, saved, redis, pods>>

\* Users and items in one transaction; without a schema the INSERT raises.
InsertCatalogue(g) ==
    /\ step[g] = "catalogue"
    /\ \/ /\ schema # "none"
          /\ committed' = committed \cup {g}
          /\ Proceed(g, After[step[g]])
       \/ /\ schema = "none"
          /\ Proceed(g, "ended")
          /\ UNCHANGED committed
    /\ UNCHANGED <<schema, interactions, dropped, lost, file, mixed, seeders, saved, redis, pods>>

\* One transaction again: refused without the rows it refers to or a partition for its dates.
InsertInteractions(g) ==
    /\ step[g] = "interactions"
    /\ \/ /\ g \in committed /\ schema = "open"
          /\ interactions' = interactions \cup {g}
          /\ Proceed(g, After[step[g]])
       \/ /\ g \notin committed \/ schema = "over"
          /\ Proceed(g, "ended")
          /\ UNCHANGED interactions
    /\ UNCHANGED <<schema, committed, dropped, lost, file, mixed, seeders, saved, redis, pods>>

\* Mutant: user_factors.npy of an earlier run is kept.
MutSaved(g) ==
    IF step[g] = "user_factors" /\ file["user_factors"] # None THEN file
    ELSE [file EXCEPT ![step[g]] = g]

\* to_parquet and np.save overwrite the file.
Saved(g) == [file EXCEPT ![step[g]] = g]

SaveFile(g) ==
    /\ step[g] \in Files
    /\ file' = Saved(g)
    /\ Proceed(g, After[step[g]])
    /\ mixed' = IF step[g] \in Arrays
                THEN (\E h \in Gens \ {g} : Halfway(h)) \/ (mixed /\ Halfway(g))
                ELSE mixed
    /\ loud' = loud \cup {s \in Seeders : step[g] \in Arrays /\ Reading(s)}
    /\ UNCHANGED <<database, at, built, ids, factors, next, saved, redis, pods>>

\* The generator dies; a file it was writing may be left unreadable.  (Before its files a death
\* is a run that takes no more steps: its transactions are all or nothing.)
GeneratorDies(g) ==
    /\ step[g] \in Files
    /\ Proceed(g, "ended")
    /\ file' \in {file, [file EXCEPT ![step[g]] = None]}
    /\ mixed' = (mixed \/ Halfway(g))
    /\ UNCHANGED <<database, seeders, saved, redis, pods>>

-----------------------------------------------------------------------------
(* seed_faiss_index *)

\* Mutant: the script trains before it has built the index.
MutFirst == "train"

\* main() builds the index first.
First == "build"

Advance(s, to) == at' = [at EXCEPT ![s] = to]

StartSeeder(s) ==
    /\ at[s] = "ended"
    /\ Advance(s, First)
    /\ UNCHANGED <<database, generators, built, ids, factors, next, loud, saved, redis, pods>>

\* The process is over, whatever it still held.
End(s) ==
    /\ Advance(s, "ended")
    /\ built' = [built EXCEPT ![s] = {}]
    /\ ids' = [ids EXCEPT ![s] = None]
    /\ factors' = [factors EXCEPT ![s] = None]
    /\ next' = [next EXCEPT ![s] = 1]
    /\ loud' = loud \ {s}

\* _load_embedded_items
EmbeddedItems == committed

\* build_global_index; with no items the index stays unbuilt, and save() raises.
BuildIndex(s) ==
    /\ at[s] = "build"
    /\ \/ /\ EmbeddedItems # {}
          /\ built' = [built EXCEPT ![s] = EmbeddedItems]
          /\ Advance(s, "save")
          /\ UNCHANGED <<ids, factors, next, loud>>
       \/ EmbeddedItems = {} /\ End(s)
    /\ UNCHANGED <<database, generators, saved, redis, pods>>

\* write_index and save_model open their file for writing, which empties it, and write it in
\* pieces.  A save that starts alone makes good what an earlier one left.
Opens(s, writing, f) ==
    cut' = IF \E t \in Seeders \ {s} : at[t] = writing THEN cut \cup {f} ELSE cut \ {f}

\* index.save (FaissIndex has its two files)
OpenIndex(s) ==
    /\ at[s] = "save"
    /\ index' = {}
    /\ Opens(s, "saving", "index")
    /\ Advance(s, "saving")
    /\ UNCHANGED <<database, generators, built, ids, factors, next, loud, model, redis, pods>>

SaveIndex(s) ==
    /\ at[s] = "saving"
    /\ index' \in IF "index" \in cut THEN {built[s], {}} ELSE {built[s]}
    /\ built' = [built EXCEPT ![s] = {}]
    /\ late' = late \cup {p \in Pods : pod[p] = "load ranker"}
    /\ Advance(s, "train")
    /\ UNCHANGED <<database, generators, ids, factors, next, loud, model, cut, redis, pod, served>>

\* train_ranking_model from the parquet file
Train(s) ==
    /\ at[s] = "train"
    /\ \/ /\ file["parquet"] # None
          /\ Advance(s, "save model")
          /\ UNCHANGED <<built, ids, factors, next, loud>>
       \/ file["parquet"] = None /\ End(s)
    /\ UNCHANGED <<database, generators, saved, redis, pods>>

OpenModel(s) ==
    /\ at[s] = "save model"
    /\ model' = FALSE
    /\ Opens(s, "saving model", "model")
    /\ Advance(s, "saving model")
    /\ UNCHANGED <<database, generators, built, ids, factors, next, loud, index, redis, pods>>

SaveModel(s) ==
    /\ at[s] = "saving model"
    /\ model' \in IF "model" \in cut THEN BOOLEAN ELSE {TRUE}
    /\ Advance(s, "user_ids")
    /\ UNCHANGED <<database, generators, built, ids, factors, next, loud, index, cut, redis, pods>>

\* A generator has written one array and not the other, now or when it was cut off.
Hears(s) == loud' = IF mixed \/ \E g \in Gens : Halfway(g) THEN loud \cup {s} ELSE loud

\* np.load raises without a readable file.
LoadIds(s) ==
    /\ at[s] = "user_ids"
    /\ \/ /\ file["user_ids"] # None
          /\ ids' = [ids EXCEPT ![s] = file["user_ids"]]
          /\ Hears(s)
          /\ Advance(s, "user_factors")
          /\ UNCHANGED <<built, factors, next>>
       \/ file["user_ids"] = None /\ End(s)
    /\ UNCHANGED <<database, generators, saved, redis, pods>>

LoadFactors(s) ==
    /\ at[s] = "user_factors"
    /\ \/ /\ file["user_factors"] # None
          /\ factors' = [factors EXCEPT ![s] = file["user_factors"]]
          /\ Hears(s)
          /\ Advance(s, "users")
          /\ UNCHANGED <<built, ids, next>>
       \/ file["user_factors"] = None /\ End(s)
    /\ UNCHANGED <<database, generators, saved, redis, pods>>

Slice(g) == IF NumUsers[g] < WarmMax THEN NumUsers[g] ELSE WarmMax

\* zip(user_ids[:500], user_factors[:500], strict=True): arrays of different lengths raise, but
\* only when the shorter one ends.  The scores of the items follow (RefreshItemScore of Gateway).
WarmUser(s) ==
    LET k == next[s]
        rest == k <= Slice(ids[s]) /\ k <= Slice(factors[s])
        u == <<ids[s], k>>
    IN  /\ at[s] = "users"
        /\ \/ /\ rest
              /\ embedding' = [embedding EXCEPT ![u] = <<factors[s], k>>]
              /\ spoilt' = IF s \in loud THEN spoilt \cup {u} ELSE spoilt \ {u}
              /\ next' = [next EXCEPT ![s] = k + 1]
              /\ UNCHANGED <<at, built, ids, factors, loud>>
           \/ ~rest /\ End(s) /\ UNCHANGED redis
    /\ UNCHANGED <<database, generators, saved, pods>>

\* The seeder dies, anywhere; the file it was writing is left as it is.
SeederDies(s) ==
    /\ at[s] # "ended"
    /\ \/ at[s] \notin {"saving", "saving model"} /\ UNCHANGED saved
       \/ at[s] = "saving" /\ cut' = cut \cup {"index"} /\ UNCHANGED <<index, model>>
       \/ at[s] = "saving model" /\ cut' = cut \cup {"model"} /\ UNCHANGED <<index, model>>
    /\ End(s)
    /\ UNCHANGED <<database, generators, redis, pods>>

\* redis_embedding_ttl_seconds is over; only a seeder writes the key again.
EmbeddingExpires(u) ==
    /\ embedding[u] # None
    /\ embedding' = [embedding EXCEPT ![u] = None]
    /\ spoilt' = spoilt \ {u}
    /\ UNCHANGED <<database, generators, seeders, saved, pods>>

-----------------------------------------------------------------------------
(* The API boots: lifespan *)

Boot(p) ==
    /\ pod[p] = "down"
    /\ pod' = [pod EXCEPT ![p] = "load index"]
    /\ UNCHANGED <<database, generators, seeders, saved, redis, served, late>>

\* Without an index file, or with one that cannot be read, the API goes on: "cold_start_fallback".
LoadIndex(p) ==
    /\ pod[p] = "load index"
    /\ served' = [served EXCEPT ![p] = IF index # {} THEN {"index"} ELSE {}]
    /\ late' = IF "index" \in cut \/ \E s \in Seeders : at[s] = "saving" THEN late \cup {p} ELSE late
    /\ pod' = [pod EXCEPT ![p] = "load ranker"]
    /\ UNCHANGED <<database, generators, seeders, saved, redis>>

\* Without a model file too: "ann_score_fallback".
LoadRanker(p) ==
    /\ pod[p] = "load ranker"
    /\ served' = [served EXCEPT ![p] = IF model THEN @ \cup {"ranker"} ELSE @]
    /\ pod' = [pod EXCEPT ![p] = "up"]
    /\ UNCHANGED <<database, generators, seeders, saved, redis, late>>

-----------------------------------------------------------------------------

Next ==
    \/ Upgrade \/ PartitionsEnd \/ Downgrade
    \/ \E g \in Gens :
        \/ StartGenerator(g) \/ InsertCatalogue(g) \/ InsertInteractions(g)
        \/ SaveFile(g) \/ GeneratorDies(g)
    \/ \E s \in Seeders :
        \/ StartSeeder(s) \/ BuildIndex(s) \/ OpenIndex(s) \/ SaveIndex(s)
        \/ Train(s) \/ OpenModel(s) \/ SaveModel(s)
        \/ LoadIds(s) \/ LoadFactors(s) \/ WarmUser(s) \/ SeederDies(s)
    \/ \E u \in Users : EmbeddingExpires(u)
    \/ \E p \in Pods : Boot(p) \/ LoadIndex(p) \/ LoadRanker(p)

Spec == Init /\ [][Next]_seedingVars

-----------------------------------------------------------------------------
(* Properties *)

\* seed_faiss_index.py:87-95: a cached embedding is that user's own, over any number of runs of
\* different sizes and after any crash, unless its seeder read the arrays while a generator wrote
\* them, or after one was cut off or met another halfway, and none has written them anew since.
EmbeddingsAreOwn == \A u \in Users : embedding[u] \in {u, None} \/ u \in spoilt

\* seed_faiss_index.py, generate_synthetic_data.py: the index holds items that were committed,
\* and what a file or Redis holds comes from a run whose interactions were committed with their
\* users and items: a run that is refused (its partitions are over, its rows were dropped) or
\* dies leaves nothing to train on or to serve.  All of it is still in the tables, unless a
\* downgrade dropped it.
NamedWasCommitted ==
    /\ interactions \subseteq committed
    /\ index \subseteq committed \cup dropped
    /\ \A f \in Files : file[f] # None => file[f] \in interactions \cup lost
    /\ \A u \in Users : embedding[u] # None => u[1] \in interactions \cup lost

\* main.py:60-84: a pod with a ranker has an index for it to rank, unless it booted while an index
\* was saved (it read a file half written, or none, and a save ended before it read the model) or
\* found the file a save was cut off from.  (Without the index every /feed fails.)
RankerHasIndex ==
    \A p \in Pods : "ranker" \in served[p] => "index" \in served[p] \/ p \in late
====

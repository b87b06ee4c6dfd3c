---- MODULE FaissIndex ----
(***************************************************************************)
(* FaissIndex (nexusfeed/retrieval/faiss_index.py): an index and the list  *)
(* that maps its positions to item ids, kept in two attributes.  build()   *)
(* and load() set both under a lock, search() reads both without it, and   *)
(* save() and load() move the pair through two files that processes share: *)
(* scripts/seed_faiss_index.py builds and saves, the API loads and serves. *)
(* Threads interleave at every attribute read, attribute write and file    *)
(* access; a process may die at any time.                                  *)
(*                                                                         *)
(* A generation is one catalogue of embedded items; an index or an id list *)
(* is named by the generation it was made from.                            *)
(*                                                                         *)
(*   index, ids, lock    self._index, self._id_map and the holder of       *)
(*                       self._lock (or NoThread), in each process         *)
(*   indexFile, idsFile  the file at `path` and path + ".ids.txt"          *)
(*   pc                  what each thread does next                        *)
(*   local               the pair of references each thread holds          *)
(*   answer              what the last search of each thread returned      *)
(*                                                                         *)
(* Three ghosts say where the code promises something:                     *)
(*   overlapped  the call of the thread read or wrote a pair that another  *)
(*               call was writing, or one that was left half written       *)
(*   sound       the last swap in the process had its pair from a build or *)
(*               a load that nothing overlapped                            *)
(*   intact      the last write to the files ended a save that nothing     *)
(*               overlapped                                                *)
(***************************************************************************)
EXTENDS Naturals, Sequences, FiniteSets

CONSTANTS
    Threads, NoThread,
    Processes,
    Owner,         \* the process of each thread
    Calls,         \* the methods each thread calls
    Gens,
    Items,
    Content,       \* the item ids of each generation, in index order
    None,          \* no index, or no file
    EmptyIds,      \* the empty id list
    NotReady,      \* IndexNotReadyError
    OutOfRange     \* IndexError of id_map[idx]

ASSUME FaissAssumption ==
    /\ NoThread \notin Threads
    /\ None \notin Gens /\ EmptyIds \notin Gens /\ None # EmptyIds
    /\ Owner \in [Threads -> Processes]
    /\ Calls \in [Threads -> SUBSET {"search", "build", "load", "save"}]
    /\ Content \in [Gens -> Seq(Items)]

VARIABLES index, ids, lock, indexFile, idsFile, pc, local, answer,
          overlapped, sound, intact

memory == <<index, ids, lock, sound>>
files == <<indexFile, idsFile, intact>>
vars == <<memory, files, pc, local, answer, overlapped>>

Refs == [index : Gens \cup {None}, ids : Gens \cup {EmptyIds}]
NoRefs == [index |-> None, ids |-> EmptyIds]
Swap == {"setIndex", "setIds", "release"}

\* Types, and the lock is held by exactly the thread that is inside the swap.
TypeOK ==
    /\ index \in [Processes -> Gens \cup {None}]
    /\ ids \in [Processes -> Gens \cup {EmptyIds}]
    /\ lock \in [Processes -> Threads \cup {NoThread}]
    /\ indexFile \in Gens \cup {None}
    /\ idsFile \in Gens \cup {None, EmptyIds}
    /\ pc \in [Threads -> {"idle", "idMap", "query", "idsFile", "acquire", "saveIds"} \cup Swap]
    /\ local \in [Threads -> Refs]
    /\ answer \in [Threads -> SUBSET (Items \cup {NotReady, OutOfRange})]
    /\ overlapped \in [Threads -> BOOLEAN]
    /\ sound \in [Processes -> BOOLEAN]
    /\ intact \in BOOLEAN
    /\ \A t \in Threads : pc[t] \in Swap <=> lock[Owner[t]] = t

Init ==
    /\ index = [o \in Processes |-> None]
    /\ ids = [o \in Processes |-> EmptyIds]
    /\ lock = [o \in Processes |-> NoThread]
    /\ indexFile = None /\ idsFile = None
    /\ pc = [t \in Threads |-> "idle"]
    /\ local = [t \in Threads |-> NoRefs]
    /\ answer = [t \in Threads |-> {}]
    /\ overlapped = [t \in Threads |-> FALSE]
    /\ sound = [o \in Processes |-> TRUE]
    /\ intact = TRUE

Step(t, from, to) == pc[t] = from /\ pc' = [pc EXCEPT ![t] = to]
Call(t, method, to) ==
    /\ method \in Calls[t]
    /\ Step(t, "idle", to)
    /\ answer' = [answer EXCEPT ![t] = {}]

Sharers(t) == {u \in Threads \ {t} : Owner[u] = Owner[t]}

\* Step of t that leaves its marks on the calls in `others` that are at `places`.
Overlap(others, places) ==
    overlapped' = [u \in Threads |-> overlapped[u] \/ (u \in others /\ pc[u] \in places)]

-----------------------------------------------------------------------------
(* search() *)

\* index = self._index.  Before the first swap there is nothing to search.
ReadIndex(t) ==
    /\ Call(t, "search", "idMap")
    /\ local' = [local EXCEPT ![t] = [index |-> index[Owner[t]], ids |-> EmptyIds]]
    /\ overlapped' = [overlapped EXCEPT ![t] = ~sound[Owner[t]]]
    /\ UNCHANGED <<memory, files>>

\* id_map = self._id_map
ReadIdMap(t) ==
    /\ Step(t, "idMap", "query")
    /\ local' = [local EXCEPT ![t].ids = ids[Owner[t]]]
    /\ UNCHANGED <<memory, files, answer, overlapped>>

Positions(g) == DOMAIN Content[g]

\* Mutant: FAISS positions are taken to start one higher than they do.
MutItemAt(m, n) ==
    IF m # EmptyIds /\ n + 1 \in Positions(m) THEN Content[m][n + 1] ELSE OutOfRange

\* id_map[idx]
ItemAt(m, n) ==
    IF m # EmptyIds /\ n \in Positions(m) THEN Content[m][n] ELSE OutOfRange

\* The nearest neighbours are some of the positions of the index; id_map names them.
\* One position out of range raises, and nothing is returned.
Found(refs, hits) ==
    LET named == {ItemAt(refs.ids, n) : n \in hits}
    IN  IF OutOfRange \in named THEN {OutOfRange} ELSE named

Query(t) ==
    /\ Step(t, "query", "idle")
    /\ \/ /\ local[t].index = None
          /\ answer' = [answer EXCEPT ![t] = {NotReady}]
       \/ /\ local[t].index # None
          /\ \E hits \in SUBSET Positions(local[t].index) :
               answer' = [answer EXCEPT ![t] = Found(local[t], hits)]
    /\ UNCHANGED <<memory, files, local, overlapped>>

-----------------------------------------------------------------------------
(* build(), load() and the swap they share *)

\* The new index and its id list are made off to the side.
Build(t, g) ==
    /\ Call(t, "build", "acquire")
    /\ local' = [local EXCEPT ![t] = [index |-> g, ids |-> g]]
    /\ overlapped' = [overlapped EXCEPT ![t] = FALSE]
    /\ UNCHANGED <<memory, files>>

\* read_index raises without a file and load() does nothing; main.py logs it and goes on.
LoadIndexFile(t) ==
    /\ indexFile # None
    /\ Call(t, "load", "idsFile")
    /\ local' = [local EXCEPT ![t] = [index |-> indexFile, ids |-> EmptyIds]]
    /\ overlapped' = [overlapped EXCEPT ![t] = ~intact]
    /\ UNCHANGED <<memory, files>>

\* Without the .ids.txt file the id list is empty.
LoadIdsFile(t) ==
    /\ Step(t, "idsFile", "acquire")
    /\ local' = [local EXCEPT ![t].ids = IF idsFile = None THEN EmptyIds ELSE idsFile]
    /\ UNCHANGED <<memory, files, answer, overlapped>>

\* Mutant: the lock is taken without waiting for it.
MutAcquire(t) ==
    /\ Step(t, "acquire", "setIndex")
    /\ lock' = [lock EXCEPT ![Owner[t]] = t]
    /\ UNCHANGED <<index, ids, sound, files, local, answer, overlapped>>

Acquire(t) ==
    /\ lock[Owner[t]] = NoThread
    /\ Step(t, "acquire", "setIndex")
    /\ lock' = [lock EXCEPT ![Owner[t]] = t]
    /\ UNCHANGED <<index, ids, sound, files, local, answer, overlapped>>

SetIndex(t) ==
    /\ Step(t, "setIndex", "setIds")
    /\ index' = [index EXCEPT ![Owner[t]] = local[t].index]
    /\ sound' = [sound EXCEPT ![Owner[t]] = FALSE]
    /\ Overlap(Sharers(t), {"idMap", "saveIds"})
    /\ UNCHANGED <<ids, lock, files, local, answer>>

SetIds(t) ==
    /\ Step(t, "setIds", "release")
    /\ ids' = [ids EXCEPT ![Owner[t]] = local[t].ids]
    /\ sound' = [sound EXCEPT ![Owner[t]] = ~overlapped[t]]
    /\ Overlap(Sharers(t), {"idMap", "saveIds"})
    /\ UNCHANGED <<index, lock, files, local, answer>>

Release(t) ==
    /\ Step(t, "release", "idle")
    /\ lock' = [lock EXCEPT ![Owner[t]] = NoThread]
    /\ UNCHANGED <<index, ids, sound, files, local, answer, overlapped>>

-----------------------------------------------------------------------------
(* save() *)

\* write_index(self._index, path)
SaveIndexFile(t) ==
    /\ index[Owner[t]] # None
    /\ Call(t, "save", "saveIds")
    /\ indexFile' = index[Owner[t]]
    /\ intact' = FALSE
    /\ overlapped' = [u \in Threads |->
           IF u = t THEN ~sound[Owner[t]] \/ \E s \in Threads \ {t} : pc[s] = "saveIds"
           ELSE overlapped[u] \/ pc[u] \in {"idsFile", "saveIds"}]
    /\ UNCHANGED <<memory, idsFile, local>>

\* Mutant: an id file that exists is taken to be up to date.
MutSaveIdsFile(t) ==
    /\ Step(t, "saveIds", "idle")
    /\ idsFile' = IF idsFile = None THEN ids[Owner[t]] ELSE idsFile
    /\ intact' = (~overlapped[t] /\ \A s \in Threads \ {t} : pc[s] # "saveIds")
    /\ Overlap(Threads \ {t}, {"idsFile", "saveIds"})
    /\ UNCHANGED <<memory, indexFile, local, answer>>

\* self._id_map is read when its file is written, not when the save began.
SaveIdsFile(t) ==
    /\ Step(t, "saveIds", "idle")
    /\ idsFile' = ids[Owner[t]]
    /\ intact' = (~overlapped[t] /\ \A s \in Threads \ {t} : pc[s] # "saveIds")
    /\ Overlap(Threads \ {t}, {"idsFile", "saveIds"})
    /\ UNCHANGED <<memory, indexFile, local, answer>>

-----------------------------------------------------------------------------

\* A process dies and another takes its place; the files stay as they are.
Crash(o) ==
    LET dead == {t \in Threads : Owner[t] = o} IN
    /\ index' = [index EXCEPT ![o] = None]
    /\ ids' = [ids EXCEPT ![o] = EmptyIds]
    /\ lock' = [lock EXCEPT ![o] = NoThread]
    /\ sound' = [sound EXCEPT ![o] = TRUE]
    /\ pc' = [t \in Threads |-> IF t \in dead THEN "idle" ELSE pc[t]]
    /\ local' = [t \in Threads |-> IF t \in dead THEN NoRefs ELSE local[t]]
    /\ answer' = [t \in Threads |-> IF t \in dead THEN {} ELSE answer[t]]
    /\ overlapped' = [t \in Threads |-> t \notin dead /\ overlapped[t]]
    /\ UNCHANGED files

Search(t) == ReadIndex(t) \/ ReadIdMap(t) \/ Query(t)
Replace(t) ==
    \/ \E g \in Gens : Build(t, g)
    \/ LoadIndexFile(t) \/ LoadIdsFile(t)
    \/ Acquire(t) \/ SetIndex(t) \/ SetIds(t) \/ Release(t)
Save(t) == SaveIndexFile(t) \/ SaveIdsFile(t)

Next ==
    \/ \E t \in Threads : Search(t) \/ Replace(t) \/ Save(t)
    \/ \E o \in Processes : Crash(o)

Spec == Init /\ [][Next]_vars

-----------------------------------------------------------------------------
(* Properties *)

Generation(g) == {Content[g][n] : n \in Positions(g)}

\* "Atomic hot-swap": two swaps never leave one's index beside the other's id list.  The
\* lock of build() and load() is what keeps them apart.
SwapsKeepPairs == \A o \in Processes : sound[o] /\ index[o] # None => ids[o] = index[o]

\* A save that nothing overlapped leaves an index file and an id file of one generation,
\* whatever earlier saves were cut off or raced: the next clean save repairs the pair.
CleanSaveRepairs == intact => (indexFile = None /\ idsFile = None) \/ idsFile = indexFile

\* A search that no swap overlapped answers only items of the generation its index was
\* built from, and never raises IndexError, even when the pair came out of the files.
QuietSearchIsExact ==
    \A t \in Threads :
        LET i == local[t].index IN
        answer[t] # {} /\ ~overlapped[t] /\ i # None
            => answer[t] \subseteq Generation(i)

\* faiss_index.py:4-6: "in-flight requests either see the fully-old or fully-new index,
\* never a partial one": every answer consists of items of one generation.
SearchSeesOneGeneration ==
    \A t \in Threads :
        answer[t] = {NotReady} \/ \E g \in Gens : answer[t] \subseteq Generation(g)

====

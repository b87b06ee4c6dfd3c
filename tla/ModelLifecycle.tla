---- MODULE ModelLifecycle ----
(***************************************************************************)
(* Training, the MLflow registry and the version the API reports:          *)
(* training/trainer.py, hyperparameter_tuning.py and sagemaker_job.py run  *)
(* Trainer.fit (models/train.py); a training run saves its weights and     *)
(* registers a version; operators promote versions and roll back while     *)
(* runs go on (models/model_registry.py); the API reads the production     *)
(* version once, when it boots (api/main.py).  Trainer processes run side  *)
(* by side, all with the default --output, and share that file.            *)
(*                                                                         *)
(* A loss is a number or NaN; what the gradients do to it is any choice.   *)
(* MLflow's calls are atomic, and a process may die between any two.       *)
(***************************************************************************)
EXTENDS Naturals, Sequences, FiniteSetsExt

CONSTANTS
    Trainers,       \* trainer processes
    Losses,         \* validation losses, numbers
    NaN,            \* the loss of a run that diverged
    Inf,            \* float("inf")
    Epochs,         \* values of --epochs; a negative one is range(0) too
    TrialEpochs,    \* max_epochs of an HPO trial
    Patience,       \* [Modes -> Nat]: patience of a training run and of a trial
    Sizes,          \* lengths of the interaction files
    NumItems,       \* --num-items
    NegativeRatio,  \* negatives per positive
    MaxVersions,    \* bound: versions registered
    Operators,      \* people or alerts that promote and roll back
    Pods,           \* API processes
    Nobody

Modes == {"train", "trial"}
Versions == 1..MaxVersions

ASSUME LifecycleAssumption ==
    /\ Losses \subseteq Nat /\ NaN \notin Nat /\ Inf \notin Nat
    /\ Epochs \subseteq Nat /\ TrialEpochs \in Nat
    /\ Patience \in [Modes -> Nat \ {0, 1}]    \* 3 and 2
    /\ Sizes \subseteq Nat /\ NumItems \in Nat \ {0} /\ NegativeRatio \in Nat
    /\ MaxVersions \in Nat
    /\ Nobody \notin Trainers

VARIABLES
    pc,         \* where each trainer process is
    run,        \* what it is running: see Runs
    version,    \* the version it is registering; 0 for none
    artifact,   \* whose weights, of which epoch, are in the --output file
    latest,     \* the last version number the registry gave out
    stage,      \* the stage of each version
    tags,       \* the tags each version carries
    chosen,     \* the version an operator's rollback() has picked; 0 for none
    label,      \* app.state.model_version of each pod; 0 for the fallback
    promoted,   \* ghost: versions promote_to_production was called for
    early,      \* ghost: those of them whose register() had not returned
    untrained,  \* ghost: versions of a run of no epoch
    previous,   \* ghost: the version that was in production before the present one
    orderly,    \* ghost: every promotion was of a newer version that register() had
                \* returned, and nothing was rolled back
    undisturbed \* ghost: operators whose choice no promotion has overtaken

training == <<pc, run, version, artifact>>
registry == <<latest, stage, tags, untrained>>
release == <<chosen, label, promoted, early, previous, orderly, undisturbed>>
vars == <<training, registry, release>>

\* What _evaluate_loss returns: the mean over the batches of the validation rows.
ValLosses == Losses \cup {NaN}

\* The variables of fit(): limit is max_epochs, losses the val_loss metrics logged, one per
\* epoch, best is best_val_loss, stale is epochs_without_improvement, and history the epoch
\* that fit() returns the metrics of, 0 for {}.
Runs == [mode : Modes, limit : Nat, losses : Seq(ValLosses), best : Losses \cup {Inf},
         stale : Nat, history : Nat]

Fresh(m, epochs) ==
    [mode |-> m, limit |-> epochs, losses |-> <<>>, best |-> Inf, stale |-> 0, history |-> 0]

Stages == {"absent", "None", "Staging", "Production", "Archived"}
AllTags == {"metrics", "feature_version"}

TypeOK ==
    /\ pc \in [Trainers -> {"idle", "fit", "fitted", "create", "metrics", "feature", "stage"}]
    /\ run \in [Trainers -> Runs]
    /\ version \in [Trainers -> 0..MaxVersions]
    /\ artifact \in [by : Trainers \cup {Nobody}, epoch : Nat]
    /\ latest \in 0..MaxVersions
    /\ stage \in [Versions -> Stages]
    /\ tags \in [Versions -> SUBSET AllTags]
    /\ chosen \in [Operators -> 0..MaxVersions]
    /\ label \in [Pods -> 0..MaxVersions]
    /\ early \subseteq promoted /\ promoted \subseteq Versions /\ untrained \subseteq Versions
    /\ previous \in 0..MaxVersions
    /\ orderly \in BOOLEAN /\ undisturbed \subseteq Operators

Init ==
    /\ pc = [t \in Trainers |-> "idle"]
    /\ run = [t \in Trainers |-> Fresh("train", 0)]
    /\ version = [t \in Trainers |-> 0]
    /\ artifact = [by |-> Nobody, epoch |-> 0]
    /\ latest = 0
    /\ stage = [v \in Versions |-> "absent"]
    /\ tags = [v \in Versions |-> {}]
    /\ chosen = [o \in Operators |-> 0]
    /\ label = [a \in Pods |-> 0]
    /\ promoted = {} /\ early = {} /\ untrained = {} /\ previous = 0
    /\ orderly = TRUE /\ undisturbed = {}

-----------------------------------------------------------------------------
(* Trainer.fit *)

\* random_split keeps a tenth, and at least one row, for validation.  DataLoader refuses
\* to shuffle an empty training set.
ValSize(n) == Max({1, n \div 10})
Splits(n) == n > ValSize(n)

\* argparse ends a run that lacks one of these.
Required == {"data", "num-users", "num-items", "num-categories"}
CommandLine == Required \cup {"epochs", "batch-size", "lr", "output"}
\* What a job that launch_training_job starts is given: it ends before it has read its data.
Hyperparameters == {"epochs", "batch-size", "lr"}

\* fit() starts from nothing; without an epoch to run it returns at once.
Fit(t, m, epochs, n) ==
    /\ pc[t] = "idle" /\ Splits(n)
    /\ pc' = [pc EXCEPT ![t] = IF epochs = 0 THEN "fitted" ELSE "fit"]
    /\ run' = [run EXCEPT ![t] = Fresh(m, epochs)]
    /\ UNCHANGED <<version, artifact, registry, release>>

\* The bound: a version is left for every run that may register one.
Room == latest + Cardinality({t \in Trainers : pc[t] # "idle"}) < MaxVersions

\* trainer.main, here or on SageMaker, with an interaction file of n rows.
StartTraining(t, given, epochs, n) ==
    Required \subseteq given /\ Room /\ Fit(t, "train", epochs, n)

\* One trial of run_study.
StartTrial(t, n) == Fit(t, "trial", TrialEpochs, n)

\* Mutant: index 0 is kept for padding.
MutNegatives(positive) == [1..NegativeRatio -> (1..(NumItems - 1)) \ {positive}]

\* What the rejection loop of sample_in_batch_negatives can return for one row; it does
\* not return at all when there is nothing to return.
Negatives(positive) == [1..NegativeRatio -> (0..(NumItems - 1)) \ {positive}]

\* InteractionDataset.__getitem__: the row is there once its negatives are drawn.
HasRow(item) == Negatives(item) # {}

\* train_epoch reads every row of the loader, and a row may be of any item.
TrainEpoch == \A item \in 0..(NumItems - 1) : HasRow(item)

\* `val_loss < best_val_loss`: false for NaN.
Improves(r, loss) == loss # NaN /\ (r.best = Inf \/ loss < r.best)

\* Mutant: epochs without improvement are not counted from the last improvement on.
MutStaleAfter(r, loss) == IF Improves(r, loss) THEN r.stale ELSE r.stale + 1

StaleAfter(r, loss) == IF Improves(r, loss) THEN 0 ELSE r.stale + 1
Stops(r, loss) == ~Improves(r, loss) /\ StaleAfter(r, loss) >= Patience[r.mode]

\* Mutant: the history is kept for the best epoch.
MutHistoryAfter(r, loss) == IF Improves(r, loss) THEN Len(r.losses) + 1 ELSE r.history

\* The break comes before the assignment of history.
HistoryAfter(r, loss) == IF Stops(r, loss) THEN r.history ELSE Len(r.losses) + 1

AfterEpoch(r, loss) ==
    [r EXCEPT !.losses = Append(@, loss),
              !.best = IF Improves(r, loss) THEN loss ELSE @,
              !.stale = StaleAfter(r, loss),
              !.history = HistoryAfter(r, loss)]

\* One turn of the loop: every batch of train_epoch, then _evaluate_loss.
Epoch(t, loss) ==
    /\ pc[t] = "fit" /\ TrainEpoch
    /\ run' = [run EXCEPT ![t] = AfterEpoch(@, loss)]
    /\ pc' = [pc EXCEPT ![t] =
         IF Stops(run[t], loss) \/ Len(run[t].losses) + 1 >= run[t].limit THEN "fitted" ELSE "fit"]
    /\ UNCHANGED <<version, artifact, registry, release>>

\* A process that ended has nothing.
Ends(t) ==
    /\ pc' = [pc EXCEPT ![t] = "idle"]
    /\ run' = [run EXCEPT ![t] = Fresh("train", 0)]
    /\ version' = [version EXCEPT ![t] = 0]
    /\ UNCHANGED artifact

\* The objective returns history's val_loss, and the study keeps it.
EndTrial(t) ==
    /\ pc[t] = "fitted" /\ run[t].mode = "trial"
    /\ Ends(t)
    /\ UNCHANGED <<registry, release>>

-----------------------------------------------------------------------------
(* trainer.main after fit(): save, then ModelRegistry.register *)

\* torch.save(model.state_dict(), args.output): the weights of the last epoch.
SaveWeights(t) ==
    /\ pc[t] = "fitted" /\ run[t].mode = "train"
    /\ pc' = [pc EXCEPT ![t] = "create"]
    /\ artifact' = [by |-> t, epoch |-> Len(run[t].losses)]
    /\ UNCHANGED <<run, version, registry, release>>

\* create_registered_model, which may find the model there, and create_model_version; then
\* the loop over the metrics, of which {} has none.
CreateVersion(t) ==
    /\ pc[t] = "create" /\ latest < MaxVersions
    /\ pc' = [pc EXCEPT ![t] = IF run[t].history = 0 THEN "feature" ELSE "metrics"]
    /\ latest' = latest + 1
    /\ version' = [version EXCEPT ![t] = latest + 1]
    /\ stage' = [stage EXCEPT ![latest + 1] = "None"]
    /\ untrained' = untrained \cup {v \in {latest + 1} : run[t].history = 0}
    /\ UNCHANGED <<run, artifact, tags, release>>

\* set_model_version_tag for each metric, then for the feature version.
Tag(t, from, tag, to) ==
    /\ pc[t] = from /\ pc' = [pc EXCEPT ![t] = to]
    /\ tags' = [tags EXCEPT ![version[t]] = @ \cup {tag}]
    /\ UNCHANGED <<run, version, artifact, latest, stage, untrained, release>>

\* Whatever stage the version has by now.
StageVersion(t) ==
    /\ pc[t] = "stage"
    /\ Ends(t)
    /\ stage' = [stage EXCEPT ![version[t]] = "Staging"]
    /\ UNCHANGED <<latest, tags, untrained, release>>

Register(t) ==
    \/ CreateVersion(t)
    \/ Tag(t, "metrics", "metrics", "feature") \/ Tag(t, "feature", "feature_version", "stage")
    \/ StageVersion(t)

\* Any call raises, or the process is killed; a spot instance is taken away.
TrainerDies(t) ==
    /\ pc[t] # "idle" /\ Ends(t)
    /\ UNCHANGED <<registry, release>>

-----------------------------------------------------------------------------
(* Promotion and rollback *)

InStage(s) == {v \in Versions : stage[v] = s}

\* Mutant: archive_existing_versions is left out.
MutTransition(v) == stage' = [stage EXCEPT ![v] = "Production"]

\* transition_model_version_stage(..., "Production", archive_existing_versions=True)
Transition(v) ==
    stage' = [u \in Versions |-> IF u = v THEN "Production"
                                 ELSE IF stage[u] = "Production" THEN "Archived" ELSE stage[u]]

\* Every move to production leaves the choices of other rollbacks behind.
Moved(v) ==
    /\ Transition(v)
    /\ previous' = IF InStage("Production") \subseteq {v} THEN previous
                   ELSE CHOOSE u \in InStage("Production") : TRUE
    /\ undisturbed' = {}
    /\ UNCHANGED <<training, latest, tags, untrained, label>>

\* promote_to_production checks nothing: any version that the registry lists will do, one
\* that is still being registered, or whose registration died half way, too.
\* (promote_to_canary sets two tags that nothing reads.)
Promote(v) ==
    /\ stage[v] # "absent"
    /\ Moved(v)
    /\ promoted' = promoted \cup {v}
    /\ early' = early \cup {u \in {v} : stage[v] = "None"}
    /\ orderly' = (orderly /\ stage[v] # "None" /\ \A u \in promoted : u <= v)
    /\ UNCHANGED chosen

\* Mutant: every version that is not serving is taken to have served.
MutArchived == Versions \ (InStage("Production") \cup InStage("absent"))

Archived == InStage("Archived")

\* Mutant: versions are compared the wrong way round.
MutNewest(v) == v \in Archived /\ \A u \in Archived : v <= u

\* max(archived, key=lambda v: int(v.version))
Newest(v) == v \in Archived /\ \A u \in Archived : u <= v

\* rollback() looks for the version to go back to; without one it returns None.
FindPrevious(o) ==
    /\ chosen[o] = 0
    /\ \E v \in Versions : Newest(v) /\ chosen' = [chosen EXCEPT ![o] = v]
    /\ undisturbed' = undisturbed \cup {o}
    /\ UNCHANGED <<training, registry, label, promoted, early, previous, orderly>>

\* The second call of rollback().
Rollback(o) ==
    /\ chosen[o] # 0
    /\ Moved(chosen[o])
    /\ chosen' = [chosen EXCEPT ![o] = 0]
    /\ orderly' = FALSE
    /\ UNCHANGED <<promoted, early>>

OperatorDies(o) ==
    /\ chosen[o] # 0
    /\ chosen' = [chosen EXCEPT ![o] = 0]
    /\ undisturbed' = undisturbed \ {o}
    /\ UNCHANGED <<training, registry, label, promoted, early, previous, orderly>>

\* lifespan(): the label is read once; an unreachable registry leaves the fallback.
Boot(a) ==
    /\ \E name \in InStage("Production") \cup {0} :
         label' = [label EXCEPT ![a] = name]
    /\ UNCHANGED <<training, registry, chosen, promoted, early, previous, orderly, undisturbed>>

-----------------------------------------------------------------------------

Start(t) ==
    \E n \in Sizes :
      \/ StartTrial(t, n)
      \/ \E given \in {CommandLine, Hyperparameters}, epochs \in Epochs :
           StartTraining(t, given, epochs, n)

Trainer(t) ==
    \/ \E loss \in ValLosses : Epoch(t, loss)
    \/ EndTrial(t) \/ SaveWeights(t) \/ Register(t)

Release ==
    \/ \E v \in Versions : Promote(v)
    \/ \E o \in Operators : FindPrevious(o) \/ Rollback(o) \/ OperatorDies(o)

Next ==
    \/ \E t \in Trainers : Start(t) \/ Trainer(t) \/ TrainerDies(t)
    \/ Release
    \/ \E a \in Pods : Boot(a)

\* A trainer process that is started goes on.
Spec == Init /\ [][Next]_vars /\ \A t \in Trainers : WF_vars(Trainer(t))

-----------------------------------------------------------------------------
(* Properties *)

\* The epochs with the lowest loss so far, and how many have passed since the first one.
Lowest(r) == {i \in DOMAIN r.losses :
                /\ r.losses[i] # NaN
                /\ \A k \in DOMAIN r.losses : r.losses[k] = NaN \/ r.losses[i] <= r.losses[k]}
SinceBest(r) == Len(r.losses) - (IF Lowest(r) = {} THEN 0 ELSE Min(Lowest(r)))

\* Early stopping (train.py:91-98) counts exactly the epochs since the best one, NaN being
\* no improvement: a run goes on while they are fewer than patience and epochs are left,
\* and a finished one used up one or the other.
StopsInTime ==
    \A t \in Trainers :
        LET r == run[t]
            Over == SinceBest(r) >= Patience[r.mode] \/ Len(r.losses) = r.limit
        IN  /\ pc[t] = "fit" => ~Over
            /\ pc[t] \notin {"fit", "idle"} => Over

\* What a run registers is not of one epoch: the weights, as long as no other run has
\* saved over the file, are the last epoch's, and the metrics that describe them are of
\* that epoch or, after early stopping, of the one before it; never of an older one, and
\* missing only if there was no epoch.
MetricsLagByOne ==
    \A t \in Trainers : pc[t] \in {"create", "metrics", "feature", "stage"} =>
        LET r == run[t]
            last == Len(r.losses)
        IN  /\ artifact.by = t => artifact.epoch = last
            /\ r.history \in {last, last - 1}
            /\ r.history = 0 <=> last = 0
            /\ r.history < last => SinceBest(r) >= Patience[r.mode]

\* Promotions and rollbacks in any interleaving leave at most one version in production.
OneProduction == \A u, v \in InStage("Production") : u = v

\* All that register() tells the registry about a version.
Complete(v) ==
    /\ "feature_version" \in tags[v]
    /\ "metrics" \in tags[v] \/ v \in untrained

\* What is in production, was there, or is reported by a pod was promoted by someone:
\* rollback() never releases a version nobody had promoted.  And it carries its metrics
\* and its feature version, unless somebody promoted it before register() had returned.
ServedWasReleased ==
    \A v \in Versions :
        \/ stage[v] \in {"Production", "Archived"}
        \/ \E a \in Pods : label[a] = v
        \/ \E o \in Operators : chosen[o] = v
        => v \in promoted /\ (v \in early \/ Complete(v))

\* "Rollback to the previous production version": so it is as long as versions were
\* promoted in the order of their numbers, each after its registration had returned, and
\* nothing was promoted since the choice.
RollbackFindsPrevious ==
    orderly => \A o \in undisturbed : chosen[o] = previous

\* Every run ends, whatever its losses are: the sampling loops and fit() do.
EveryRunEnds == \A t \in Trainers : pc[t] # "idle" ~> pc[t] = "idle"

====

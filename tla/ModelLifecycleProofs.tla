---- MODULE ModelLifecycleProofs ----
(***************************************************************************)
(* Proofs about ModelLifecycle for any trainers, losses, patience, numbers *)
(* of epochs and versions, operators and pods.  Two independent inductive  *)
(* invariants: LoopInv says which epoch best_val_loss and                  *)
(* epochs_without_improvement stand for, and ReleaseInv says what each     *)
(* stage means for the history of promotions.                              *)
(***************************************************************************)
EXTENDS ModelLifecycle, TLAPS

(* One run: what the loop of fit() keeps in its variables *)

\* fit() starts with a well-typed record.
LEMMA FreshRun ==
    ASSUME NEW m \in Modes, NEW e \in Nat
    PROVE  Fresh(m, e) \in Runs
  BY DEF Fresh, Runs

\* Where best_val_loss is not infinite it is the loss of the epoch stale epochs ago, lower
\* than every earlier one and not higher than any.
Counters(r) ==
    LET k == Len(r.losses) - r.stale IN
    /\ r.best = Inf => /\ r.stale = Len(r.losses)
                       /\ \A i \in DOMAIN r.losses : r.losses[i] = NaN
    /\ r.best # Inf => /\ k \in DOMAIN r.losses /\ r.losses[k] = r.best
                       /\ \A i \in DOMAIN r.losses : r.losses[i] = NaN \/ r.best <= r.losses[i]
                       /\ \A i \in DOMAIN r.losses :
                            i < k => r.losses[i] = NaN \/ r.best < r.losses[i]

\* A run that goes on, and one that is over.
GoesOn(r) ==
    r.stale < Patience[r.mode] /\ Len(r.losses) < r.limit /\ r.history = Len(r.losses)
Over(r) ==
    /\ r.stale >= Patience[r.mode] \/ Len(r.losses) = r.limit
    /\ r.history \in {Len(r.losses), Len(r.losses) - 1}
    /\ r.history = 0 <=> Len(r.losses) = 0
    /\ r.history < Len(r.losses) => r.stale >= Patience[r.mode]

LEMMA FreshCounters ==
    ASSUME NEW m \in Modes, NEW e \in Nat
    PROVE  /\ Counters(Fresh(m, e))
           /\ IF e = 0 THEN Over(Fresh(m, e)) ELSE GoesOn(Fresh(m, e))
<1> DEFINE r == Fresh(m, e)
<1>1. /\ r.losses = <<>> /\ r.best = Inf /\ r.stale = 0 /\ r.history = 0
      /\ r.mode = m /\ r.limit = e
  BY DEF Fresh
<1>2. Patience[m] \in Nat \ {0, 1}
  BY LifecycleAssumption
<1> HIDE DEF r
<1>3. Counters(r)
  BY <1>1 DEF Counters
<1>4. IF e = 0 THEN Over(r) ELSE GoesOn(r)
  BY <1>1, <1>2 DEF Over, GoesOn
<1> QED BY <1>3, <1>4 DEF r

\* epochs_without_improvement is the number of epochs since the best one.
LEMMA StaleIsSinceBest ==
    ASSUME NEW r \in Runs, Counters(r)
    PROVE  SinceBest(r) = r.stale
<1> USE LifecycleAssumption DEF ValLosses
<1>1. Len(r.losses) \in Nat /\ r.stale \in Nat /\ DOMAIN r.losses = 1..Len(r.losses)
      /\ \A i \in DOMAIN r.losses : r.losses[i] \in Losses \cup {NaN}
  BY DEF Runs
<1>2. CASE r.best = Inf
  <2>1. Lowest(r) = {}
    BY <1>2 DEF Counters, Lowest
  <2> QED BY <1>2, <2>1 DEF SinceBest, Counters
<1>3. CASE r.best # Inf
  <2> DEFINE k == Len(r.losses) - r.stale
  <2>1. /\ k \in DOMAIN r.losses /\ r.losses[k] = r.best
        /\ \A i \in DOMAIN r.losses : r.losses[i] = NaN \/ r.best <= r.losses[i]
        /\ \A i \in DOMAIN r.losses : i < k => r.losses[i] = NaN \/ r.best < r.losses[i]
    BY <1>3 DEF Counters
  <2>2. r.best \in Losses /\ k \in Nat /\ r.stale = Len(r.losses) - k
    BY <1>1, <1>3, <2>1 DEF Runs
  <2> HIDE DEF k
  <2>3. k \in Lowest(r)
    BY <2>1, <2>2 DEF Lowest
  <2>4. ASSUME NEW i \in Lowest(r) PROVE k <= i /\ i \in Nat
    <3>1. i \in DOMAIN r.losses /\ i \in Nat /\ r.losses[i] # NaN
      BY <1>1 DEF Lowest
    <3>2. r.losses[i] \in Nat /\ r.best \in Nat /\ r.best # NaN
      BY <1>1, <2>2, <3>1
    <3>3. r.losses[k] = NaN \/ r.losses[i] <= r.losses[k]
      BY <2>1 DEF Lowest
    <3>4. ~(i < k)
      BY <2>1, <3>1, <3>2, <3>3
    <3> QED BY <2>2, <3>1, <3>4
  <2>5. Min(Lowest(r)) = k
    <3>1. \A i \in Lowest(r) : k <= i
      BY <2>4
    <3>2. Min(Lowest(r)) \in Lowest(r) /\ \A i \in Lowest(r) : Min(Lowest(r)) <= i
      BY <2>3, <3>1 DEF Min
    <3>3. Min(Lowest(r)) \in Nat /\ k <= Min(Lowest(r))
      BY <2>4, <3>2
    <3>4. Min(Lowest(r)) <= k
      BY <2>3, <3>2
    <3> QED BY <2>2, <3>3, <3>4
  <2> QED BY <2>2, <2>3, <2>5 DEF SinceBest
<1> QED BY <1>2, <1>3

\* One epoch keeps the types.
LEMMA EpochType ==
    ASSUME NEW r \in Runs, NEW loss \in ValLosses
    PROVE  AfterEpoch(r, loss) \in Runs
<1> USE LifecycleAssumption DEF ValLosses
<1> DEFINE s == AfterEpoch(r, loss)
<1>1. s.losses \in Seq(ValLosses)
  BY DEF AfterEpoch, Runs
<1>2. s.best \in Losses \cup {Inf} /\ s.stale \in Nat /\ s.history \in Nat
  BY DEF AfterEpoch, Improves, StaleAfter, HistoryAfter, Runs
<1>3. s = [r EXCEPT !.losses = s.losses, !.best = s.best, !.stale = s.stale,
                    !.history = s.history]
  BY DEF AfterEpoch, Runs
<1> HIDE DEF s
<1>4. /\ [r EXCEPT !.losses = s.losses] \in Runs
      /\ \A q \in Runs : [q EXCEPT !.best = s.best, !.stale = s.stale, !.history = s.history] \in Runs
  BY <1>1, <1>2 DEF Runs
<1>5. s = [[r EXCEPT !.losses = s.losses] EXCEPT !.best = s.best, !.stale = s.stale,
                                                 !.history = s.history]
  BY <1>3
<1> QED BY <1>4, <1>5 DEF s

\* One epoch of a run that goes on keeps the counters, and ends the run or not.
LEMMA EpochRun ==
    ASSUME NEW r \in Runs, NEW loss \in ValLosses, Counters(r), GoesOn(r)
    PROVE  /\ Counters(AfterEpoch(r, loss))
           /\ IF Stops(r, loss) \/ Len(r.losses) + 1 >= r.limit
              THEN Over(AfterEpoch(r, loss)) ELSE GoesOn(AfterEpoch(r, loss))
<1> USE LifecycleAssumption DEF ValLosses
<1> DEFINE n == Len(r.losses)
           s == AfterEpoch(r, loss)
           ends == Stops(r, loss) \/ Len(r.losses) + 1 >= r.limit
<1>1. /\ n \in Nat /\ r.stale \in Nat /\ DOMAIN r.losses = 1..n /\ r.mode \in Modes
      /\ r.losses \in Seq(ValLosses) /\ r.history \in Nat
      /\ r.best \in Losses \cup {Inf} /\ r.limit \in Nat
      /\ \A i \in DOMAIN r.losses : r.losses[i] \in Losses \cup {NaN}
      /\ Patience[r.mode] \in Nat \ {0, 1}
      /\ r.stale < Patience[r.mode] /\ n < r.limit /\ r.history = n
  BY DEF Runs, GoesOn
<1>2. /\ s.losses = Append(r.losses, loss) /\ Len(s.losses) = n + 1
      /\ DOMAIN s.losses = 1..(n + 1) /\ s.losses[n + 1] = loss
      /\ \A i \in 1..n : s.losses[i] = r.losses[i]
  BY <1>1 DEF AfterEpoch, Runs
<1>3. /\ s.best = IF Improves(r, loss) THEN loss ELSE r.best
      /\ s.stale = IF Improves(r, loss) THEN 0 ELSE r.stale + 1
      /\ s.history = IF Stops(r, loss) THEN r.history ELSE n + 1
      /\ ends <=> Stops(r, loss) \/ n + 1 >= r.limit
      /\ Stops(r, loss) <=> ~Improves(r, loss) /\ r.stale + 1 >= Patience[r.mode]
      /\ s.mode = r.mode /\ s.limit = r.limit
  BY DEF AfterEpoch, StaleAfter, HistoryAfter, Stops, Runs
<1>4. r.stale <= n
  BY <1>1 DEF Counters
<1> HIDE DEF n, s, ends
<1>5. ASSUME Improves(r, loss) PROVE Counters(s) /\ IF ends THEN Over(s) ELSE GoesOn(s)
  <2>1. /\ s.best = loss /\ s.stale = 0 /\ loss \in Losses
        /\ r.best = Inf \/ loss < r.best
    BY <1>3, <1>5 DEF Improves
  <2>2. Counters(s)
    <3>1. \A i \in 1..n : s.losses[i] = NaN \/ loss < s.losses[i]
      <4>1. CASE r.best = Inf
        BY <1>1, <1>2, <4>1 DEF Counters
      <4>2. CASE r.best # Inf
        <5> SUFFICES ASSUME NEW i \in 1..n, r.losses[i] # NaN PROVE loss < r.losses[i]
          BY <1>2
        <5>1. r.best <= r.losses[i]
          BY <1>1, <4>2 DEF Counters
        <5>2. loss \in Nat /\ r.best \in Nat /\ r.losses[i] \in Nat /\ loss < r.best
          BY <1>1, <2>1, <4>2
        <5> QED BY <5>1, <5>2
      <4> QED BY <4>1, <4>2
    <3>2. s.best # Inf /\ Len(s.losses) - s.stale = n + 1
      BY <1>1, <1>2, <2>1
    <3>3. \A i \in DOMAIN s.losses : s.losses[i] = NaN \/ loss <= s.losses[i]
      <4> SUFFICES ASSUME NEW i \in 1..(n + 1), s.losses[i] # NaN PROVE loss <= s.losses[i]
        BY <1>2
      <4>1. CASE i = n + 1
        BY <1>2, <2>1, <4>1
      <4>2. CASE i \in 1..n
        <5>1. loss < s.losses[i] /\ loss \in Nat /\ s.losses[i] \in Nat
          BY <1>1, <1>2, <2>1, <3>1, <4>2
        <5> QED BY <5>1
      <4> QED BY <1>1, <4>1, <4>2
    <3>4. n + 1 \in DOMAIN s.losses /\ s.losses[n + 1] = s.best
      BY <1>1, <1>2, <2>1
    <3>5. \A i \in DOMAIN s.losses : i < n + 1 => s.losses[i] = NaN \/ loss < s.losses[i]
      BY <1>1, <1>2, <3>1
    <3> QED BY <2>1, <3>2, <3>3, <3>4, <3>5 DEF Counters
  <2>3. IF ends THEN Over(s) ELSE GoesOn(s)
    BY <1>1, <1>2, <1>3, <1>5, <2>1 DEF Over, GoesOn
  <2> QED BY <2>2, <2>3
<1>6. ASSUME ~Improves(r, loss) PROVE Counters(s) /\ IF ends THEN Over(s) ELSE GoesOn(s)
  <2>1. /\ s.best = r.best /\ s.stale = r.stale + 1
        /\ loss = NaN \/ (r.best # Inf /\ r.best <= loss)
    <3>1. loss = NaN \/ (r.best # Inf /\ ~(loss < r.best))
      BY <1>6 DEF Improves
    <3>2. loss = NaN \/ loss \in Nat
      OBVIOUS
    <3>3. r.best # Inf => r.best \in Nat
      BY <1>1
    <3> QED BY <1>3, <1>6, <3>1, <3>2, <3>3
  <2>2. Counters(s)
    <3>1. CASE r.best = Inf
      BY <1>1, <1>2, <2>1, <3>1 DEF Counters
    <3>2. CASE r.best # Inf
      <4> DEFINE k == n - r.stale
      <4>1. /\ k \in 1..n /\ r.losses[k] = r.best
            /\ \A i \in 1..n : r.losses[i] = NaN \/ r.best <= r.losses[i]
            /\ \A i \in 1..n : i < k => r.losses[i] = NaN \/ r.best < r.losses[i]
        BY <1>1, <3>2 DEF Counters, n
      <4>2. Len(s.losses) - s.stale = k
        <5>1. Len(s.losses) = n + 1 /\ s.stale = r.stale + 1 /\ n \in Nat /\ r.stale \in Nat
          BY <1>1, <1>2, <2>1
        <5>2. (n + 1) - (r.stale + 1) = n - r.stale
          BY <5>1
        <5> QED BY <5>1, <5>2
      <4>3. k \in 1..n /\ s.losses[k] = s.best
        BY <1>2, <2>1, <4>1
      <4> HIDE DEF k
      <4>4. \A i \in 1..(n + 1) : s.losses[i] = NaN \/ r.best <= s.losses[i]
        BY <1>1, <1>2, <2>1, <4>1
      <4>5. \A i \in 1..(n + 1) : i < k => s.losses[i] = NaN \/ r.best < s.losses[i]
        BY <1>1, <1>2, <4>1, <4>3
      <4>6. DOMAIN s.losses = 1..(n + 1) /\ s.best = r.best /\ k \in DOMAIN s.losses
        BY <1>1, <1>2, <2>1, <4>3
      <4> QED BY <3>2, <4>2, <4>3, <4>4, <4>5, <4>6 DEF Counters
    <3> QED BY <3>1, <3>2
  <2>3. IF ends THEN Over(s) ELSE GoesOn(s)
    BY <1>1, <1>2, <1>3, <1>4, <1>6, <2>1 DEF Over, GoesOn
  <2> QED BY <2>2, <2>3
<1> QED BY <1>5, <1>6 DEF s, ends


-----------------------------------------------------------------------------
(* Types *)

\* The initial state is well typed.
LEMMA TypeInit == Init => TypeOK
<1> SUFFICES ASSUME Init PROVE TypeOK
  OBVIOUS
<1>1. "train" \in Modes /\ 0 \in Nat
  BY DEF Modes
<1>2. Fresh("train", 0) \in Runs
  BY <1>1, FreshRun
<1> HIDE DEF Modes
<1>3. run \in [Trainers -> Runs]
  BY <1>2 DEF Init
<1> QED
  BY <1>3, LifecycleAssumption DEF Init, TypeOK, Stages, AllTags, Versions

\* What the trainers' steps share: how a process moves, and that only its own entries change.
LEMMA EndsType ==
    ASSUME TypeOK, NEW t \in Trainers, Ends(t)
    PROVE  /\ run' \in [Trainers -> Runs] /\ version' \in [Trainers -> 0..MaxVersions]
           /\ pc' = [pc EXCEPT ![t] = "idle"] /\ artifact' = artifact
<1>1. Fresh("train", 0) \in Runs
  BY FreshRun DEF Modes
<1> QED BY <1>1, LifecycleAssumption DEF Ends, TypeOK

\* The trainers' steps keep the types.
LEMMA TrainerType ==
    ASSUME TypeOK, NEW t \in Trainers, Start(t) \/ Trainer(t) \/ TrainerDies(t)
    PROVE  TypeOK'
<1> USE LifecycleAssumption
<1>1. CASE Start(t)
  <2>1. PICK m \in Modes, e \in Nat : run' = [run EXCEPT ![t] = Fresh(m, e)]
    BY <1>1 DEF Start, StartTraining, StartTrial, Fit, Modes
  <2>2. Fresh(m, e) \in Runs
    BY FreshRun
  <2>3. /\ \E to \in {"fit", "fitted"} : pc' = [pc EXCEPT ![t] = to]
        /\ UNCHANGED <<version, artifact, registry, release>>
    BY <1>1 DEF Start, StartTraining, StartTrial, Fit
  <2>4. run' \in [Trainers -> Runs]
    BY <2>1, <2>2 DEF TypeOK
  <2> QED BY <2>3, <2>4 DEF TypeOK, registry, release
<1>2. CASE \E loss \in ValLosses : Epoch(t, loss)
  <2>1. PICK loss \in ValLosses : Epoch(t, loss)
    BY <1>2
  <2>2. run[t] \in Runs
    BY DEF TypeOK
  <2>3. AfterEpoch(run[t], loss) \in Runs
    BY <2>2, EpochType
  <2>4. run' \in [Trainers -> Runs]
    BY <2>1, <2>3 DEF Epoch, TypeOK
  <2>5. /\ \E to \in {"fit", "fitted"} : pc' = [pc EXCEPT ![t] = to]
        /\ UNCHANGED <<version, artifact, registry, release>>
    BY <2>1 DEF Epoch
  <2> QED BY <2>4, <2>5 DEF TypeOK, registry, release
<1>3. CASE EndTrial(t) \/ TrainerDies(t)
  <2>1. Ends(t) /\ UNCHANGED <<registry, release>>
    BY <1>3 DEF EndTrial, TrainerDies
  <2> QED BY <2>1, EndsType DEF TypeOK, registry, release
<1>4. CASE SaveWeights(t)
  <2>1. Len(run[t].losses) \in Nat
    BY DEF TypeOK, Runs
  <2> QED BY <1>4, <2>1 DEF SaveWeights, TypeOK, registry, release
<1>5. CASE CreateVersion(t)
  <2>1. latest + 1 \in Versions /\ latest + 1 \in 0..MaxVersions
    BY <1>5 DEF CreateVersion, Versions, TypeOK
  <2>2. /\ \E to \in {"feature", "metrics"} : pc' = [pc EXCEPT ![t] = to]
        /\ latest' = latest + 1 /\ version' = [version EXCEPT ![t] = latest + 1]
        /\ stage' = [stage EXCEPT ![latest + 1] = "None"]
        /\ untrained' \subseteq untrained \cup {latest + 1}
        /\ UNCHANGED <<run, artifact, tags, release>>
    BY <1>5 DEF CreateVersion
  <2> QED BY <2>1, <2>2 DEF TypeOK, release, Stages
<1>6. CASE \/ Tag(t, "metrics", "metrics", "feature")
           \/ Tag(t, "feature", "feature_version", "stage")
  <2>1. PICK tag \in AllTags : tags' = [tags EXCEPT ![version[t]] = @ \cup {tag}]
    BY <1>6 DEF Tag, AllTags
  <2>2. \A v \in Versions : tags[v] \cup {tag} \in SUBSET AllTags
    BY DEF TypeOK
  <2>3. tags' \in [Versions -> SUBSET AllTags]
    BY <2>1, <2>2 DEF TypeOK
  <2>4. /\ \E to \in {"feature", "stage"} : pc' = [pc EXCEPT ![t] = to]
        /\ UNCHANGED <<run, version, artifact, latest, stage, untrained, release>>
    BY <1>6 DEF Tag
  <2> QED BY <2>3, <2>4 DEF TypeOK, release
<1>7. CASE StageVersion(t)
  <2>1. /\ Ends(t) /\ stage' = [stage EXCEPT ![version[t]] = "Staging"]
        /\ UNCHANGED <<latest, tags, untrained, release>>
    BY <1>7 DEF StageVersion
  <2>2. stage' \in [Versions -> Stages]
    BY <2>1 DEF TypeOK, Stages
  <2> QED BY <2>1, <2>2, EndsType DEF TypeOK, release
<1> QED BY <1>1, <1>2, <1>3, <1>4, <1>5, <1>6, <1>7 DEF Trainer, Register

-----------------------------------------------------------------------------
(* The registry *)

Serving == InStage("Production")
Released == {v \in Versions : stage[v] \in {"Production", "Archived"}}
Registering(t) == pc[t] \in {"metrics", "feature", "stage"}

\* Two runs never register one version; it has no stage yet unless it was promoted early.
\* What has a stage is complete or was promoted early.
RegistrationInv ==
    /\ \A v \in Versions : stage[v] = "absent" <=> v > latest
    /\ \A t \in Trainers : Registering(t) =>
         /\ version[t] \in 1..latest
         /\ stage[version[t]] = "None" \/ version[t] \in early
    /\ \A t, u \in Trainers :
         Registering(t) /\ Registering(u) /\ version[t] = version[u] => t = u
    /\ \A t \in Trainers : pc[t] \in {"feature", "stage"} =>
         "metrics" \in tags[version[t]] \/ version[t] \in untrained
    /\ \A t \in Trainers : pc[t] = "stage" => "feature_version" \in tags[version[t]]
    /\ \A v \in Versions : stage[v] \notin {"absent", "None"} => v \in early \/ Complete(v)

\* Released, reported and chosen versions were promoted.
PromotedInv ==
    /\ Released \subseteq promoted
    /\ \A v \in promoted : stage[v] \notin {"absent", "None"}
    /\ \A a \in Pods : label[a] # 0 => label[a] \in promoted
    /\ \A o \in Operators : chosen[o] # 0 => chosen[o] \in promoted
    /\ undisturbed \subseteq {o \in Operators : chosen[o] # 0}

\* Versions promoted in their order, none of them early: all are still released, the newest
\* serves, the one before it is the newest archived one.
OrderInv ==
    orderly =>
        /\ early = {} /\ promoted \subseteq Released
        /\ promoted # {} => Serving # {}
        /\ \A p \in Serving, u \in promoted : u <= p
        /\ Archived # {} => previous \in Archived /\ \A u \in Archived : u <= previous
        /\ \A o \in undisturbed : chosen[o] = previous

ReleaseInv == TypeOK /\ RegistrationInv /\ OneProduction /\ PromotedInv /\ OrderInv

LEMMA ReleaseInit == Init => ReleaseInv
<1> SUFFICES ASSUME Init PROVE ReleaseInv
  OBVIOUS
<1>1. RegistrationInv
  BY LifecycleAssumption DEF Init, RegistrationInv, Registering, Versions
<1>2. OneProduction /\ PromotedInv /\ OrderInv
  BY LifecycleAssumption
  DEF Init, OneProduction, PromotedInv, OrderInv, Released, Serving, InStage, Archived
<1> QED BY <1>1, <1>2, TypeInit DEF ReleaseInv

\* What PromotedInv, OneProduction and OrderInv speak of is the set of versions in either
\* stage: a step that moves no version there, and gives no promoted one back its "None",
\* keeps them.
LEMMA ReleaseKept ==
    ASSUME PromotedInv /\ OneProduction /\ OrderInv,
           InStage("Production")' = InStage("Production"),
           InStage("Archived")' = InStage("Archived"),
           \A v \in promoted : stage'[v] \notin {"absent", "None"},
           UNCHANGED release
    PROVE  PromotedInv' /\ OneProduction' /\ OrderInv'
<1>1. Released' = Released
  BY DEF Released, InStage
<1> QED BY <1>1 DEF PromotedInv, OneProduction, OrderInv, Serving, Archived, release

\* A step that leaves the stages alone, and only ends a run or brings it before its
\* registration, keeps everything.
LEMMA QuietRelease ==
    ASSUME ReleaseInv, TypeOK', NEW t \in Trainers, UNCHANGED <<registry, release>>,
           NEW to \in {"idle", "fit", "fitted", "create"}, pc' = [pc EXCEPT ![t] = to],
           \A u \in Trainers : u # t => version'[u] = version[u]
    PROVE  ReleaseInv'
<1>1. RegistrationInv'
  BY DEF ReleaseInv, RegistrationInv, Registering, Complete, registry, release, TypeOK
<1> QED BY <1>1, ReleaseKept DEF ReleaseInv, InStage, registry, PromotedInv

LEMMA TrainerRelease ==
    ASSUME ReleaseInv, NEW t \in Trainers, Start(t) \/ Trainer(t) \/ TrainerDies(t)
    PROVE  ReleaseInv'
<1> USE LifecycleAssumption
<1>0. TypeOK /\ TypeOK'
  BY TrainerType DEF ReleaseInv
<1>1. CASE \/ Start(t) \/ (\E loss \in ValLosses : Epoch(t, loss)) \/ EndTrial(t)
           \/ TrainerDies(t) \/ SaveWeights(t)
  <2>1. /\ \E to \in {"idle", "fit", "fitted", "create"} : pc' = [pc EXCEPT ![t] = to]
        /\ UNCHANGED <<registry, release>>
    BY <1>1 DEF Start, StartTraining, StartTrial, Fit, Epoch, EndTrial, TrainerDies, Ends,
                SaveWeights
  <2>2. \A u \in Trainers : u # t => version'[u] = version[u]
    BY <1>0, <1>1 DEF Start, StartTraining, StartTrial, Fit, Epoch, EndTrial, TrainerDies, Ends,
                SaveWeights, TypeOK
  <2> QED BY <1>0, <2>1, <2>2, QuietRelease
<1>2. CASE CreateVersion(t)
  <2> DEFINE new == latest + 1
  <2>1. /\ new \in Versions /\ stage[new] = "absent" /\ new \in Nat \ {0} /\ latest \in Nat
        /\ latest' = new /\ stage' = [stage EXCEPT ![new] = "None"]
        /\ version' = [version EXCEPT ![t] = new]
        /\ UNCHANGED <<tags, release>>
    BY <1>0, <1>2 DEF CreateVersion, ReleaseInv, TypeOK, RegistrationInv, Versions
  <2>2. /\ pc' = [pc EXCEPT ![t] = IF run[t].history = 0 THEN "feature" ELSE "metrics"]
        /\ untrained \subseteq untrained'
        /\ run[t].history = 0 => new \in untrained'
    BY <1>2 DEF CreateVersion
  <2>3. \A v \in Versions : v # new => stage'[v] = stage[v]
    BY <1>0, <2>1 DEF TypeOK
  <2>4. \A u \in Trainers : u # t => pc'[u] = pc[u] /\ version'[u] = version[u]
    BY <1>0, <2>1, <2>2 DEF TypeOK
  <2>5. /\ pc'[t] \in {"metrics", "feature"} /\ version'[t] = new
        /\ pc'[t] = "feature" => new \in untrained'
        /\ stage'[new] = "None" /\ latest < new
    BY <1>0, <2>1, <2>2 DEF TypeOK
  <2>6. \A v \in Versions : v <= new <=> v <= latest \/ v = new
    BY <2>1 DEF Versions
  <2> HIDE DEF new
  <2>7. RegistrationInv'
    <3>1. \A v \in Versions : stage'[v] = "absent" <=> v > latest'
      BY <2>1, <2>3, <2>5, <2>6 DEF ReleaseInv, RegistrationInv, Versions
    <3>2. ASSUME NEW u \in Trainers, Registering(u)', u # t
          PROVE  /\ Registering(u) /\ version'[u] = version[u] /\ version[u] \in 1..latest
                 /\ version[u] \in Versions /\ version[u] # new
                 /\ stage'[version[u]] = stage[version[u]]
      <4>1. Registering(u) /\ version'[u] = version[u]
        BY <2>4, <3>2 DEF Registering
      <4>2. version[u] \in 1..latest
        BY <4>1 DEF ReleaseInv, RegistrationInv
      <4>3. version[u] \in Versions /\ version[u] # new
        BY <1>0, <2>1, <2>5, <4>2 DEF TypeOK, Versions
      <4> QED BY <2>3, <4>1, <4>2, <4>3
    <3>3. \A u \in Trainers : Registering(u)' =>
            /\ version'[u] \in 1..latest'
            /\ stage'[version'[u]] = "None" \/ version'[u] \in early'
      <4> SUFFICES ASSUME NEW u \in Trainers, Registering(u)'
                   PROVE  /\ version'[u] \in 1..latest'
                          /\ stage'[version'[u]] = "None" \/ version'[u] \in early'
        OBVIOUS
      <4>1. CASE u = t
        BY <2>1, <2>5, <4>1
      <4>2. CASE u # t
        <5>1. version'[u] \in 1..latest /\ version'[u] \in 1..latest'
          BY <2>1, <2>5, <3>2, <4>2
        <5>2. stage[version[u]] = "None" \/ version[u] \in early
          BY <3>2, <4>2 DEF ReleaseInv, RegistrationInv
        <5> QED BY <2>1, <3>2, <4>2, <5>1, <5>2 DEF release
      <4> QED BY <4>1, <4>2
    <3>4. \A u, w \in Trainers :
            Registering(u)' /\ Registering(w)' /\ version'[u] = version'[w] => u = w
      BY <2>5, <3>2 DEF ReleaseInv, RegistrationInv
    <3>5. \A u \in Trainers : pc'[u] \in {"feature", "stage"} =>
            "metrics" \in tags'[version'[u]] \/ version'[u] \in untrained'
      BY <2>1, <2>2, <2>4, <2>5 DEF ReleaseInv, RegistrationInv
    <3>6. \A u \in Trainers : pc'[u] = "stage" => "feature_version" \in tags'[version'[u]]
      BY <2>1, <2>4, <2>5 DEF ReleaseInv, RegistrationInv
    <3>7. \A v \in Versions : stage'[v] \notin {"absent", "None"} => v \in early' \/ Complete(v)'
      BY <2>1, <2>2, <2>3, <2>5 DEF ReleaseInv, RegistrationInv, Complete, release
    <3> QED BY <3>1, <3>3, <3>4, <3>5, <3>6, <3>7 DEF RegistrationInv
  <2>8. /\ InStage("Production")' = InStage("Production")
        /\ InStage("Archived")' = InStage("Archived")
    BY <2>1, <2>3, <2>5 DEF InStage
  <2>9. \A v \in promoted : stage'[v] \notin {"absent", "None"}
    BY <1>0, <2>1, <2>3 DEF ReleaseInv, PromotedInv, TypeOK
  <2> QED BY <1>0, <2>1, <2>7, <2>8, <2>9, ReleaseKept DEF ReleaseInv
<1>3. CASE \/ Tag(t, "metrics", "metrics", "feature")
           \/ Tag(t, "feature", "feature_version", "stage")
  <2>1. UNCHANGED <<version, stage, latest, untrained, release>>
    BY <1>3 DEF Tag
  <2>2. /\ Registering(t) /\ Registering(t)' /\ version[t] \in Versions
        /\ \A v \in Versions : tags[v] \subseteq tags'[v]
        /\ pc'[t] \in {"feature", "stage"} => "metrics" \in tags'[version[t]] \/ version[t] \in untrained
        /\ pc'[t] = "stage" => "feature_version" \in tags'[version[t]]
        /\ \A u \in Trainers : u # t => pc'[u] = pc[u]
    <3>1. Registering(t)
      BY <1>3 DEF Tag, Registering
    <3>2. version[t] \in Versions
      BY <1>0, <3>1 DEF ReleaseInv, RegistrationInv, TypeOK, Versions
    <3>3. \A u \in Trainers : u # t => pc'[u] = pc[u]
      BY <1>0, <1>3 DEF Tag, TypeOK
    <3>4. CASE Tag(t, "metrics", "metrics", "feature")
      BY <1>0, <3>1, <3>2, <3>3, <3>4 DEF Tag, TypeOK, Registering
    <3>5. CASE Tag(t, "feature", "feature_version", "stage")
      BY <1>0, <3>1, <3>2, <3>3, <3>5 DEF Tag, TypeOK, Registering, ReleaseInv, RegistrationInv
    <3> QED BY <1>3, <3>4, <3>5
  <2>3. RegistrationInv'
    <3>1. \A u \in Trainers : Registering(u)' => Registering(u)
      BY <2>2 DEF Registering
    <3>2. \A u \in Trainers : Registering(u) => version[u] \in Versions
      BY <1>0 DEF ReleaseInv, RegistrationInv, TypeOK, Versions
    <3>3. \A u \in Trainers : pc'[u] \in {"feature", "stage"} =>
            "metrics" \in tags'[version'[u]] \/ version'[u] \in untrained'
      BY <2>1, <2>2, <3>2 DEF ReleaseInv, RegistrationInv, Registering
    <3>4. \A u \in Trainers : pc'[u] = "stage" => "feature_version" \in tags'[version'[u]]
      BY <2>1, <2>2, <3>2 DEF ReleaseInv, RegistrationInv, Registering
    <3>5. \A v \in Versions : Complete(v) => Complete(v)'
      BY <2>1, <2>2 DEF Complete
    <3> QED BY <2>1, <3>1, <3>3, <3>4, <3>5 DEF ReleaseInv, RegistrationInv, release
  <2>4. \A v \in promoted : stage'[v] \notin {"absent", "None"}
    BY <2>1 DEF ReleaseInv, PromotedInv
  <2> QED BY <1>0, <2>1, <2>3, <2>4, ReleaseKept DEF ReleaseInv, InStage
<1>4. CASE StageVersion(t)
  <2> DEFINE v == version[t]
  <2>1. /\ pc[t] = "stage" /\ pc' = [pc EXCEPT ![t] = "idle"]
        /\ version' = [version EXCEPT ![t] = 0]
        /\ stage' = [stage EXCEPT ![v] = "Staging"]
        /\ UNCHANGED <<latest, tags, untrained, release>>
    BY <1>4 DEF StageVersion, Ends
  <2>2. /\ Registering(t) /\ v \in Versions /\ v \in 1..latest /\ Complete(v)
        /\ stage[v] = "None" \/ v \in early
    BY <1>0, <2>1 DEF ReleaseInv, RegistrationInv, Registering, Complete, TypeOK, Versions
  <2>3. /\ \A u \in Trainers : u # t => pc'[u] = pc[u] /\ version'[u] = version[u]
        /\ pc'[t] = "idle"
        /\ \A w \in Versions : w # v => stage'[w] = stage[w]
        /\ stage'[v] = "Staging"
    BY <1>0, <2>1, <2>2 DEF TypeOK
  <2>4. \A u \in Trainers : u # t /\ Registering(u) => version[u] # v /\ version[u] \in Versions
    BY <1>0, <2>2 DEF ReleaseInv, RegistrationInv, TypeOK, Versions
  <2> HIDE DEF v
  <2>5. RegistrationInv'
    <3>1. \A w \in Versions : stage'[w] = "absent" <=> w > latest'
      <4>1. ~(v > latest)
        BY <1>0, <2>2 DEF TypeOK
      <4> QED BY <2>1, <2>3, <4>1 DEF ReleaseInv, RegistrationInv
    <3>2. \A u \in Trainers : Registering(u)' =>
            u # t /\ Registering(u) /\ version'[u] = version[u] /\ pc'[u] = pc[u]
      BY <2>3 DEF Registering
    <3>3. \A u \in Trainers : Registering(u)' =>
            /\ version'[u] \in 1..latest'
            /\ stage'[version'[u]] = "None" \/ version'[u] \in early'
      BY <2>1, <2>3, <2>4, <3>2 DEF ReleaseInv, RegistrationInv, release
    <3>4. \A u, w \in Trainers :
            Registering(u)' /\ Registering(w)' /\ version'[u] = version'[w] => u = w
      BY <3>2 DEF ReleaseInv, RegistrationInv
    <3>5. /\ \A u \in Trainers : pc'[u] \in {"feature", "stage"} =>
               "metrics" \in tags'[version'[u]] \/ version'[u] \in untrained'
          /\ \A u \in Trainers : pc'[u] = "stage" => "feature_version" \in tags'[version'[u]]
      BY <2>1, <3>2 DEF ReleaseInv, RegistrationInv, Registering
    <3>6. \A w \in Versions : stage'[w] \notin {"absent", "None"} => w \in early' \/ Complete(w)'
      BY <2>1, <2>2, <2>3 DEF ReleaseInv, RegistrationInv, Complete, release
    <3> QED BY <3>1, <3>3, <3>4, <3>5, <3>6 DEF RegistrationInv
  <2>6. \A w \in promoted : stage'[w] \notin {"absent", "None"}
    BY <1>0, <2>3 DEF ReleaseInv, PromotedInv, TypeOK
  <2>7. CASE stage[v] = "None"
    <3>1. /\ InStage("Production")' = InStage("Production")
          /\ InStage("Archived")' = InStage("Archived")
      BY <2>3, <2>7 DEF InStage
    <3> QED BY <1>0, <2>1, <2>5, <2>6, <3>1, ReleaseKept DEF ReleaseInv
  <2>8. CASE v \in early
    <3>1. ~orderly
      BY <2>8 DEF ReleaseInv, OrderInv
    <3>2. Released' \subseteq Released /\ InStage("Production")' \subseteq InStage("Production")
      BY <2>3 DEF Released, InStage
    <3>3. OneProduction' /\ PromotedInv' /\ OrderInv'
      BY <2>1, <2>6, <3>1, <3>2 DEF ReleaseInv, OneProduction, PromotedInv, OrderInv, release
    <3> QED BY <1>0, <2>5, <3>3 DEF ReleaseInv
  <2> QED BY <2>2, <2>7, <2>8
<1> QED BY <1>1, <1>2, <1>3, <1>4 DEF Trainer, Register

\* The one step promotion and rollback share.
LEMMA MovedRelease ==
    ASSUME ReleaseInv, NEW v \in Versions, stage[v] # "absent", Moved(v)
    PROVE  /\ stage' = [u \in Versions |->
                IF u = v THEN "Production"
                ELSE IF stage[u] = "Production" THEN "Archived" ELSE stage[u]]
           /\ stage' \in [Versions -> Stages] /\ previous' \in 0..MaxVersions
           /\ OneProduction'
           /\ Serving' = {v} /\ Released' = Released \cup {v}
           /\ Archived' = (Archived \cup Serving) \ {v}
           /\ Serving \subseteq {v} => previous' = previous
           /\ \A p \in Serving : p # v => previous' = p
<1> USE LifecycleAssumption DEF ReleaseInv
<1>1. stage' = [u \in Versions |-> IF u = v THEN "Production"
                                   ELSE IF stage[u] = "Production" THEN "Archived" ELSE stage[u]]
  BY DEF Moved, Transition
<1>2. /\ Serving' = {v} /\ Released' = Released \cup {v}
      /\ Archived' = (Archived \cup Serving) \ {v}
  BY <1>1 DEF Serving, Released, Archived, InStage
<1>3. stage' \in [Versions -> Stages]
  BY <1>1 DEF TypeOK, Stages
<1>4. OneProduction'
  BY <1>2 DEF OneProduction, Serving
<1>5. ASSUME NEW p \in Serving, p # v PROVE previous' = p /\ p \in Versions
  <2>1. Serving = {p} /\ p \in Versions
    BY <1>5 DEF OneProduction, Serving, InStage
  <2> QED BY <1>5, <2>1 DEF Moved, Serving
<1>6. Serving \subseteq {v} => previous' = previous
  BY DEF Moved, Serving
<1>7. previous' \in 0..MaxVersions
  BY <1>5, <1>6 DEF TypeOK, Versions
<1> QED BY <1>1, <1>2, <1>3, <1>4, <1>5, <1>6, <1>7

\* It keeps what the registrations rely on, if a version without a stage counts as early.
LEMMA MovedRegistration ==
    ASSUME ReleaseInv, NEW v \in Versions, stage[v] # "absent", Moved(v),
           early \subseteq early', stage[v] = "None" => v \in early'
    PROVE  RegistrationInv'
<1> USE DEF ReleaseInv
<1>1. stage' = [u \in Versions |-> IF u = v THEN "Production"
                                   ELSE IF stage[u] = "Production" THEN "Archived" ELSE stage[u]]
  BY MovedRelease
<1>2. UNCHANGED <<pc, version, latest, tags, untrained>>
  BY DEF Moved, training
<1>3. \A t \in Trainers : Registering(t) => version[t] \in Versions /\ version[t] \in 1..latest
  BY DEF RegistrationInv, TypeOK, Versions
<1>4. \A u \in Versions : stage'[u] = "absent" <=> u > latest'
  BY <1>1, <1>2 DEF RegistrationInv
<1>5. \A t \in Trainers : Registering(t)' =>
        /\ version'[t] \in 1..latest'
        /\ stage'[version'[t]] = "None" \/ version'[t] \in early'
  BY <1>1, <1>2, <1>3 DEF RegistrationInv, Registering
<1>6. \A u \in Versions : stage'[u] \notin {"absent", "None"} => u \in early' \/ Complete(u)'
  BY <1>1, <1>2 DEF RegistrationInv, Complete
<1> QED BY <1>2, <1>4, <1>5, <1>6 DEF RegistrationInv, Registering

LEMMA PromoteRelease ==
    ASSUME ReleaseInv, NEW v \in Versions, Promote(v)
    PROVE  ReleaseInv'
<1> USE DEF ReleaseInv
<1>1. stage[v] # "absent" /\ Moved(v)
  BY DEF Promote
<1>2. /\ promoted' = promoted \cup {v} /\ undisturbed' = {}
      /\ early' = early \cup {u \in {v} : stage[v] = "None"}
      /\ UNCHANGED <<training, latest, tags, untrained, label, chosen>>
      /\ orderly' = (orderly /\ stage[v] # "None" /\ \A u \in promoted : u <= v)
  BY DEF Promote, Moved
<1>3. TypeOK'
  BY <1>1, <1>2, MovedRelease DEF TypeOK, training
<1>4. RegistrationInv'
  BY <1>1, <1>2, MovedRegistration
<1>5. PromotedInv'
  BY <1>1, <1>2, MovedRelease DEF PromotedInv, TypeOK
<1>6. OrderInv'
  <2> SUFFICES ASSUME orderly, stage[v] # "None", \A u \in promoted : u <= v PROVE OrderInv'
    BY <1>2 DEF OrderInv
  <2>0. /\ promoted \subseteq Nat /\ Serving \subseteq promoted /\ Archived \subseteq promoted
        /\ v \in Nat
    BY DEF PromotedInv, Released, Serving, Archived, InStage, Versions, TypeOK
  <2>1. Serving' = {v} /\ Archived' = (Archived \cup Serving) \ {v}
    BY <1>1, MovedRelease
  <2>2. \A p \in Serving', u \in promoted' : u <= p
    BY <1>2, <2>0, <2>1
  <2>3. early' = {} /\ promoted' \subseteq Released'
    BY <1>1, <1>2, MovedRelease DEF OrderInv
  <2>4. CASE Serving \subseteq {v}
    <3>1. previous' = previous /\ Archived' = Archived
      <4>1. v \notin Archived \/ v \notin Serving
        BY DEF Archived, Serving, InStage
      <4>2. v \in Archived => v \in Serving
        BY <2>0, <2>4 DEF OrderInv
      <4> QED BY <1>1, <2>1, <2>4, <4>1, <4>2, MovedRelease
    <3> QED BY <1>2, <2>1, <2>2, <2>3, <3>1 DEF OrderInv
  <2>5. ASSUME NEW p \in Serving, p # v PROVE OrderInv'
    <3>1. previous' = p /\ p \in Archived'
      BY <1>1, <2>1, <2>5, MovedRelease
    <3>2. \A u \in Archived' : u <= p
      BY <2>0, <2>1, <2>5 DEF OrderInv, OneProduction, Serving
    <3> QED BY <1>2, <2>1, <2>2, <2>3, <3>1, <3>2 DEF OrderInv
  <2> QED BY <2>4, <2>5
<1> QED BY <1>1, <1>3, <1>4, <1>5, <1>6, MovedRelease

\* A step of the operators or the pods that leaves the registry and the trainers alone.
LEMMA RegistryUntouched ==
    ASSUME ReleaseInv, UNCHANGED <<training, registry, early>>
    PROVE  /\ RegistrationInv' /\ OneProduction'
           /\ Released' = Released /\ Serving' = Serving /\ Archived' = Archived
<1>1. UNCHANGED <<pc, version, latest, stage, tags, untrained, early>>
  BY DEF training, registry
<1>2. /\ Released' = Released /\ Serving' = Serving /\ Archived' = Archived
      /\ OneProduction'
  BY <1>1 DEF Released, Serving, Archived, InStage, ReleaseInv, OneProduction
<1>3. RegistrationInv'
  BY <1>1 DEF ReleaseInv, RegistrationInv, Registering, Complete
<1> QED BY <1>2, <1>3

LEMMA RollbackRelease ==
    ASSUME ReleaseInv, NEW o \in Operators, FindPrevious(o) \/ Rollback(o) \/ OperatorDies(o)
    PROVE  ReleaseInv'
<1> USE LifecycleAssumption DEF ReleaseInv
<1>1. CASE FindPrevious(o)
  <2>1. PICK v \in Versions : Newest(v) /\ chosen' = [chosen EXCEPT ![o] = v]
    BY <1>1 DEF FindPrevious
  <2>2. /\ undisturbed' = undisturbed \cup {o}
        /\ UNCHANGED <<training, registry, label, promoted, early, previous, orderly>>
    BY <1>1 DEF FindPrevious
  <2>3. v \in promoted /\ v \in Archived /\ v \in Nat \ {0}
    BY <2>1 DEF Newest, PromotedInv, Released, Archived, InStage, Versions
  <2>4. TypeOK'
    BY <2>1, <2>2 DEF TypeOK, training, registry, Versions
  <2>5. /\ RegistrationInv' /\ OneProduction'
        /\ Released' = Released /\ Serving' = Serving /\ Archived' = Archived
    BY <2>2, RegistryUntouched
  <2>6. PromotedInv'
    <3>1. \A q \in Operators : chosen'[q] # 0 => chosen'[q] \in promoted
      BY <2>1, <2>3 DEF PromotedInv, TypeOK
    <3>2. undisturbed' \subseteq {q \in Operators : chosen'[q] # 0}
      BY <2>1, <2>2, <2>3 DEF PromotedInv, TypeOK
    <3> QED BY <2>2, <2>5, <3>1, <3>2 DEF PromotedInv, registry
  <2>7. OrderInv'
    <3>1. orderly => v = previous
      <4> SUFFICES ASSUME orderly PROVE v = previous
        OBVIOUS
      <4>1. previous \in Archived /\ v <= previous
        BY <2>3 DEF OrderInv
      <4>2. previous <= v /\ previous \in Nat
        BY <2>1, <4>1 DEF Newest, TypeOK
      <4> QED BY <2>3, <4>1, <4>2
    <3> QED BY <2>1, <2>2, <2>5, <3>1 DEF OrderInv, TypeOK
  <2> QED BY <2>4, <2>5, <2>6, <2>7
<1>2. CASE Rollback(o)
  <2>1. PICK v \in promoted : /\ v \in Versions /\ stage[v] \notin {"absent", "None"}
                             /\ Moved(v)
    BY <1>2 DEF Rollback, PromotedInv, TypeOK
  <2>2. /\ undisturbed' = {} /\ chosen' = [chosen EXCEPT ![o] = 0] /\ orderly' = FALSE
        /\ UNCHANGED <<training, latest, tags, untrained, label, promoted, early>>
    BY <1>2 DEF Rollback, Moved
  <2>3. /\ stage' \in [Versions -> Stages] /\ previous' \in 0..MaxVersions
        /\ OneProduction' /\ Released' = Released \cup {v}
        /\ \A u \in Versions : stage[u] \notin {"absent", "None"} => stage'[u] \notin {"absent", "None"}
    BY <2>1, MovedRelease
  <2>4. RegistrationInv'
    BY <2>1, <2>2, MovedRegistration
  <2>5. TypeOK'
    <3>1. chosen' \in [Operators -> 0..MaxVersions]
      BY <2>2 DEF TypeOK
    <3> QED BY <2>2, <2>3, <3>1 DEF TypeOK, training
  <2>6. PromotedInv'
    BY <2>1, <2>2, <2>3 DEF PromotedInv, TypeOK
  <2>7. OrderInv'
    BY <2>2 DEF OrderInv
  <2> QED BY <2>3, <2>4, <2>5, <2>6, <2>7
<1>3. CASE OperatorDies(o)
  <2>1. /\ chosen' = [chosen EXCEPT ![o] = 0] /\ undisturbed' = undisturbed \ {o}
        /\ UNCHANGED <<training, registry, label, promoted, early, previous, orderly>>
    BY <1>3 DEF OperatorDies
  <2>2. /\ RegistrationInv' /\ OneProduction'
        /\ Released' = Released /\ Serving' = Serving /\ Archived' = Archived
    BY <2>1, RegistryUntouched
  <2>3. TypeOK'
    BY <2>1 DEF TypeOK, training, registry
  <2>4. PromotedInv' /\ OrderInv'
    BY <2>1, <2>2 DEF PromotedInv, OrderInv, TypeOK, registry
  <2> QED BY <2>2, <2>3, <2>4
<1> QED BY <1>1, <1>2, <1>3

LEMMA ReleaseStep == ReleaseInv /\ [Next]_vars => ReleaseInv'
<1> SUFFICES ASSUME ReleaseInv, [Next]_vars PROVE ReleaseInv'
  OBVIOUS
<1> USE DEF ReleaseInv
<1>1. ASSUME NEW a \in Pods, Boot(a) PROVE ReleaseInv'
  <2>1. PICK name \in Serving \cup {0} : label' = [label EXCEPT ![a] = name]
    BY <1>1 DEF Boot, Serving
  <2>2. UNCHANGED <<training, registry, chosen, promoted, early, previous, orderly, undisturbed>>
    BY <1>1 DEF Boot
  <2>3. name \in 0..MaxVersions /\ (name # 0 => name \in promoted)
    BY <2>1, LifecycleAssumption DEF PromotedInv, Released, Serving, InStage, Versions
  <2>4. /\ RegistrationInv' /\ OneProduction'
        /\ Released' = Released /\ Serving' = Serving /\ Archived' = Archived
    BY <2>2, RegistryUntouched
  <2>5. TypeOK'
    BY <2>1, <2>2, <2>3 DEF TypeOK, training, registry
  <2>6. PromotedInv' /\ OrderInv'
    BY <2>1, <2>2, <2>3, <2>4 DEF PromotedInv, OrderInv, TypeOK, registry
  <2> QED BY <2>4, <2>5, <2>6
<1>2. CASE UNCHANGED vars
  <2>1. UNCHANGED <<training, registry, release>>
    BY <1>2 DEF vars
  <2>2. UNCHANGED <<training, registry, early>>
    BY <2>1 DEF release
  <2>3. /\ RegistrationInv' /\ OneProduction'
        /\ Released' = Released /\ Serving' = Serving /\ Archived' = Archived
    BY <2>2, RegistryUntouched
  <2>4. TypeOK' /\ PromotedInv' /\ OrderInv'
    BY <2>1, <2>3 DEF TypeOK, PromotedInv, OrderInv, training, registry, release
  <2> QED BY <2>3, <2>4
<1> QED BY <1>1, <1>2, TrainerRelease, PromoteRelease, RollbackRelease DEF Next, Release

\* The inductive invariant of the registry holds throughout.
THEOREM ReleaseInvariant == Spec => []ReleaseInv
<1> QED BY ReleaseInit, ReleaseStep, PTL DEF Spec

\* Types, for any numbers of trainers, versions, epochs, operators and pods.
THEOREM LifecycleTypeCorrect == Spec => []TypeOK
<1>1. ReleaseInv => TypeOK
  BY DEF ReleaseInv
<1> QED BY <1>1, ReleaseInvariant, PTL

\* At most one version is in production, whoever promotes and rolls back at once, and
\* whichever registrations end meanwhile.
THEOREM OneInProduction == Spec => []OneProduction
<1>1. ReleaseInv => OneProduction
  BY DEF ReleaseInv
<1> QED BY <1>1, ReleaseInvariant, PTL

\* What serves, served or is reported was promoted, and is fully described unless it was
\* promoted before register() had returned, which promote_to_production does not prevent.
THEOREM ServedReleased == Spec => []ServedWasReleased
<1>1. ReleaseInv => ServedWasReleased
  <2> SUFFICES ASSUME ReleaseInv, NEW v \in Versions,
                      \/ v \in Released
                      \/ \E a \in Pods : label[a] = v
                      \/ \E o \in Operators : chosen[o] = v
               PROVE  v \in promoted /\ (v \in early \/ Complete(v))
    BY DEF ServedWasReleased, Released
  <2>1. v # 0
    BY LifecycleAssumption DEF Versions
  <2>2. v \in promoted
    BY <2>1 DEF ReleaseInv, PromotedInv
  <2> QED BY <2>2 DEF ReleaseInv, PromotedInv, RegistrationInv
<1> QED BY <1>1, ReleaseInvariant, PTL

\* An undisturbed rollback of releases made in order finds the previous version.
THEOREM RollbackIsPrevious == Spec => []RollbackFindsPrevious
<1>1. ReleaseInv => RollbackFindsPrevious
  BY DEF ReleaseInv, OrderInv, RollbackFindsPrevious
<1> QED BY <1>1, ReleaseInvariant, PTL

-----------------------------------------------------------------------------
(* The loop of fit(), in every process *)

\* A process that registers knows the epoch whose weights it saved, as long as the file is
\* still its own.
ProgressInv(t) ==
    /\ Counters(run[t])
    /\ pc[t] = "fit" => GoesOn(run[t])
    /\ pc[t] \notin {"idle", "fit"} => Over(run[t])
    /\ pc[t] \in {"create", "metrics", "feature", "stage"} /\ artifact.by = t =>
         artifact.epoch = Len(run[t].losses)

LoopInv == TypeOK /\ \A t \in Trainers : ProgressInv(t)

LEMMA LoopInit == Init => LoopInv
<1> SUFFICES ASSUME Init PROVE LoopInv
  OBVIOUS
<1>1. Counters(Fresh("train", 0))
  BY FreshCounters DEF Modes
<1> QED BY <1>1, TypeInit DEF Init, LoopInv, ProgressInv

\* A process that does not move keeps what is known of it, whoever else saves.
LEMMA OthersProgress ==
    ASSUME LoopInv, NEW t \in Trainers, NEW u \in Trainers, u # t,
           pc'[u] = pc[u], run'[u] = run[u],
           artifact' = artifact \/ artifact'.by = t
    PROVE  ProgressInv(u)'
  BY DEF LoopInv, ProgressInv

LEMMA TrainerProgress ==
    ASSUME LoopInv, TypeOK', NEW t \in Trainers, Start(t) \/ Trainer(t) \/ TrainerDies(t)
    PROVE  LoopInv'
<1>0. TypeOK /\ ProgressInv(t)
  BY DEF LoopInv
<1>1. /\ \A u \in Trainers : u # t => pc'[u] = pc[u] /\ run'[u] = run[u]
      /\ artifact' = artifact \/ artifact'.by = t
  BY <1>0
  DEF TypeOK, Start, StartTraining, StartTrial, Fit, Trainer, TrainerDies, Epoch, EndTrial, Ends,
      SaveWeights, Register, CreateVersion, Tag, StageVersion
<1>2. ProgressInv(t)'
  <2>1. CASE Start(t)
    <3>1. PICK m \in Modes, e \in Nat :
            /\ run' = [run EXCEPT ![t] = Fresh(m, e)]
            /\ pc' = [pc EXCEPT ![t] = IF e = 0 THEN "fitted" ELSE "fit"]
      BY <2>1, LifecycleAssumption DEF Start, StartTraining, StartTrial, Fit, Modes
    <3>2. /\ run'[t] = Fresh(m, e)
          /\ pc'[t] = IF e = 0 THEN "fitted" ELSE "fit"
      BY <1>0, <3>1 DEF TypeOK
    <3> QED BY <3>2, FreshCounters DEF ProgressInv
  <2>2. CASE \E loss \in ValLosses : Epoch(t, loss)
    <3>1. PICK loss \in ValLosses : Epoch(t, loss)
      BY <2>2
    <3>2. /\ run'[t] = AfterEpoch(run[t], loss)
          /\ pc'[t] = IF Stops(run[t], loss) \/ Len(run[t].losses) + 1 >= run[t].limit
                      THEN "fitted" ELSE "fit"
          /\ pc[t] = "fit" /\ run[t] \in Runs
      BY <1>0, <3>1 DEF Epoch, TypeOK
    <3>3. Counters(run[t]) /\ GoesOn(run[t])
      BY <1>0, <3>2 DEF ProgressInv
    <3> QED BY <3>2, <3>3, EpochRun DEF ProgressInv
  <2>3. CASE EndTrial(t) \/ TrainerDies(t) \/ StageVersion(t)
    <3>1. pc'[t] = "idle" /\ run'[t] = Fresh("train", 0)
      BY <1>0, <2>3 DEF EndTrial, TrainerDies, StageVersion, Ends, TypeOK
    <3> QED BY <3>1, FreshCounters DEF ProgressInv, Modes
  <2>4. CASE SaveWeights(t)
    <3>1. /\ pc[t] = "fitted" /\ pc'[t] = "create" /\ run' = run
          /\ artifact' = [by |-> t, epoch |-> Len(run[t].losses)]
      BY <1>0, <2>4 DEF SaveWeights, TypeOK
    <3> QED BY <1>0, <3>1 DEF ProgressInv
  <2>5. CASE \/ CreateVersion(t)
             \/ Tag(t, "metrics", "metrics", "feature")
             \/ Tag(t, "feature", "feature_version", "stage")
    <3>1. /\ pc[t] \in {"create", "metrics", "feature"}
          /\ pc'[t] \in {"metrics", "feature", "stage"}
          /\ run' = run /\ artifact' = artifact
      BY <1>0, <2>5 DEF CreateVersion, Tag, TypeOK
    <3> QED BY <1>0, <3>1 DEF ProgressInv
  <2> QED BY <2>1, <2>2, <2>3, <2>4, <2>5 DEF Trainer, Register
<1>3. ASSUME NEW u \in Trainers PROVE ProgressInv(u)'
  BY <1>1, <1>2, OthersProgress
<1> QED BY <1>3 DEF LoopInv

LEMMA LoopStep == LoopInv /\ TypeOK' /\ [Next]_vars => LoopInv'
<1> SUFFICES ASSUME LoopInv, TypeOK', [Next]_vars PROVE LoopInv'
  OBVIOUS
<1>1. CASE Release \/ (\E a \in Pods : Boot(a)) \/ UNCHANGED vars
  <2>1. UNCHANGED training
    BY <1>1 DEF Release, Promote, Moved, FindPrevious, Rollback, OperatorDies, Boot, vars
  <2> QED BY <2>1 DEF training, LoopInv, ProgressInv
<1> QED BY <1>1, TrainerProgress DEF Next

\* What each training loop keeps in its variables follows from its losses, in every
\* reachable state.
THEOREM LoopInvariant == Spec => []LoopInv
<1>1. ReleaseInv' => TypeOK'
  BY DEF ReleaseInv
<1> QED BY <1>1, LoopInit, LoopStep, ReleaseInvariant, PTL DEF Spec

\* Early stopping counts the epochs since the best one, and stops when they reach patience.
THEOREM FitStopsInTime == Spec => []StopsInTime
<1>1. ASSUME LoopInv, NEW t \in Trainers
      PROVE  /\ pc[t] = "fit" => ~(\/ SinceBest(run[t]) >= Patience[run[t].mode]
                                   \/ Len(run[t].losses) = run[t].limit)
             /\ pc[t] \notin {"fit", "idle"} => \/ SinceBest(run[t]) >= Patience[run[t].mode]
                                                \/ Len(run[t].losses) = run[t].limit
  <2>1. run[t] \in Runs /\ ProgressInv(t)
    BY <1>1 DEF LoopInv, TypeOK
  <2>2. SinceBest(run[t]) = run[t].stale
    BY <2>1, StaleIsSinceBest DEF ProgressInv
  <2>3. /\ run[t].stale \in Nat /\ Len(run[t].losses) \in Nat /\ run[t].limit \in Nat
        /\ Patience[run[t].mode] \in Nat
    BY <2>1, LifecycleAssumption DEF Runs
  <2> QED BY <2>1, <2>2, <2>3 DEF ProgressInv, GoesOn, Over
<1>2. LoopInv => StopsInTime
  BY <1>1 DEF StopsInTime
<1> QED BY <1>2, LoopInvariant, PTL

\* Registered metrics are of the last epoch, or of the one before it after early stopping,
\* and missing only if there was no epoch; the file holds the last epoch's weights until
\* another run saves over it.
THEOREM MetricsOfLastEpochs == Spec => []MetricsLagByOne
<1>1. ASSUME LoopInv, NEW t \in Trainers, pc[t] \in {"create", "metrics", "feature", "stage"}
      PROVE  /\ artifact.by = t => artifact.epoch = Len(run[t].losses)
             /\ run[t].history \in {Len(run[t].losses), Len(run[t].losses) - 1}
             /\ run[t].history = 0 <=> Len(run[t].losses) = 0
             /\ run[t].history < Len(run[t].losses) =>
                  SinceBest(run[t]) >= Patience[run[t].mode]
  <2>1. run[t] \in Runs /\ ProgressInv(t)
    BY <1>1 DEF LoopInv, TypeOK
  <2>2. SinceBest(run[t]) = run[t].stale
    BY <2>1, StaleIsSinceBest DEF ProgressInv
  <2> QED BY <1>1, <2>1, <2>2 DEF ProgressInv, Over
<1>2. LoopInv => MetricsLagByOne
  BY <1>1 DEF MetricsLagByOne
<1> QED BY <1>2, LoopInvariant, PTL
====

------------------------------ MODULE Registry ------------------------------
(***************************************************************************)
(* The model registry (app/ml/registry.py) and the two writers of it: the  *)
(* retraining job (retrain in app/ml/jobs.py), which the scheduler starts  *)
(* every week and the command `retrain` starts in a process of its own,    *)
(* and the operator's rollback.                                            *)
(*                                                                         *)
(* A retrain is one transaction that stays open while it trains: it reads  *)
(* the data and the champions, trains for minutes in a thread, scores the  *)
(* champion it read on the same data, and then registers and judges its    *)
(* challengers.  The artifacts are files, written outside the transaction. *)
(*                                                                         *)
(* A version is known by the number of the training that made it.  What a  *)
(* model is worth is its metrics on each evaluation window; roi, roi_real  *)
(* and n_bets_real together are sound or not.                              *)
(***************************************************************************)
EXTENDS Integers, FiniteSets

CONSTANTS Proc,           \* processes that retrain or roll back
          Targets,        \* a subset of {"1x2", "handicap"}
          LastWindow,     \* the bound on how far the newest results reach
          Profiles,       \* what a model may score, window by window
          Margin,         \* ml_champion_margin
          MaxTime,        \* the bound on the clock, in seconds
          MaxModels,      \* the bound on the models trained
          MaxEvents,      \* the bound on rollbacks, crashes, failed scorings and
                          \* moves of the window, together
          None

Time  == 0 .. MaxTime
Windows == 0 .. LastWindow
Model == 1 .. MaxModels
Path  == Targets \X Time

\* logloss may be missing; clv_mean_edge is only reported for 1x2.
Metrics == [logloss : Nat \cup {None}, sound : BOOLEAN, clv : Int \cup {None}]

\* What the models score.
Scores == UNION {{f[w] : w \in Windows} : f \in Profiles}

Statuses == {"champion", "challenger", "retired"}
Row == [target : Targets, file : Path, metrics : Scores,
        status : Statuses, promoted : Nat]      \* promoted 0: never

ASSUME RegistryAssumption ==
  /\ Targets \subseteq {"1x2", "handicap"}
  /\ Profiles \subseteq [Windows -> Metrics] /\ Margin \in Int
  /\ MaxTime \in Nat /\ MaxModels \in Nat /\ MaxEvents \in Nat
  /\ LastWindow \in Nat
  /\ None \notin Row /\ None \notin Metrics /\ None \notin Profiles
  /\ None \notin Nat /\ None \notin Path

VARIABLES
  clock, window,
  versions,     \* model_versions
  files,        \* the model stored under each artifact path, or None
  score,        \* what each trained model scores on each window
  trained,      \* how many models have been trained
  promotions,   \* how many promotions were begun: the order of promoted_at
  twins,        \* two retrains of a target have started in one second
  tx, events

vars == <<clock, window, versions, files, score, trained, promotions, twins, tx, events>>

NoRows == [n \in Model |-> None]
Idle == [pc |-> "idle", rolling |-> FALSE, window |-> 0, stamp |-> 0,
         read |-> [t \in Targets |-> None], made |-> [t \in Targets |-> None],
         fresh |-> [t \in Targets |-> None], todo |-> {}, version |-> None,
         current |-> None, wrote |-> NoRows]

Transaction ==
  [pc : {"idle", "dataset", "train", "promote", "crown"},
   rolling : BOOLEAN, window : Windows, stamp : Time,
   read : [Targets -> Path \cup {None}], made : [Targets -> Model \cup {None}],
   fresh : [Targets -> Scores \cup {None}], todo : SUBSET Targets,
   version : Model \cup {None}, current : Model \cup {None},
   wrote : [Model -> Row \cup {None}]]

TypeOK ==
  /\ clock \in Time /\ window \in Windows
  /\ versions \in [Model -> Row \cup {None}]
  /\ files \in [Path -> Model \cup {None}]
  /\ score \in [Model -> Profiles \cup {None}]
  /\ trained \in 0 .. MaxModels /\ promotions \in Nat
  /\ tx \in [Proc -> Transaction]
  /\ twins \in BOOLEAN /\ events \in 0 .. MaxEvents

Init ==
  /\ clock = 0 /\ window = 0
  /\ versions = NoRows /\ files = [f \in Path |-> None] /\ score = NoRows
  /\ trained = 0 /\ promotions = 0
  /\ twins = FALSE /\ tx = [p \in Proc |-> Idle] /\ events = 0

-----------------------------------------------------------------------------
(* The gate.                                                               *)

\* gate_passes: fails closed without a logloss; the edge over the close is only
\* compared when both report it.
Passes(challenger, champion) ==
  /\ challenger.logloss # None /\ champion.logloss # None
  /\ challenger.logloss < champion.logloss - Margin
  /\ challenger.sound
  /\ (challenger.clv # None /\ champion.clv # None) => challenger.clv >= champion.clv

-----------------------------------------------------------------------------
(* The table, as committed and as a transaction sees it.                   *)

View(p) == [n \in Model |-> IF tx[p].wrote[n] # None THEN tx[p].wrote[n] ELSE versions[n]]

\* get_champion: at most one, by uq_model_versions_champion_target.
Champions(table, t) ==
  {n \in Model : table[n] # None /\ table[n].target = t /\ table[n].status = "champion"}
Champion(table, t) ==
  IF Champions(table, t) = {} THEN None ELSE CHOOSE n \in Champions(table, t) : TRUE

\* Mutant of Previous: the order of promotion the wrong way round.
PreviousFirst(table, t) ==
  LET retired == {n \in Model : /\ table[n] # None /\ table[n].target = t
                                /\ table[n].status = "retired" /\ table[n].promoted > 0}
  IN  IF retired = {} THEN None
      ELSE CHOOSE n \in retired : \A m \in retired : table[m].promoted >= table[n].promoted

\* rollback: the retired version promoted last.
Previous(table, t) ==
  LET retired == {n \in Model : /\ table[n] # None /\ table[n].target = t
                                /\ table[n].status = "retired" /\ table[n].promoted > 0}
  IN  IF retired = {} THEN None
      ELSE CHOOSE n \in retired : \A m \in retired : table[m].promoted <= table[n].promoted

-----------------------------------------------------------------------------
Tick ==
  /\ clock < MaxTime
  /\ clock' = clock + 1
  /\ UNCHANGED <<window, versions, files, score, trained, promotions, twins, tx, events>>

\* New results move the window the models are evaluated on.
NewResults ==
  /\ window + 1 \in Windows /\ events < MaxEvents
  /\ window' = window + 1 /\ events' = events + 1
  /\ UNCHANGED <<clock, versions, files, score, trained, promotions, twins, tx>>

\* build_dataset for the targets that have enough rows.  (A run too late to train
\* within the bounds is left out.)
BuildDataset(p) ==
  /\ tx[p].pc = "idle" /\ clock < MaxTime /\ trained < MaxModels
  /\ \E todo \in SUBSET Targets \ {{}} :
       tx' = [tx EXCEPT ![p] = [Idle EXCEPT !.pc = "dataset", !.window = window, !.todo = todo]]
  /\ UNCHANGED <<clock, window, versions, files, score, trained, promotions, twins, events>>

Serving ==
  [t \in Targets |-> IF Champion(versions, t) = None THEN None
                     ELSE versions[Champion(versions, t)].file]

\* The champions' artifact paths are read and the training thread starts, the
\* second of its start naming the artifacts.
ReadChampions(p) ==
  /\ tx[p].pc = "dataset" /\ clock < MaxTime
  /\ tx' = [tx EXCEPT ![p] = [@ EXCEPT !.pc = "train", !.stamp = clock, !.read = Serving]]
  /\ twins' = (twins \/ \E q \in Proc \ {p} : /\ tx[q].pc = "train" /\ tx[q].stamp = clock
                                              /\ tx[q].todo \cap tx[p].todo # {})
  /\ UNCHANGED <<clock, window, versions, files, score, trained, promotions, events>>

\* The order of the two targets in a run.
First(targets) == IF "1x2" \in targets THEN "1x2" ELSE "handicap"
Untrained(p) == {t \in tx[p].todo : tx[p].made[t] = None}

\* Mutant of ArtifactPath: one file for all versions of a target.
ArtifactPathFixed(p, t) == <<t, 0>>

ArtifactPath(p, t) == <<t, tx[p].stamp>>

\* A training that fails on its data makes no challenger.
SkipTarget(p) ==
  /\ tx[p].pc = "train" /\ Untrained(p) # {}
  /\ tx' = [tx EXCEPT ![p] = [@ EXCEPT !.todo = tx[p].todo \ {First(Untrained(p))}]]
  /\ UNCHANGED <<clock, window, versions, files, score, trained, promotions, twins, events>>

\* _train_challenger_sync, one target: the model is made and saved, and the
\* champion read above is scored on this run's window, unless that fails.
\* Training takes longer than the second its artifact is named after.
Train(p) ==
  LET t     == First(Untrained(p))
      model == trained + 1
      file  == ArtifactPath(p, t)
  IN  /\ tx[p].pc = "train" /\ Untrained(p) # {}
      /\ clock > tx[p].stamp /\ trained < MaxModels
      /\ \E scores \in Profiles, evaluates \in BOOLEAN :
           /\ evaluates \/ (tx[p].read[t] # None /\ events < MaxEvents)
           /\ events' = IF evaluates THEN events ELSE events + 1
           /\ score' = [score EXCEPT ![model] = scores]
           /\ files' = [files EXCEPT ![file] = model]
           /\ tx' = [tx EXCEPT ![p] = [@ EXCEPT
                !.made[t] = model,
                !.fresh[t] = IF tx[p].read[t] = None \/ ~evaluates THEN None
                             ELSE score'[files'[tx[p].read[t]]][tx[p].window]]]
      /\ trained' = model
      /\ UNCHANGED <<clock, window, versions, promotions, twins>>

\* Mutant of Baseline: always the stored metrics, of an older window.
BaselineStored(p, t, champion) == versions[champion].metrics

\* What the gate compares with: the fresh metrics, else the stored ones of the
\* champion of this moment.
Baseline(p, t, champion) ==
  IF tx[p].fresh[t] = None THEN versions[champion].metrics ELSE tx[p].fresh[t]

\* The thread has returned: register_challenger and the decision of maybe_promote.
Judge(p) ==
  LET t        == First(tx[p].todo)
      made     == tx[p].made[t]
      champion == Champion(View(p), t)
      metrics  == score[made][tx[p].window]
      row      == [target |-> t, file |-> ArtifactPath(p, t), metrics |-> metrics,
                   status |-> "challenger", promoted |-> 0]
      promote  == champion = None \/ Passes(metrics, Baseline(p, t, champion))
  IN  /\ tx[p].pc = "train" /\ tx[p].todo # {} /\ Untrained(p) = {}
      /\ tx' = [tx EXCEPT ![p] = [@ EXCEPT
           !.todo = tx[p].todo \ {t}, !.wrote[made] = row,
           !.version = IF promote THEN made ELSE None,
           !.pc = IF promote THEN "promote" ELSE "train"]]
      /\ UNCHANGED <<clock, window, versions, files, score, trained, promotions,
                     twins, events>>

\* rollback chooses the version to restore.
ChoosePrevious(p, t) ==
  /\ tx[p].pc = "idle" /\ events < MaxEvents
  /\ Previous(versions, t) # None
  /\ events' = events + 1
  /\ tx' = [tx EXCEPT ![p] = [Idle EXCEPT !.pc = "promote", !.rolling = TRUE,
                                          !.version = Previous(versions, t)]]
  /\ UNCHANGED <<clock, window, versions, files, score, trained, promotions, twins>>

\* promote reads the champion again ...
ReadCurrent(p) ==
  /\ tx[p].pc = "promote"
  /\ tx' = [tx EXCEPT ![p] = [@ EXCEPT
       !.pc = "crown", !.current = Champion(View(p), View(p)[tx[p].version].target)]]
  /\ UNCHANGED <<clock, window, versions, files, score, trained, promotions, twins, events>>

\* A transaction in the middle of a promotion for the target holds the rows, and
\* the entry of the unique index, that another one needs.
Holds(p, t) ==
  \E n \in Model : /\ tx[p].wrote[n] # None /\ tx[p].wrote[n].target = t
                   /\ tx[p].wrote[n].status # "challenger"
Held(p, t) == \E q \in Proc \ {p} : Holds(q, t)

\* ... and writes it retired, and the version champion.
Enthroned(p) ==
  LET seen == View(p)
      old  == tx[p].current
  IN  [n \in Model |->
         IF n = tx[p].version
         THEN [seen[n] EXCEPT !.status = "champion", !.promoted = promotions + 1]
         ELSE IF n = old THEN [seen[n] EXCEPT !.status = "retired"]
         ELSE tx[p].wrote[n]]

\* Mutant of Violates: no unique index.
ViolatesNever(p, t) == FALSE

\* A champion was committed that this transaction has not retired.
Violates(p, t) ==
  \E n \in Champions(versions, t) \ {tx[p].version} : Enthroned(p)[n] = None

TargetOf(p) == View(p)[tx[p].version].target

Crown(p) ==
  /\ tx[p].pc = "crown"
  /\ ~Held(p, TargetOf(p)) /\ ~Violates(p, TargetOf(p))
  /\ promotions' = promotions + 1
  /\ tx' = [tx EXCEPT ![p] = [@ EXCEPT !.pc = "train", !.wrote = Enthroned(p)]]
  /\ UNCHANGED <<clock, window, versions, files, score, trained, twins, events>>

Commit(p) ==
  /\ tx[p].pc = "train" /\ tx[p].todo = {}
  /\ versions' = View(p)
  /\ tx' = [tx EXCEPT ![p] = Idle]
  /\ UNCHANGED <<clock, window, files, score, trained, promotions, twins, events>>

\* The unique index rejects the promotion: the run fails, with what it did for
\* the other target; its artifacts stay on disk.
IntegrityError(p) ==
  /\ tx[p].pc = "crown"
  /\ ~Held(p, TargetOf(p)) /\ Violates(p, TargetOf(p))
  /\ tx' = [tx EXCEPT ![p] = Idle]
  /\ UNCHANGED <<clock, window, versions, files, score, trained, promotions, twins, events>>

Crash(p) ==
  /\ tx[p].pc # "idle" /\ events < MaxEvents
  /\ events' = events + 1
  /\ tx' = [tx EXCEPT ![p] = Idle]
  /\ UNCHANGED <<clock, window, versions, files, score, trained, promotions, twins>>

Retrain(p) ==
  \/ BuildDataset(p) \/ ReadChampions(p) \/ SkipTarget(p) \/ Train(p)
  \/ Judge(p)
Promote(p) == ReadCurrent(p) \/ Crown(p) \/ IntegrityError(p)

Next ==
  \/ Tick \/ NewResults
  \/ \E p \in Proc : \/ Retrain(p) \/ Promote(p) \/ Commit(p) \/ Crash(p)
                     \/ \E t \in Targets : ChoosePrevious(p, t)

Spec == Init /\ [][Next]_vars

-----------------------------------------------------------------------------
(* What holds of the table and of every open transaction.                  *)

\* "Versioned and rollback-able": the artifact a version's row names is the model
\* the row's metrics were measured on, unless two retrains of its target started
\* in the second that names their files.
ArtifactIsTheVersions ==
  ~twins => \A n \in Model : versions[n] # None => files[versions[n].file] = n

\* Every trained model was scored, is of one run, and is not registered before
\* that run's commit.
Made(p, t) == tx[p].made[t]
ModelsAreOwn ==
  /\ \A n \in Model : /\ n <= trained => score[n] # None
                      /\ versions[n] # None => n <= trained /\ files[versions[n].file] # None
  /\ \A f \in Path : files[f] # None => files[f] <= trained
  /\ \A p \in Proc, t \in Targets : Made(p, t) # None =>
       /\ Made(p, t) <= trained /\ versions[Made(p, t)] = None
       /\ files[ArtifactPath(p, t)] # None
       /\ \A q \in Proc, u \in Targets : Made(q, u) = Made(p, t) => q = p /\ u = t

\* What a transaction writes is its own challenger, or a row of the table with
\* another status.
WritesRow(p, n) ==
  LET new == tx[p].wrote[n]
      old == versions[n]
  IN  IF old # None
      THEN /\ new.target = old.target /\ new.file = old.file /\ new.metrics = old.metrics
           /\ new.status # "challenger" /\ new.promoted >= old.promoted
           /\ new.status = "retired" => new.promoted = old.promoted
      ELSE n = Made(p, new.target) /\ new.file = ArtifactPath(p, new.target)
WritesAreRows == \A p \in Proc, n \in Model : tx[p].wrote[n] # None => WritesRow(p, n)

\* Where a transaction is: the target it judges is the one it has not written
\* yet, and the version it promotes is of a target it has not promoted for.
Staged(p) ==
  /\ tx[p].pc \in {"idle", "dataset"} =>
       tx[p] = [Idle EXCEPT !.pc = tx[p].pc, !.window = tx[p].window, !.todo = tx[p].todo]
  /\ tx[p].pc = "idle" => tx[p].todo = {}
  /\ tx[p].rolling =>
       /\ tx[p].todo = {} /\ tx[p].made = Idle.made
       /\ tx[p].pc \in {"promote", "crown"} => tx[p].wrote = NoRows
  /\ \A n \in Model : tx[p].wrote[n] # None => tx[p].wrote[n].target \notin tx[p].todo
  /\ tx[p].pc \in {"promote", "crown"} =>
       /\ Untrained(p) = {} /\ tx[p].version # None /\ View(p)[tx[p].version] # None
       /\ ~Holds(p, TargetOf(p))
       /\ IF tx[p].rolling THEN View(p)[tx[p].version].status # "challenger"
          ELSE tx[p].version = Made(p, TargetOf(p))
  /\ tx[p].pc = "crown" /\ tx[p].current # None =>
       /\ View(p)[tx[p].current] # None /\ View(p)[tx[p].current].target = TargetOf(p)
       /\ View(p)[tx[p].current].status # "challenger"
Stages == \A p \in Proc : Staged(p)

\* One champion to a target at most, promoted after all others; in the table and
\* in what every transaction would make of it.
Orderly(table, t) ==
  \A n \in Champions(table, t) : \A m \in Model \ {n} :
    table[m] # None /\ table[m].target = t =>
      table[m].status # "champion" /\ table[m].promoted < table[n].promoted
Promoted(row) ==
  row # None => /\ row.promoted <= promotions
                /\ row.status = "champion" => row.promoted > 0
                /\ row.status = "challenger" <=> row.promoted = 0
ChampionsAreOrderly ==
  /\ \A n \in Model : /\ Promoted(versions[n])
                      /\ \A p \in Proc : Promoted(tx[p].wrote[n])
  /\ \A t \in Targets :
       /\ Orderly(versions, t)
       /\ \A p \in Proc : /\ Orderly(View(p), t)
                          /\ Holds(p, t) => Champions(View(p), t) # {} /\ ~Held(p, t)

\* The artifacts a run writes or has yet to write.
Claims(p) ==
  IF tx[p].pc \in {"idle", "dataset"} THEN {}
  ELSE {ArtifactPath(p, t) : t \in {u \in Targets : u \in tx[p].todo \/ Made(p, u) # None}}

\* Without twins nobody writes where another has written or will.
ClaimsAreOwn ==
  /\ \A n \in Model : versions[n] # None => versions[n].file[2] < clock
  /\ \A p \in Proc, t \in Targets : Made(p, t) # None => tx[p].stamp < clock
  /\ \A p \in Proc : tx[p].stamp <= clock
  /\ ~twins =>
       /\ \A p, q \in Proc : p = q \/ Claims(p) \cap Claims(q) = {}
       /\ \A p \in Proc, n \in Model : versions[n] # None => versions[n].file \notin Claims(p)
       /\ \A p \in Proc, t \in Targets :
            Made(p, t) # None => files[ArtifactPath(p, t)] = Made(p, t)

\* What the gate has been passed against: a model as it is scored on the run's
\* window; or the stored metrics of a version that was champion.
BeatsStored(metrics, t) ==
  \E n \in Model : /\ versions[n] # None /\ versions[n].target = t /\ versions[n].promoted > 0
                   /\ Passes(metrics, versions[n].metrics)
Crowning(p, n) ==
  /\ ~tx[p].rolling /\ tx[p].wrote[n] # None
  /\ \/ tx[p].wrote[n].status = "champion"
     \/ tx[p].pc \in {"promote", "crown"} /\ n = tx[p].version
FreshIsOfTheRead(p, t) ==
  /\ tx[p].read[t] # None =>
       /\ \E n \in Model : /\ versions[n] # None /\ versions[n].target = t
                          /\ versions[n].file = tx[p].read[t]
       /\ Champions(versions, t) # {}
  /\ tx[p].fresh[t] # None => tx[p].read[t] # None
  /\ ~twins /\ tx[p].fresh[t] # None =>
       tx[p].fresh[t] = score[files[tx[p].read[t]]][tx[p].window]
CrownedPasses(p, t) ==
  \A n \in Model : Crowning(p, n) /\ tx[p].wrote[n].target = t /\ tx[p].read[t] # None =>
    IF tx[p].fresh[t] # None THEN Passes(tx[p].wrote[n].metrics, tx[p].fresh[t])
    ELSE BeatsStored(tx[p].wrote[n].metrics, t)
GateIsPassed == \A p \in Proc, t \in Targets : FreshIsOfTheRead(p, t) /\ CrownedPasses(p, t)

\* What every state of the registry satisfies.
RegistryInv ==
  /\ TypeOK /\ ArtifactIsTheVersions /\ ModelsAreOwn /\ WritesAreRows /\ Stages
  /\ ChampionsAreOrderly /\ ClaimsAreOwn /\ GateIsPassed

-----------------------------------------------------------------------------
(* Properties.                                                             *)

\* A target that has a champion keeps having exactly one: retiring the old and
\* crowning the new are never seen apart, whatever runs collide or die between
\* them, and get_champion never meets two.
OneChampionKept ==
  [][\A t \in Targets : Champions(versions, t) # {} =>
       Cardinality(Champions(versions', t)) = 1]_vars

\* maybe_promote: "the gate compares like with like".  A champion is replaced by
\* a challenger only when that challenger passed the gate against it, on the
\* challenger's window; or, when it could not be scored, against the stored
\* metrics of a champion.  (The champion of the run's beginning: when the other
\* process has promoted meanwhile, the gate compares with the champion before.)
ReplacedByABetter ==
  [][\A p \in Proc, t \in Targets :
       LET old == Champion(versions, t)
           new == Champion(versions', t)
       IN  (/\ Commit(p) /\ ~tx[p].rolling /\ ~twins
            /\ old # None /\ new # old /\ tx[p].read[t] = versions[old].file) =>
             IF tx[p].fresh[t] # None
             THEN Passes(versions'[new].metrics, score[old][tx[p].window])
             ELSE BeatsStored(versions'[new].metrics, t)]_vars

\* "Promotion/rollback is a status change - deterministic and reversible": the
\* version a rollback deposed is the one the next rollback restores.
RollbackReversible ==
  [][\A p \in Proc, t \in Targets :
       LET old == Champion(versions, t)
       IN  (Commit(p) /\ tx[p].rolling /\ old # None /\ Champion(versions', t) # old) =>
             Previous(versions', t) = old]_vars
=============================================================================

--------------------------- MODULE RegistryProofs ---------------------------
(***************************************************************************)
(* One champion to a target, a gate that is passed before it falls, and    *)
(* rollbacks that undo each other: for any processes, targets, profiles    *)
(* and bounds, and any interleaving of retrains, rollbacks and crashes.    *)
(***************************************************************************)
EXTENDS Registry, FiniteSetTheorems, WellFoundedInduction, TLAPS

\* The first of some targets is one of them.
LEMMA FirstIsOne ==
  ASSUME NEW S, S \subseteq Targets, S # {}
  PROVE  First(S) \in S
BY RegistryAssumption DEF First

\* The fields of a transaction.
LEMMA TxType ==
  ASSUME TypeOK, NEW p \in Proc
  PROVE  /\ tx[p].pc \in {"idle", "dataset", "train", "promote", "crown"}
         /\ tx[p].rolling \in BOOLEAN /\ tx[p].window \in Windows /\ tx[p].stamp \in Time
         /\ tx[p].read \in [Targets -> Path \cup {None}]
         /\ tx[p].made \in [Targets -> Model \cup {None}]
         /\ tx[p].fresh \in [Targets -> Scores \cup {None}]
         /\ tx[p].todo \in SUBSET Targets
         /\ tx[p].version \in Model \cup {None} /\ tx[p].current \in Model \cup {None}
         /\ tx[p].wrote \in [Model -> Row \cup {None}]
BY DEF TypeOK, Transaction

\* A transaction sees rows.
LEMMA ViewType ==
  ASSUME TypeOK, NEW p \in Proc
  PROVE  View(p) \in [Model -> Row \cup {None}]
<1>1. tx[p].wrote \in [Model -> Row \cup {None}]
  BY TxType
<1> QED BY <1>1 DEF View, TypeOK

\* get_champion finds one if there is one.
LEMMA ChampionFound ==
  ASSUME NEW table, NEW t
  PROVE  /\ Champion(table, t) # None => Champion(table, t) \in Champions(table, t)
         /\ Champions(table, t) # {} => Champion(table, t) \in Champions(table, t)
         /\ Champion(table, t) = None <=> Champions(table, t) = {}
<1>1. Champions(table, t) \subseteq Nat
  BY DEF Champions, Model
<1> QED BY <1>1, RegistryAssumption DEF Champion

\* The versions rollback chooses from.
Retired(table, t) ==
  {n \in Model : /\ table[n] # None /\ table[n].target = t
                 /\ table[n].status = "retired" /\ table[n].promoted > 0}

\* rollback finds a version if one was retired, and it was promoted last.
LEMMA PreviousFound ==
  ASSUME TypeOK, ChampionsAreOrderly, NEW t \in Targets, Previous(versions, t) # None
  PROVE  /\ Previous(versions, t) \in Retired(versions, t)
         /\ \A m \in Retired(versions, t) :
              versions[m].promoted <= versions[Previous(versions, t)].promoted
<1> DEFINE S == Retired(versions, t)
           rank(n) == versions[n].promoted
           Left == {k \in Nat : \E n \in S : rank(n) + k = promotions}
<1>1. \A n \in S : rank(n) \in Nat /\ rank(n) <= promotions
  BY DEF Retired, ChampionsAreOrderly, Promoted, TypeOK, Row
<1>2. promotions \in Nat
  BY DEF TypeOK
<1>3. \A n \in S : promotions - rank(n) \in Left
  BY <1>1, <1>2
<1>4. S # {}
  BY DEF Previous, Retired
<1>5. PICK k \in Left : \A m \in Left : ~ (<<m, k>> \in OpToRel(<, Nat))
  <2>1. Left # {} /\ Left \subseteq Nat
    BY <1>3, <1>4
  <2> HIDE DEF Left
  <2> QED BY <2>1, NatLessThanWellFounded, WFMin
<1>6. \A m \in Left : k <= m
  <2>1. SUFFICES ASSUME NEW m \in Left, m < k PROVE FALSE
    OBVIOUS
  <2>2. <<m, k>> \in OpToRel(<, Nat)
    BY <2>1 DEF OpToRel
  <2> QED BY <1>5, <2>2
<1>7. PICK n \in S : rank(n) + k = promotions
  BY <1>5
<1>8. ASSUME NEW m \in S PROVE rank(m) <= rank(n)
  BY <1>1, <1>2, <1>3, <1>6, <1>7, <1>8
<1>9. Previous(versions, t) = CHOOSE i \in S : \A m \in S : rank(m) <= rank(i)
  BY <1>4 DEF Previous, Retired
<1> HIDE DEF S
<1> QED BY <1>8, <1>9 DEF S

\* Nothing is written yet.
LEMMA IdleType == Idle \in Transaction /\ 0 \in Windows
BY RegistryAssumption DEF Idle, NoRows, Windows, Time, Transaction

\* A row that is promoted is a row.
LEMMA PromotedRow ==
  ASSUME NEW row \in Row, NEW k \in Nat
  PROVE  [row EXCEPT !.status = "champion", !.promoted = k] \in Row
BY DEF Row, Statuses

\* A step of one transaction leaves the others alone.
LEMMA OneSteps ==
  ASSUME TypeOK, NEW p \in Proc, NEW new \in Transaction, tx' = [tx EXCEPT ![p] = new]
  PROVE  /\ tx' \in [Proc -> Transaction]
         /\ tx'[p] = new
         /\ \A q \in Proc : q # p => tx'[q] = tx[q]
BY DEF TypeOK

-----------------------------------------------------------------------------
(* What the steps of a transaction do.                                     *)

\* A transaction that has trained a target.
Trained(p, t, x) == [tx[p] EXCEPT !.made[t] = trained + 1, !.fresh[t] = x]

\* A target is trained: its model is new.
LEMMA TrainDoes ==
  ASSUME RegistryInv, NEW p \in Proc, Train(p)
  PROVE  \E t \in Targets, scores \in Profiles, x \in Scores \cup {None} :
    /\ t \in tx[p].todo /\ tx[p].made[t] = None /\ ArtifactPath(p, t) \in Path
    /\ trained + 1 \in Model /\ trained' = trained + 1
    /\ score' = [score EXCEPT ![trained + 1] = scores]
    /\ files' = [files EXCEPT ![ArtifactPath(p, t)] = trained + 1]
    /\ tx' = [tx EXCEPT ![p] = Trained(p, t, x)] /\ Trained(p, t, x) \in Transaction
    /\ x # None => /\ tx[p].read[t] # None
                   /\ x = score'[files'[tx[p].read[t]]][tx[p].window]
<1> DEFINE t == First(Untrained(p))
           model == trained + 1
           file == ArtifactPath(p, t)
<1>0. TypeOK /\ tx[p] \in Transaction
  BY DEF RegistryInv, TypeOK
<1>1. t \in Targets /\ t \in tx[p].todo /\ tx[p].made[t] = None
  <2>1. Untrained(p) \subseteq Targets
    BY <1>0, TxType DEF Untrained
  <2>2. t \in Untrained(p)
    BY <2>1, FirstIsOne DEF Train
  <2> QED BY <2>1, <2>2 DEF Untrained
<1>2. model \in Model
  BY <1>0, RegistryAssumption DEF Train, TypeOK, Model
<1>3. file \in Path
  BY <1>0, <1>1, TxType DEF ArtifactPath, Path
<1> HIDE DEF t, model, file
<1>4. PICK scores \in Profiles, evaluates \in BOOLEAN :
        /\ score' = [score EXCEPT ![model] = scores]
        /\ files' = [files EXCEPT ![file] = model]
        /\ tx' = [tx EXCEPT ![p] = [tx[p] EXCEPT
             !.made[t] = model,
             !.fresh[t] = IF tx[p].read[t] = None \/ ~evaluates THEN None
                          ELSE score'[files'[tx[p].read[t]]][tx[p].window]]]
  BY DEF Train, t, model, file
<1>5. ASSUME tx[p].read[t] # None
      PROVE  score'[files'[tx[p].read[t]]][tx[p].window] \in Scores
  <2>1. tx[p].read[t] \in Path
    <3>1. tx[p].read \in [Targets -> Path \cup {None}]
      BY <1>0, TxType
    <3> QED BY <1>1, <1>5, <3>1
  <2>2. PICK n \in Model : versions[n] # None /\ versions[n].file = tx[p].read[t]
    BY <1>1, <1>5 DEF RegistryInv, GateIsPassed, FreshIsOfTheRead
  <2>3. files[tx[p].read[t]] # None /\ files[tx[p].read[t]] <= trained
    BY <2>1, <2>2 DEF RegistryInv, ModelsAreOwn
  <2>4. files[tx[p].read[t]] \in Model
    BY <1>0, <2>1, <2>3 DEF TypeOK
  <2>5. score[files[tx[p].read[t]]] # None
    BY <2>3, <2>4 DEF RegistryInv, ModelsAreOwn
  <2>6. score[files[tx[p].read[t]]] \in Profiles
    BY <1>0, <2>4, <2>5 DEF TypeOK
  <2>7. files'[tx[p].read[t]] = files[tx[p].read[t]] \/ files'[tx[p].read[t]] = model
    BY <1>0, <1>3, <1>4, <2>1 DEF TypeOK
  <2>8. score'[files'[tx[p].read[t]]] \in Profiles
    BY <1>0, <1>2, <1>4, <2>4, <2>6, <2>7 DEF TypeOK
  <2>9. tx[p].window \in Windows
    BY <1>0, TxType
  <2> QED BY <2>8, <2>9 DEF Scores
<1>6. PICK x \in Scores \cup {None} :
        /\ tx' = [tx EXCEPT ![p] = [tx[p] EXCEPT !.made[t] = model, !.fresh[t] = x]]
        /\ x # None => /\ tx[p].read[t] # None
                       /\ x = score'[files'[tx[p].read[t]]][tx[p].window]
  BY <1>4, <1>5
<1>7. [tx[p] EXCEPT !.made[t] = model, !.fresh[t] = x] \in Transaction
  BY <1>0, <1>1, <1>2 DEF Transaction
<1>8. trained' = model
  BY DEF Train, model
<1> QED BY <1>1, <1>2, <1>3, <1>4, <1>6, <1>7, <1>8 DEF model, file, Trained

\* The row of a challenger, and a transaction that has judged it.
Challenger(p, t, metrics) ==
  [target |-> t, file |-> ArtifactPath(p, t), metrics |-> metrics,
   status |-> "challenger", promoted |-> 0]
Judged(p, t, made, metrics, promote) ==
  [tx[p] EXCEPT !.todo = tx[p].todo \ {t}, !.wrote[made] = Challenger(p, t, metrics),
                !.version = IF promote THEN made ELSE None,
                !.pc = IF promote THEN "promote" ELSE "train"]

\* A challenger is registered, and judged.
LEMMA JudgeDoes ==
  ASSUME RegistryInv, NEW p \in Proc, Judge(p)
  PROVE  \E t \in Targets, made \in Model, metrics \in Scores, promote \in BOOLEAN :
    /\ t \in tx[p].todo /\ made = tx[p].made[t] /\ Challenger(p, t, metrics) \in Row
    /\ tx' = [tx EXCEPT ![p] = Judged(p, t, made, metrics, promote)]
    /\ Judged(p, t, made, metrics, promote) \in Transaction
    /\ promote <=> \/ Champion(View(p), t) = None
                   \/ Passes(metrics, Baseline(p, t, Champion(View(p), t)))
<1> DEFINE t == First(tx[p].todo)
           made == tx[p].made[t]
           metrics == score[made][tx[p].window]
           row == Challenger(p, t, metrics)
           promote == \/ Champion(View(p), t) = None
                      \/ Passes(metrics, Baseline(p, t, Champion(View(p), t)))
<1>0. TypeOK /\ tx[p] \in Transaction
  BY DEF RegistryInv, TypeOK
<1>1. t \in Targets /\ t \in tx[p].todo
  <2>1. tx[p].todo \in SUBSET Targets
    BY <1>0, TxType
  <2> QED BY <2>1, FirstIsOne DEF Judge
<1>2. made \in Model /\ made # None
  <2>1. made # None
    BY <1>1 DEF Judge, Untrained
  <2>2. tx[p].made \in [Targets -> Model \cup {None}]
    BY <1>0, TxType
  <2> QED BY <1>1, <2>1, <2>2
<1>3. metrics \in Scores
  <2>1. score[made] # None
    BY <1>1, <1>2 DEF RegistryInv, ModelsAreOwn, Made
  <2>2. score[made] \in Profiles
    BY <1>0, <1>2, <2>1 DEF TypeOK
  <2>3. tx[p].window \in Windows
    BY <1>0, TxType
  <2> QED BY <2>2, <2>3 DEF Scores
<1>4. row \in Row
  <2>1. ArtifactPath(p, t) \in Path
    BY <1>0, <1>1, TxType DEF ArtifactPath, Path
  <2> QED BY <1>1, <1>3, <2>1 DEF Row, Statuses, Challenger
<1>5. tx' = [tx EXCEPT ![p] = Judged(p, t, made, metrics, promote)]
  BY DEF Judge, Judged, Challenger
<1>6. promote \in BOOLEAN
  BY DEF Passes
<1> HIDE DEF t, made, metrics, promote
<1> HIDE DEF row
<1>7. Judged(p, t, made, metrics, promote) \in Transaction
  <2>1. [tx[p] EXCEPT !.todo = tx[p].todo \ {t}, !.wrote[made] = row,
                      !.version = IF promote THEN made ELSE None,
                      !.pc = IF promote THEN "promote" ELSE "train"] \in Transaction
    BY <1>0, <1>2, <1>4 DEF Transaction
  <2> QED BY <2>1 DEF Judged, row
<1>8. promote <=> \/ Champion(View(p), t) = None
                  \/ Passes(metrics, Baseline(p, t, Champion(View(p), t)))
  BY DEF promote
<1>9. made = tx[p].made[t]
  BY DEF made
<1> QED BY <1>1, <1>2, <1>3, <1>4, <1>5, <1>6, <1>7, <1>8, <1>9 DEF row

-----------------------------------------------------------------------------
\* Type correctness.
LEMMA TypeInit == Init => TypeOK
<1> SUFFICES ASSUME Init PROVE TypeOK
  OBVIOUS
<1>1. tx \in [Proc -> Transaction]
  BY IdleType DEF Init
<1>2. score \in [Model -> Profiles \cup {None}] /\ versions \in [Model -> Row \cup {None}]
  BY DEF Init, NoRows
<1>3. files \in [Path -> Model \cup {None}]
  BY DEF Init
<1>4. 0 \in Time /\ 0 \in Windows /\ 0 \in 0 .. MaxModels /\ 0 \in 0 .. MaxEvents
  BY RegistryAssumption DEF Windows, Time
<1> QED BY <1>1, <1>2, <1>3, <1>4 DEF Init, TypeOK

\* What a promotion writes are rows.
LEMMA EnthronedType ==
  ASSUME RegistryInv, NEW p \in Proc, tx[p].pc = "crown"
  PROVE  Enthroned(p) \in [Model -> Row \cup {None}]
<1>1. View(p) \in [Model -> Row \cup {None}] /\ tx[p].wrote \in [Model -> Row \cup {None}]
  BY ViewType, TxType DEF RegistryInv
<1>2. tx[p].version # None /\ View(p)[tx[p].version] # None
  BY DEF RegistryInv, Stages, Staged
<1>3. tx[p].current # None => View(p)[tx[p].current] # None
  BY DEF RegistryInv, Stages, Staged
<1>4. promotions + 1 \in Nat
  BY DEF RegistryInv, TypeOK
<1>5. ASSUME NEW n \in Model PROVE Enthroned(p)[n] \in Row \cup {None}
  <2>1. CASE n = tx[p].version
    <3>1. View(p)[n] \in Row
      BY <1>1, <1>2, <2>1
    <3> QED BY <2>1, <3>1, <1>4 DEF Enthroned, Row, Statuses
  <2>2. CASE n # tx[p].version /\ n = tx[p].current
    <3>1. View(p)[n] \in Row
      BY <1>1, <1>3, <2>2, RegistryAssumption DEF Model
    <3> QED BY <2>2, <3>1 DEF Enthroned, Row, Statuses
  <2>3. CASE n # tx[p].version /\ n # tx[p].current
    BY <1>1, <2>3 DEF Enthroned
  <2> QED BY <2>1, <2>2, <2>3
<1> QED BY <1>5 DEF Enthroned

\* The types are kept.
LEMMA TypeStep == RegistryInv /\ [Next]_vars => TypeOK'
<1> SUFFICES ASSUME RegistryInv, [Next]_vars PROVE TypeOK'
  OBVIOUS
<1>0. TypeOK
  BY DEF RegistryInv
<1>t. ASSUME NEW p \in Proc PROVE tx[p] \in Transaction
  BY <1>0 DEF TypeOK
<1>1. CASE Tick
  BY <1>0, <1>1, RegistryAssumption DEF Tick, TypeOK, Time
<1>2. CASE NewResults
  BY <1>0, <1>2, RegistryAssumption DEF NewResults, TypeOK, Windows
<1>3. ASSUME NEW p \in Proc, BuildDataset(p) PROVE TypeOK'
  <2>1. PICK todo \in SUBSET Targets \ {{}} :
          tx' = [tx EXCEPT ![p] = [Idle EXCEPT !.pc = "dataset", !.window = window, !.todo = todo]]
    BY <1>3 DEF BuildDataset
  <2>2. [Idle EXCEPT !.pc = "dataset", !.window = window, !.todo = todo] \in Transaction
    BY <1>0, IdleType DEF Transaction, TypeOK
  <2>3. tx' \in [Proc -> Transaction]
    BY <1>0, <2>1, <2>2, OneSteps
  <2> QED BY <1>0, <1>3, <2>3 DEF BuildDataset, TypeOK
<1>4. ASSUME NEW p \in Proc, ReadChampions(p) PROVE TypeOK'
  <2>1. Serving \in [Targets -> Path \cup {None}]
    <3>1. ASSUME NEW t \in Targets, Champion(versions, t) # None
          PROVE  versions[Champion(versions, t)].file \in Path
      <4>1. Champion(versions, t) \in Champions(versions, t)
        BY <3>1, ChampionFound
      <4>2. versions[Champion(versions, t)] \in Row
        BY <4>1, <1>0 DEF Champions, TypeOK
      <4> QED BY <4>2 DEF Row
    <3> QED BY <3>1 DEF Serving
  <2>2. [tx[p] EXCEPT !.pc = "train", !.stamp = clock, !.read = Serving] \in Transaction
    <3>1. clock \in Time
      BY <1>0 DEF TypeOK
    <3>2. tx[p] \in Transaction
      BY <1>t
    <3> QED BY <2>1, <3>1, <3>2 DEF Transaction
  <2>3. tx' \in [Proc -> Transaction]
    BY <1>0, <1>4, <2>2, OneSteps DEF ReadChampions
  <2> QED BY <1>0, <1>4, <2>3 DEF ReadChampions, TypeOK
<1>5. ASSUME NEW p \in Proc, SkipTarget(p) PROVE TypeOK'
  <2>1. [tx[p] EXCEPT !.todo = tx[p].todo \ {First(Untrained(p))}] \in Transaction
    <3>0. tx[p] \in Transaction
      BY <1>t
    <3> QED BY <3>0 DEF Transaction
  <2>2. tx' = [tx EXCEPT ![p] = [tx[p] EXCEPT !.todo = tx[p].todo \ {First(Untrained(p))}]]
    BY <1>5 DEF SkipTarget
  <2>3. tx' \in [Proc -> Transaction]
    BY <1>0, <2>1, <2>2, OneSteps
  <2> QED BY <1>0, <1>5, <2>3 DEF SkipTarget, TypeOK
<1>6. ASSUME NEW p \in Proc, Train(p) PROVE TypeOK'
  <2>1. PICK t \in Targets, scores \in Profiles, x \in Scores \cup {None} :
          /\ ArtifactPath(p, t) \in Path
          /\ trained + 1 \in Model /\ trained' = trained + 1
          /\ score' = [score EXCEPT ![trained + 1] = scores]
          /\ files' = [files EXCEPT ![ArtifactPath(p, t)] = trained + 1]
          /\ tx' = [tx EXCEPT ![p] = Trained(p, t, x)] /\ Trained(p, t, x) \in Transaction
    BY <1>6, TrainDoes
  <2>2. score' \in [Model -> Profiles \cup {None}] /\ files' \in [Path -> Model \cup {None}]
    BY <1>0, <2>1 DEF TypeOK
  <2>3. tx' \in [Proc -> Transaction]
    BY <1>0, <2>1, OneSteps
  <2>4. trained' \in 0 .. MaxModels
    BY <1>0, <1>6, RegistryAssumption DEF TypeOK, Train
  <2>5. events' \in 0 .. MaxEvents
    BY <1>0, <1>6, RegistryAssumption DEF TypeOK, Train
  <2> QED BY <1>0, <1>6, <2>2, <2>3, <2>4, <2>5 DEF TypeOK, Train
<1>7. ASSUME NEW p \in Proc, Judge(p) PROVE TypeOK'
  <2>1. PICK t \in Targets, made \in Model, metrics \in Scores, promote \in BOOLEAN :
          /\ tx' = [tx EXCEPT ![p] = Judged(p, t, made, metrics, promote)]
          /\ Judged(p, t, made, metrics, promote) \in Transaction
    BY <1>7, JudgeDoes
  <2>2. tx' \in [Proc -> Transaction]
    BY <1>0, <2>1, OneSteps
  <2> QED BY <1>0, <1>7, <2>2 DEF TypeOK, Judge
<1>8. ASSUME NEW p \in Proc, ReadCurrent(p) PROVE TypeOK'
  <2> DEFINE c == Champion(View(p), View(p)[tx[p].version].target)
  <2>1. c \in Model \cup {None}
    BY ChampionFound DEF Champions
  <2>2. tx' = [tx EXCEPT ![p] = [@ EXCEPT !.pc = "crown", !.current = c]]
    BY <1>8 DEF ReadCurrent
  <2> HIDE DEF c
  <2>3. [tx[p] EXCEPT !.pc = "crown", !.current = c] \in Transaction
    <3>0. tx[p] \in Transaction
      BY <1>t
    <3> QED BY <3>0, <2>1 DEF Transaction
  <2>4. tx' \in [Proc -> Transaction]
    BY <1>0, <2>2, <2>3, OneSteps
  <2> QED BY <1>0, <1>8, <2>4 DEF ReadCurrent, TypeOK
<1>9. ASSUME NEW p \in Proc, Crown(p) PROVE TypeOK'
  <2>1. Enthroned(p) \in [Model -> Row \cup {None}]
    BY <1>9, EnthronedType DEF Crown
  <2>2. [tx[p] EXCEPT !.pc = "train", !.wrote = Enthroned(p)] \in Transaction
    <3>0. tx[p] \in Transaction
      BY <1>t
    <3> QED BY <3>0, <2>1 DEF Transaction
  <2>3. tx' \in [Proc -> Transaction]
    BY <1>0, <1>9, <2>2, OneSteps DEF Crown
  <2> QED BY <1>0, <1>9, <2>3 DEF Crown, TypeOK
<1>10. ASSUME NEW p \in Proc, Commit(p) PROVE TypeOK'
  <2>1. View(p) \in [Model -> Row \cup {None}]
    BY <1>0, ViewType
  <2>2. tx' \in [Proc -> Transaction]
    BY <1>0, <1>10, IdleType, OneSteps DEF Commit
  <2> QED BY <1>0, <1>10, <2>1, <2>2 DEF Commit, TypeOK
<1>11. ASSUME NEW p \in Proc, IntegrityError(p) \/ Crash(p) PROVE TypeOK'
  <2>1. tx' \in [Proc -> Transaction]
    BY <1>0, <1>11, IdleType, OneSteps DEF IntegrityError, Crash
  <2>2. events' \in 0 .. MaxEvents
    BY <1>0, <1>11, RegistryAssumption DEF IntegrityError, Crash, TypeOK
  <2> QED BY <1>0, <1>11, <2>1, <2>2 DEF IntegrityError, Crash, TypeOK
<1>12. ASSUME NEW p \in Proc, NEW t \in Targets, ChoosePrevious(p, t) PROVE TypeOK'
  <2>1. Previous(versions, t) \in Model \cup {None}
    BY <1>0, <1>12, PreviousFound DEF ChoosePrevious, Retired, RegistryInv
  <2> DEFINE new == [Idle EXCEPT !.pc = "promote", !.rolling = TRUE,
                                 !.version = Previous(versions, t)]
  <2>2. new \in Transaction
    BY <2>1, IdleType DEF Transaction
  <2>3. tx' \in [Proc -> Transaction]
    BY <1>0, <1>12, <2>2, OneSteps DEF ChoosePrevious
  <2>4. events' \in 0 .. MaxEvents
    BY <1>0, <1>12, RegistryAssumption DEF ChoosePrevious, TypeOK
  <2> QED BY <1>0, <1>12, <2>3, <2>4 DEF ChoosePrevious, TypeOK
<1>13. CASE UNCHANGED vars
  BY <1>0, <1>13 DEF vars, TypeOK
<1> QED BY <1>1, <1>2, <1>3, <1>4, <1>5, <1>6, <1>7, <1>8, <1>9, <1>10, <1>11, <1>12, <1>13
        DEF Next, Retrain, Promote
-----------------------------------------------------------------------------
\* Most steps write nothing: they leave the table and a transaction's rows alone,
\* and the models and the artifacts these are of, or forget them all.
Quiet ==
  /\ versions' = versions /\ promotions' = promotions
  /\ \A q \in Proc :
       \/ tx'[q].wrote = NoRows
       \/ /\ tx'[q].wrote = tx[q].wrote /\ tx'[q].stamp = tx[q].stamp
          /\ \A n \in Model : tx[q].wrote[n] # None =>
               tx'[q].made[tx[q].wrote[n].target] = tx[q].made[tx[q].wrote[n].target]

\* Only judging, crowning and committing write.
LEMMA WritersOnly ==
  ASSUME RegistryInv, [Next]_vars
  PROVE  Quiet \/ \E p \in Proc : Judge(p) \/ Crown(p) \/ Commit(p)
<1>0. TypeOK /\ Stages
  BY DEF RegistryInv
<1>1. CASE Tick \/ NewResults \/ UNCHANGED vars
  BY <1>1 DEF Tick, NewResults, vars, Quiet
<1>2. ASSUME NEW p \in Proc, NEW new \in Transaction, tx' = [tx EXCEPT ![p] = new],
             versions' = versions, promotions' = promotions,
             \/ new.wrote = NoRows
             \/ /\ new.wrote = tx[p].wrote /\ new.stamp = tx[p].stamp
                /\ \A n \in Model : tx[p].wrote[n] # None =>
                     new.made[tx[p].wrote[n].target] = tx[p].made[tx[p].wrote[n].target]
      PROVE  Quiet
  <2>1. tx'[p] = new /\ \A q \in Proc : q # p => tx'[q] = tx[q]
    BY <1>0, <1>2, OneSteps
  <2> QED BY <1>2, <2>1 DEF Quiet
<1>3. ASSUME NEW p \in Proc, BuildDataset(p) PROVE Quiet
  <2>1. PICK todo \in SUBSET Targets \ {{}} :
          tx' = [tx EXCEPT ![p] = [Idle EXCEPT !.pc = "dataset", !.window = window, !.todo = todo]]
    BY <1>3 DEF BuildDataset
  <2> DEFINE new == [Idle EXCEPT !.pc = "dataset", !.window = window, !.todo = todo]
  <2>2. new \in Transaction
    BY <1>0, IdleType DEF Transaction, TypeOK
  <2>3. new.wrote = NoRows
    BY DEF Idle
  <2> HIDE DEF new
  <2> QED BY <1>2, <1>3, <2>1, <2>2, <2>3 DEF BuildDataset, new
<1>4. ASSUME NEW p \in Proc, ReadChampions(p) PROVE Quiet
  <2>1. tx[p] = [Idle EXCEPT !.pc = tx[p].pc, !.window = tx[p].window, !.todo = tx[p].todo]
    BY <1>0, <1>4 DEF Stages, Staged, ReadChampions
  <2>2. tx[p].wrote = NoRows
    BY <2>1 DEF Idle
  <2>3. tx' = [tx EXCEPT ![p] = [tx[p] EXCEPT !.pc = "train", !.stamp = clock, !.read = Serving]]
    BY <1>4 DEF ReadChampions
  <2>4. tx'[p].wrote = NoRows /\ \A q \in Proc : q # p => tx'[q] = tx[q]
    BY <1>0, <2>2, <2>3 DEF TypeOK, Transaction
  <2> QED BY <1>4, <2>4 DEF ReadChampions, Quiet
<1>5. ASSUME NEW p \in Proc, SkipTarget(p) \/ ReadCurrent(p) PROVE Quiet
  <2>1. \A q \in Proc : /\ tx'[q].wrote = tx[q].wrote /\ tx'[q].stamp = tx[q].stamp
                         /\ tx'[q].made = tx[q].made
    <3>1. tx \in [Proc -> Transaction]
      BY <1>0 DEF TypeOK
    <3>2. PICK todo, pc, current : tx' = [tx EXCEPT ![p] =
            [tx[p] EXCEPT !.todo = todo, !.pc = pc, !.current = current]]
      <4>1. CASE SkipTarget(p)
        <5>1. tx' = [tx EXCEPT ![p] = [tx[p] EXCEPT !.todo = tx[p].todo \ {First(Untrained(p))},
                       !.pc = tx[p].pc, !.current = tx[p].current]]
          BY <3>1, <4>1 DEF SkipTarget, Transaction
        <5> QED BY <5>1
      <4>2. CASE ReadCurrent(p)
        <5> DEFINE c == Champion(View(p), View(p)[tx[p].version].target)
        <5>1. tx' = [tx EXCEPT ![p] = [tx[p] EXCEPT !.pc = "crown", !.current = c]]
          BY <4>2 DEF ReadCurrent
        <5> HIDE DEF c
        <5>2. tx' = [tx EXCEPT ![p] = [tx[p] EXCEPT !.todo = tx[p].todo, !.pc = "crown",
                                                    !.current = c]]
          BY <3>1, <5>1 DEF Transaction
        <5> QED BY <5>2
      <4> QED BY <1>5, <4>1, <4>2
    <3> QED BY <3>1, <3>2 DEF Transaction
  <2> QED BY <1>5, <2>1 DEF SkipTarget, ReadCurrent, Quiet
<1>6. ASSUME NEW p \in Proc, Train(p) PROVE Quiet
  <2>1. PICK t \in Targets, x \in Scores \cup {None} :
          /\ t \in tx[p].todo
          /\ tx' = [tx EXCEPT ![p] = Trained(p, t, x)] /\ Trained(p, t, x) \in Transaction
    BY <1>6, TrainDoes
  <2>2. tx[p] \in Transaction
    BY <1>0 DEF TypeOK
  <2>3. /\ Trained(p, t, x).wrote = tx[p].wrote /\ Trained(p, t, x).stamp = tx[p].stamp
        /\ \A u : u # t => Trained(p, t, x).made[u] = tx[p].made[u]
    BY <2>2 DEF Trained, Transaction
  <2>4. \A n \in Model : tx[p].wrote[n] # None => tx[p].wrote[n].target # t
    BY <1>0, <2>1 DEF Stages, Staged
  <2> QED BY <1>2, <1>6, <2>1, <2>3, <2>4 DEF Train
<1>7. ASSUME NEW p \in Proc, IntegrityError(p) \/ Crash(p) PROVE Quiet
  BY <1>2, <1>7, IdleType DEF IntegrityError, Crash, Idle
<1>8. ASSUME NEW p \in Proc, NEW t \in Targets, ChoosePrevious(p, t) PROVE Quiet
  <2> DEFINE new == [Idle EXCEPT !.pc = "promote", !.rolling = TRUE,
                                 !.version = Previous(versions, t)]
  <2>1. Previous(versions, t) \in Model
    BY <1>0, <1>8, PreviousFound DEF ChoosePrevious, Retired, RegistryInv
  <2>2. new \in Transaction /\ new.wrote = NoRows
    BY <2>1, IdleType DEF Transaction, Idle
  <2>3. tx' = [tx EXCEPT ![p] = new]
    BY <1>8 DEF ChoosePrevious
  <2> HIDE DEF new
  <2> QED BY <1>2, <1>8, <2>2, <2>3 DEF ChoosePrevious
<1> QED BY <1>1, <1>3, <1>4, <1>5, <1>6, <1>7, <1>8 DEF Next, Retrain, Promote

\* What the three writers do to the rows of their own transaction, and to others'.
LEMMA JudgeWrites ==
  ASSUME RegistryInv, NEW p \in Proc, Judge(p)
  PROVE  \E t \in Targets, made \in Model, metrics \in Scores, promote \in BOOLEAN :
    /\ t \in tx[p].todo /\ made = tx[p].made[t] /\ Challenger(p, t, metrics) \in Row
    /\ promote <=> \/ Champion(View(p), t) = None
                   \/ Passes(metrics, Baseline(p, t, Champion(View(p), t)))
    /\ tx'[p].wrote = [tx[p].wrote EXCEPT ![made] = Challenger(p, t, metrics)]
    /\ tx'[p].todo = tx[p].todo \ {t}
    /\ tx'[p].version = IF promote THEN made ELSE None
    /\ tx'[p].pc = IF promote THEN "promote" ELSE "train"
    /\ tx'[p].rolling = tx[p].rolling /\ tx'[p].stamp = tx[p].stamp /\ tx'[p].made = tx[p].made
    /\ tx'[p].read = tx[p].read /\ tx'[p].fresh = tx[p].fresh /\ tx'[p].window = tx[p].window
    /\ \A q \in Proc : q # p => tx'[q] = tx[q]
    /\ tx[p].pc = "train" /\ Untrained(p) = {}
    /\ UNCHANGED <<clock, window, versions, files, score, trained, promotions, twins>>
<1>1. PICK t \in Targets, made \in Model, metrics \in Scores, promote \in BOOLEAN :
    /\ t \in tx[p].todo /\ made = tx[p].made[t] /\ Challenger(p, t, metrics) \in Row
    /\ tx' = [tx EXCEPT ![p] = Judged(p, t, made, metrics, promote)]
    /\ Judged(p, t, made, metrics, promote) \in Transaction
    /\ promote <=> \/ Champion(View(p), t) = None
                   \/ Passes(metrics, Baseline(p, t, Champion(View(p), t)))
  BY JudgeDoes
<1>2. tx[p] \in Transaction /\ TypeOK
  BY DEF RegistryInv, TypeOK
<1>3. tx'[p] = Judged(p, t, made, metrics, promote) /\ \A q \in Proc : q # p => tx'[q] = tx[q]
  BY <1>1, <1>2, OneSteps
<1>4. /\ tx'[p].wrote = [tx[p].wrote EXCEPT ![made] = Challenger(p, t, metrics)]
      /\ tx'[p].todo = tx[p].todo \ {t}
      /\ tx'[p].version = IF promote THEN made ELSE None
      /\ tx'[p].pc = IF promote THEN "promote" ELSE "train"
      /\ tx'[p].rolling = tx[p].rolling /\ tx'[p].stamp = tx[p].stamp /\ tx'[p].made = tx[p].made
      /\ tx'[p].read = tx[p].read /\ tx'[p].fresh = tx[p].fresh /\ tx'[p].window = tx[p].window
  BY <1>2, <1>3 DEF Judged, Transaction
<1> QED BY <1>1, <1>3, <1>4 DEF Judge

\* A promotion puts what was decided into the transaction.
LEMMA CrownWrites ==
  ASSUME RegistryInv, NEW p \in Proc, Crown(p)
  PROVE  /\ tx'[p].wrote = Enthroned(p) /\ tx'[p].pc = "train"
         /\ tx'[p].todo = tx[p].todo /\ tx'[p].version = tx[p].version
         /\ tx'[p].rolling = tx[p].rolling /\ tx'[p].stamp = tx[p].stamp /\ tx'[p].made = tx[p].made
         /\ tx'[p].read = tx[p].read /\ tx'[p].fresh = tx[p].fresh /\ tx'[p].window = tx[p].window
         /\ \A q \in Proc : q # p => tx'[q] = tx[q]
         /\ promotions' = promotions + 1
         /\ UNCHANGED <<clock, window, versions, files, score, trained, twins>>
BY DEF Crown, RegistryInv, TypeOK, Transaction

\* A commit puts the transaction into the table and forgets it.
LEMMA CommitWrites ==
  ASSUME RegistryInv, NEW p \in Proc, Commit(p)
  PROVE  /\ tx'[p] = Idle /\ \A q \in Proc : q # p => tx'[q] = tx[q]
         /\ versions' = View(p)
         /\ UNCHANGED <<clock, window, files, score, trained, promotions, twins>>
BY DEF Commit, RegistryInv, TypeOK, Transaction

-----------------------------------------------------------------------------
\* Writing a row makes a transaction hold its target, unless it is a challenger's;
\* nobody else does then.
LEMMA HoldsAlone ==
  ASSUME RegistryInv, NEW p \in Proc, NEW q \in Proc, q # p, NEW t \in Targets, Holds(p, t)
  PROVE  ~Holds(q, t)
BY DEF RegistryInv, ChampionsAreOrderly, Held

\* What is written stays a row of the table, or of the transaction's own model.
LEMMA WritesStep == RegistryInv /\ [Next]_vars => WritesAreRows'
<1> SUFFICES ASSUME RegistryInv, [Next]_vars PROVE WritesAreRows'
  OBVIOUS
<1>0. TypeOK /\ WritesAreRows /\ \A q \in Proc : tx[q].wrote \in [Model -> Row \cup {None}]
  BY TxType DEF RegistryInv
<1>1. CASE Quiet
  <2> SUFFICES ASSUME NEW q \in Proc, NEW n \in Model, tx'[q].wrote[n] # None
               PROVE  WritesRow(q, n)'
    BY DEF WritesAreRows
  <2>1. tx'[q].wrote # NoRows
    BY DEF NoRows
  <2>2. /\ tx'[q].wrote = tx[q].wrote /\ tx'[q].stamp = tx[q].stamp
        /\ tx'[q].made[tx[q].wrote[n].target] = tx[q].made[tx[q].wrote[n].target]
    BY <1>1, <2>1 DEF Quiet
  <2>3. WritesRow(q, n) /\ versions' = versions
    BY <1>0, <1>1, <2>2 DEF WritesAreRows, Quiet
  <2> QED BY <2>2, <2>3 DEF WritesRow, Made, ArtifactPath
<1>2. ASSUME NEW p \in Proc, Judge(p) PROVE WritesAreRows'
  <2>1. PICK t \in Targets, made \in Model, metrics \in Scores, promote \in BOOLEAN :
          /\ t \in tx[p].todo /\ made = tx[p].made[t]
          /\ tx'[p].wrote = [tx[p].wrote EXCEPT ![made] = Challenger(p, t, metrics)]
          /\ tx'[p].stamp = tx[p].stamp /\ tx'[p].made = tx[p].made
          /\ \A q \in Proc : q # p => tx'[q] = tx[q]
          /\ versions' = versions
    BY <1>2, JudgeWrites
  <2>2. versions[made] = None
    BY <2>1, RegistryAssumption DEF RegistryInv, ModelsAreOwn, Made, Model
  <2>3. \A q \in Proc, n \in Model : (q # p \/ n # made) => tx'[q].wrote[n] = tx[q].wrote[n]
    BY <1>0, <2>1
  <2>4. \A q \in Proc : tx'[q].stamp = tx[q].stamp /\ tx'[q].made = tx[q].made
    BY <2>1
  <2>5. tx'[p].wrote[made] = Challenger(p, t, metrics)
    BY <1>0, <2>1
  <2>6. /\ Challenger(p, t, metrics).target = t
        /\ Challenger(p, t, metrics).file = ArtifactPath(p, t)
    BY DEF Challenger
  <2> QED BY <1>0, <2>1, <2>2, <2>3, <2>4, <2>5, <2>6 DEF WritesAreRows, WritesRow, Made, ArtifactPath
<1>3. ASSUME NEW p \in Proc, Crown(p) PROVE WritesAreRows'
  <2>1. /\ tx'[p].wrote = Enthroned(p) /\ tx'[p].stamp = tx[p].stamp /\ tx'[p].made = tx[p].made
        /\ \A q \in Proc : q # p => tx'[q] = tx[q]
        /\ versions' = versions
    BY <1>3, CrownWrites
  <2> SUFFICES ASSUME NEW n \in Model, tx'[p].wrote[n] # None
               PROVE  LET new == tx'[p].wrote[n]
                          old == versions[n]
                      IN  IF old # None
                          THEN /\ new.target = old.target /\ new.file = old.file
                               /\ new.metrics = old.metrics
                               /\ new.status # "challenger" /\ new.promoted >= old.promoted
                               /\ new.status = "retired" => new.promoted = old.promoted
                          ELSE n = Made(p, new.target) /\ new.file = ArtifactPath(p, new.target)
    BY <1>0, <2>1 DEF WritesAreRows, WritesRow, Made, ArtifactPath
  <2>2. View(p)[n] \in Row \cup {None} /\ versions[n] \in Row \cup {None}
    BY <1>0, ViewType DEF TypeOK
  <2>3. View(p)[n] = IF tx[p].wrote[n] # None THEN tx[p].wrote[n] ELSE versions[n]
    BY DEF View
  <2>4. CASE n = tx[p].version
    <3>1. tx'[p].wrote[n] = [View(p)[n] EXCEPT !.status = "champion", !.promoted = promotions + 1]
      BY <2>1, <2>4 DEF Enthroned
    <3>2. View(p)[n] \in Row
      BY <1>3, <2>2, <2>4 DEF Crown, RegistryInv, Stages, Staged
    <3>3. /\ tx'[p].wrote[n].target = View(p)[n].target /\ tx'[p].wrote[n].file = View(p)[n].file
          /\ tx'[p].wrote[n].metrics = View(p)[n].metrics
          /\ tx'[p].wrote[n].status = "champion" /\ tx'[p].wrote[n].promoted = promotions + 1
      BY <3>1, <3>2 DEF Row
    <3>4. versions[n] # None => versions[n].promoted <= promotions + 1
      BY <2>2 DEF RegistryInv, ChampionsAreOrderly, Promoted, TypeOK, Row
    <3>5. CASE tx[p].wrote[n] # None
      <4>1. WritesRow(p, n)
        BY <1>0, <3>5 DEF WritesAreRows
      <4> QED BY <2>3, <3>3, <3>4, <3>5, <4>1 DEF WritesRow
    <3>6. CASE tx[p].wrote[n] = None
      BY <2>2, <2>3, <3>2, <3>3, <3>4, <3>6, RegistryAssumption DEF Row
    <3> QED BY <3>5, <3>6
  <2>5. CASE n # tx[p].version /\ n = tx[p].current
    <3>1. tx'[p].wrote[n] = [View(p)[n] EXCEPT !.status = "retired"]
      BY <2>1, <2>5 DEF Enthroned
    <3>2. n # None
      BY RegistryAssumption DEF Model
    <3>3. View(p)[n] \in Row /\ View(p)[n].target = TargetOf(p) /\ View(p)[n].status # "challenger"
      BY <1>3, <2>2, <2>5, <3>2 DEF Crown, RegistryInv, Stages, Staged
    <3>4. ~Holds(p, TargetOf(p))
      BY <1>3 DEF Crown, RegistryInv, Stages, Staged
    <3>5. tx[p].wrote[n] = None
      BY <2>3, <3>3, <3>4 DEF Holds
    <3>6. /\ tx'[p].wrote[n].target = versions[n].target /\ tx'[p].wrote[n].file = versions[n].file
          /\ tx'[p].wrote[n].metrics = versions[n].metrics /\ versions[n] \in Row
          /\ tx'[p].wrote[n].status = "retired"
          /\ tx'[p].wrote[n].promoted = versions[n].promoted
      BY <2>3, <3>1, <3>3, <3>5 DEF Row
    <3> QED BY <3>6, RegistryAssumption DEF Row
  <2>6. CASE n # tx[p].version /\ n # tx[p].current
    <3>1. tx'[p].wrote[n] = tx[p].wrote[n]
      BY <2>1, <2>6 DEF Enthroned
    <3> QED BY <1>0, <3>1 DEF WritesAreRows, WritesRow
  <2> QED BY <2>4, <2>5, <2>6
<1>4. ASSUME NEW p \in Proc, Commit(p) PROVE WritesAreRows'
  <2>1. tx'[p] = Idle /\ (\A q \in Proc : q # p => tx'[q] = tx[q]) /\ versions' = View(p)
    BY <1>4, CommitWrites
  <2> SUFFICES ASSUME NEW q \in Proc, NEW n \in Model, q # p, tx[q].wrote[n] # None
               PROVE  LET new == tx[q].wrote[n]
                          old == View(p)[n]
                      IN  IF old # None
                          THEN /\ new.target = old.target /\ new.file = old.file
                               /\ new.metrics = old.metrics
                               /\ new.status # "challenger" /\ new.promoted >= old.promoted
                               /\ new.status = "retired" => new.promoted = old.promoted
                          ELSE n = Made(q, new.target) /\ new.file = ArtifactPath(q, new.target)
    BY <2>1 DEF WritesAreRows, WritesRow, Made, ArtifactPath, Idle, NoRows
  <2>2. tx[p].wrote[n] = None
    <3>1. SUFFICES ASSUME tx[p].wrote[n] # None PROVE FALSE
      OBVIOUS
    <3>2. tx[p].wrote[n] \in Row /\ tx[q].wrote[n] \in Row
      BY <1>0, <3>1
    <3>3. CASE versions[n] # None
      <4>1. /\ tx[p].wrote[n].target = versions[n].target /\ tx[p].wrote[n].status # "challenger"
            /\ tx[q].wrote[n].target = versions[n].target /\ tx[q].wrote[n].status # "challenger"
        BY <1>0, <3>1, <3>3 DEF WritesAreRows, WritesRow
      <4>2. versions[n].target \in Targets
        BY <3>2, <4>1 DEF Row
      <4>3. Holds(p, versions[n].target) /\ Holds(q, versions[n].target)
        BY <3>1, <4>1 DEF Holds
      <4> QED BY <4>2, <4>3, HoldsAlone
    <3>4. CASE versions[n] = None
      <4>1. n = Made(p, tx[p].wrote[n].target) /\ n = Made(q, tx[q].wrote[n].target)
        BY <1>0, <3>1, <3>4 DEF WritesAreRows, WritesRow
      <4>2. tx[p].wrote[n].target \in Targets /\ tx[q].wrote[n].target \in Targets
        BY <3>2 DEF Row
      <4>3. n # None
        BY RegistryAssumption DEF Model
      <4> QED BY <4>1, <4>2, <4>3 DEF RegistryInv, ModelsAreOwn
    <3> QED BY <3>3, <3>4
  <2>3. View(p)[n] = versions[n]
    BY <2>2 DEF View
  <2> QED BY <1>0, <2>3 DEF WritesAreRows, WritesRow
<1> QED BY <1>1, <1>2, <1>3, <1>4, WritersOnly

-----------------------------------------------------------------------------
\* A table that differs by challengers, or by rows of other targets, has the same
\* champion.
Apart(table, other, t) ==
  \A n \in Model : \/ other[n] = table[n]
                   \/ /\ table[n] = None \/ table[n].target # t
                      /\ \/ other[n] = None \/ other[n].target # t
                         \/ other[n].status = "challenger" /\ other[n].promoted = 0

\* Such a table has the same champion, and it is still the last promoted.
LEMMA SameChampion ==
  ASSUME NEW table, NEW other, NEW t, Apart(table, other, t), Orderly(table, t),
         \A n \in Champions(table, t) : table[n].promoted > 0
  PROVE  Champions(other, t) = Champions(table, t) /\ Orderly(other, t)
<1>1. Champions(other, t) = Champions(table, t)
  BY DEF Apart, Champions
<1>2. ASSUME NEW n \in Champions(other, t), NEW m \in Model \ {n},
             other[m] # None, other[m].target = t
      PROVE  other[m].status # "champion" /\ other[m].promoted < other[n].promoted
  <2>1. n \in Model /\ n \in Champions(table, t) /\ other[n] = table[n]
    BY <1>1, <1>2 DEF Apart, Champions
  <2>2. CASE other[m] = table[m]
    BY <1>2, <2>1, <2>2 DEF Orderly
  <2>3. CASE other[m].status = "challenger" /\ other[m].promoted = 0
    BY <2>1, <2>3
  <2> QED BY <1>2, <2>2, <2>3 DEF Apart
<1> QED BY <1>1, <1>2 DEF Orderly

\* There is one champion at most.
LEMMA OneChampion ==
  ASSUME NEW table, NEW t, Orderly(table, t),
         NEW n \in Champions(table, t), NEW m \in Champions(table, t)
  PROVE  n = m
BY DEF Orderly, Champions

\* A transaction that does not hold a target sees the table, and challengers.
LEMMA UnheldView ==
  ASSUME RegistryInv, NEW p \in Proc, NEW t \in Targets, ~Holds(p, t)
  PROVE  Apart(versions, View(p), t) /\ Champions(View(p), t) = Champions(versions, t)
<1>1. TypeOK /\ WritesAreRows /\ ChampionsAreOrderly
  BY DEF RegistryInv
<1>2. ASSUME NEW n \in Model, tx[p].wrote[n] # None, tx[p].wrote[n].target = t
      PROVE  /\ tx[p].wrote[n].status = "challenger" /\ tx[p].wrote[n].promoted = 0
             /\ versions[n] = None
  <2>1. tx[p].wrote[n].status = "challenger"
    BY <1>2 DEF Holds
  <2> QED BY <1>1, <1>2, <2>1 DEF WritesAreRows, WritesRow, ChampionsAreOrderly, Promoted
<1>3. ASSUME NEW n \in Model, tx[p].wrote[n] # None, tx[p].wrote[n].target # t
      PROVE  versions[n] = None \/ versions[n].target # t
  BY <1>1, <1>3 DEF WritesAreRows, WritesRow
<1>4. Apart(versions, View(p), t)
  BY <1>2, <1>3 DEF Apart, View
<1>5. Orderly(versions, t) /\ \A n \in Champions(versions, t) : versions[n].promoted > 0
  BY <1>1 DEF ChampionsAreOrderly, Promoted, Champions
<1> QED BY <1>4, <1>5, SameChampion

\* A promotion leaves its version champion, and no other of its target.
LEMMA CrownOrders ==
  ASSUME RegistryInv, NEW p \in Proc, Crown(p), NEW t \in Targets
  PROVE  /\ Orderly(View(p)', t)
         /\ IF t = TargetOf(p) THEN Champions(View(p)', t) = {tx[p].version}
            ELSE Champions(View(p)', t) = Champions(View(p), t) /\ (Holds(p, t)' => Holds(p, t))
<1> DEFINE v == tx[p].version
           seen == View(p)'
<1>0. TypeOK /\ ChampionsAreOrderly /\ View(p) \in [Model -> Row \cup {None}]
  BY ViewType DEF RegistryInv
<1>1. /\ tx'[p].wrote = Enthroned(p) /\ versions' = versions
      /\ tx[p].wrote \in [Model -> Row \cup {None}]
  BY <1>0, TxType, CrownWrites
<1>2. /\ v \in Model /\ View(p)[v] # None /\ ~Holds(p, TargetOf(p))
      /\ tx[p].current # None =>
           View(p)[tx[p].current] # None /\ View(p)[tx[p].current].target = TargetOf(p)
  BY <1>0, TxType DEF Crown, RegistryInv, Stages, Staged
<1>3. View(p)[v] \in Row /\ View(p)[v].target = TargetOf(p)
  BY <1>0, <1>2 DEF TargetOf
<1>p. promotions + 1 \in Nat
  BY <1>0 DEF TypeOK
<1>4. seen[v] = [View(p)[v] EXCEPT !.status = "champion", !.promoted = promotions + 1]
  <2>1. Enthroned(p)[v] = [View(p)[v] EXCEPT !.status = "champion", !.promoted = promotions + 1]
    BY <1>2 DEF Enthroned
  <2>2. Enthroned(p)[v] \in Row
    BY <1>3, <1>p, <2>1, PromotedRow
  <2> QED BY <1>1, <1>2, <2>1, <2>2, RegistryAssumption DEF View
<1>5. /\ seen[v] # None /\ seen[v].target = TargetOf(p) /\ seen[v].status = "champion"
      /\ seen[v].promoted = promotions + 1
  <2>1. seen[v] \in Row
    BY <1>3, <1>p, <1>4, PromotedRow
  <2> QED BY <1>3, <1>4, <2>1, RegistryAssumption DEF Row
<1>6. ASSUME NEW n \in Model, n # v, n = tx[p].current
      PROVE  /\ seen[n] # None /\ seen[n].target = TargetOf(p) /\ seen[n].status = "retired"
             /\ seen[n].promoted = View(p)[n].promoted /\ View(p)[n].target = TargetOf(p)
  <2>1. n # None
    BY RegistryAssumption DEF Model
  <2>2. View(p)[n] \in Row /\ View(p)[n].target = TargetOf(p)
    BY <1>0, <1>2, <1>6, <2>1
  <2>3. Enthroned(p)[n] = [View(p)[n] EXCEPT !.status = "retired"]
    BY <1>6 DEF Enthroned
  <2>4. Enthroned(p)[n] \in Row
    BY <2>2, <2>3 DEF Row, Statuses
  <2>5. seen[n] = Enthroned(p)[n]
    BY <1>1, <2>4, RegistryAssumption DEF View
  <2> QED BY <2>2, <2>3, <2>4, <2>5, RegistryAssumption DEF Row
<1>7. ASSUME NEW n \in Model, n # v, n # tx[p].current PROVE seen[n] = View(p)[n]
  <2>1. Enthroned(p)[n] = tx[p].wrote[n]
    BY <1>7 DEF Enthroned
  <2> QED BY <1>1, <2>1 DEF View
<1>8. CASE t = TargetOf(p)
  <2>1. ASSUME NEW n \in Model, n # v, seen[n] # None, seen[n].target = t
        PROVE  seen[n].status # "champion" /\ seen[n].promoted <= promotions
    <3>1. CASE n = tx[p].current
      <4>1. View(p)[n] # None
        BY <1>2, <3>1, RegistryAssumption DEF Model
      <4> QED BY <1>0, <1>6, <2>1, <3>1, <4>1 DEF ChampionsAreOrderly, Promoted, View
    <3>2. CASE n # tx[p].current
      <4>1. seen[n] = View(p)[n] /\ Enthroned(p)[n] = tx[p].wrote[n]
        BY <1>7, <2>1, <3>2 DEF Enthroned
      <4>2. seen[n].promoted <= promotions
        BY <1>0, <2>1, <4>1 DEF ChampionsAreOrderly, Promoted, View
      <4>3. CASE tx[p].wrote[n] # None
        BY <1>2, <1>8, <2>1, <4>1, <4>2, <4>3 DEF View, Holds
      <4>4. CASE tx[p].wrote[n] = None
        <5>1. View(p)[n] = versions[n]
          BY <4>4 DEF View
        <5>2. n \notin Champions(versions, t) \ {v}
          BY <1>8, <4>1, <4>4 DEF Crown, Violates
        <5> QED BY <2>1, <4>1, <4>2, <5>1, <5>2 DEF Champions
      <4> QED BY <4>3, <4>4
    <3> QED BY <3>1, <3>2
  <2>2. Champions(seen, t) = {v}
    BY <1>2, <1>5, <1>8, <2>1 DEF Champions
  <2>3. \A n \in Model : seen[n] \in Row \cup {None}
    BY <1>0, <1>1, <1>4, <1>6, <1>7, EnthronedType DEF Crown, View, TypeOK
  <2>4. Orderly(seen, t)
    <3>1. ASSUME NEW m \in Model, m # v, seen[m] # None, seen[m].target = t
          PROVE  seen[m].status # "champion" /\ seen[m].promoted < seen[v].promoted
      <4>1. seen[m].promoted \in Nat /\ promotions \in Nat
        BY <1>0, <2>3, <3>1 DEF Row, TypeOK
      <4> QED BY <1>5, <2>1, <3>1, <4>1
    <3> HIDE DEF seen, v
    <3> QED BY <2>2, <3>1 DEF Orderly
  <2> QED BY <1>8, <2>2, <2>4
<1>9. CASE t # TargetOf(p)
  <2>1. Apart(View(p), seen, t)
    <3>1. ASSUME NEW n \in Model, n = v \/ n = tx[p].current
          PROVE  View(p)[n].target = TargetOf(p) /\ seen[n].target = TargetOf(p)
      BY <1>3, <1>5, <1>6, <3>1
    <3> QED BY <1>7, <1>9, <3>1 DEF Apart
  <2>2. Orderly(View(p), t) /\ \A n \in Champions(View(p), t) : View(p)[n].promoted > 0
    BY <1>0 DEF ChampionsAreOrderly, Promoted, Champions, View
  <2>3. Champions(seen, t) = Champions(View(p), t) /\ Orderly(seen, t)
    BY <2>1, <2>2, SameChampion
  <2>4. Holds(p, t)' => Holds(p, t)
    <3>1. SUFFICES ASSUME NEW n \in Model, Enthroned(p)[n] # None, Enthroned(p)[n].target = t,
                          Enthroned(p)[n].status # "challenger"
                   PROVE  Holds(p, t)
      BY <1>1 DEF Holds
    <3>2. seen[n] = Enthroned(p)[n]
      BY <1>1, <3>1 DEF View
    <3>3. n # v /\ n # tx[p].current
      BY <1>5, <1>6, <1>9, <3>1, <3>2
    <3>4. Enthroned(p)[n] = tx[p].wrote[n]
      BY <3>3 DEF Enthroned
    <3> QED BY <3>1, <3>4 DEF Holds
  <2> QED BY <1>9, <2>3, <2>4
<1> QED BY <1>8, <1>9

\* What a promotion writes was promoted in its turn.
LEMMA EnthronedPromoted ==
  ASSUME RegistryInv, NEW p \in Proc, Crown(p), NEW n \in Model, Enthroned(p)[n] # None
  PROVE  /\ Enthroned(p)[n].promoted <= promotions + 1
         /\ Enthroned(p)[n].status = "champion" => Enthroned(p)[n].promoted > 0
         /\ Enthroned(p)[n].status = "challenger" <=> Enthroned(p)[n].promoted = 0
<1>0. /\ TypeOK /\ ChampionsAreOrderly /\ View(p) \in [Model -> Row \cup {None}]
      /\ Promoted(View(p)[n]) /\ Promoted(tx[p].wrote[n]) /\ promotions \in Nat
      /\ tx[p].wrote \in [Model -> Row \cup {None}]
  BY ViewType, TxType DEF RegistryInv, ChampionsAreOrderly, View, TypeOK
<1>1. CASE n = tx[p].version
  <2>1. Enthroned(p)[n] = [View(p)[n] EXCEPT !.status = "champion", !.promoted = promotions + 1]
    BY <1>1 DEF Enthroned
  <2>2. View(p)[n] \in Row
    BY <1>0, <1>1 DEF Crown, RegistryInv, Stages, Staged
  <2> QED BY <1>0, <2>1, <2>2 DEF Row
<1>2. CASE n # tx[p].version /\ n = tx[p].current
  <2>1. Enthroned(p)[n] = [View(p)[n] EXCEPT !.status = "retired"]
    BY <1>2 DEF Enthroned
  <2>2. n # None
    BY RegistryAssumption DEF Model
  <2>3. View(p)[n] \in Row /\ View(p)[n].status # "challenger"
    BY <1>0, <1>2, <2>2 DEF Crown, RegistryInv, Stages, Staged
  <2>4. View(p)[n].promoted # 0 /\ View(p)[n].promoted <= promotions
    BY <1>0, <2>3, RegistryAssumption DEF Promoted
  <2> QED BY <1>0, <2>1, <2>3, <2>4 DEF Row
<1>3. CASE n # tx[p].version /\ n # tx[p].current
  <2>1. Enthroned(p)[n] = tx[p].wrote[n]
    BY <1>3 DEF Enthroned
  <2>2. tx[p].wrote[n].promoted \in Nat
    BY <1>0, <2>1 DEF Row
  <2> QED BY <1>0, <2>1, <2>2 DEF Promoted
<1> QED BY <1>1, <1>2, <1>3

\* A commit makes the table what the transaction saw; what others see differs from
\* that, or from what they saw, by challengers.
LEMMA CommitOrders ==
  ASSUME RegistryInv, NEW p \in Proc, Commit(p), NEW q \in Proc, NEW t \in Targets
  PROVE  /\ Orderly(View(q)', t)
         /\ Holds(q, t)' => q # p /\ Holds(q, t) /\ Champions(View(q)', t) = Champions(View(q), t)
<1>0. TypeOK /\ WritesAreRows /\ ChampionsAreOrderly /\ tx[q].wrote \in [Model -> Row \cup {None}]
  BY TxType DEF RegistryInv
<1>1. tx'[p] = Idle /\ versions' = View(p) /\ (q # p => tx'[q] = tx[q])
  BY CommitWrites
<1>2. CASE q = p
  <2>1. View(q)' = View(p)
    BY <1>1, <1>2 DEF View, Idle, NoRows
  <2>2. ~Holds(q, t)'
    BY <1>1, <1>2 DEF Holds, Idle, NoRows
  <2> QED BY <1>0, <2>1, <2>2 DEF ChampionsAreOrderly
<1>3. CASE q # p /\ Holds(p, t)
  <2>1. ~Holds(q, t) /\ ~Holds(q, t)'
    BY <1>1, <1>3, HoldsAlone DEF Holds
  <2>2. Apart(View(p), View(q)', t)
    <3>1. SUFFICES ASSUME NEW n \in Model, View(q)'[n] # View(p)[n]
                   PROVE  /\ View(p)[n] = None \/ View(p)[n].target # t
                          /\ \/ View(q)'[n] = None \/ View(q)'[n].target # t
                             \/ View(q)'[n].status = "challenger" /\ View(q)'[n].promoted = 0
      BY DEF Apart
    <3>2. tx[q].wrote[n] # None /\ View(q)'[n] = tx[q].wrote[n]
      BY <1>1, <1>3, <3>1 DEF View
    <3>3. WritesRow(q, n) /\ WritesRow(q, n)'
      BY <1>0, <1>1, <1>3, <3>2, WritesStep DEF WritesAreRows, Next, Retrain
    <3>4. CASE tx[q].wrote[n].target = t
      <4>1. tx[q].wrote[n].status = "challenger" /\ tx[q].wrote[n].promoted = 0
        BY <1>0, <2>1, <3>2, <3>4 DEF Holds, ChampionsAreOrderly, Promoted
      <4>2. View(p)[n] = None
        BY <1>1, <1>3, <3>3, <4>1 DEF WritesRow
      <4> QED BY <3>2, <4>1, <4>2
    <3>5. CASE tx[q].wrote[n].target # t
      <4>1. View(p)[n] = None \/ View(p)[n].target # t
        BY <1>1, <1>3, <3>3, <3>5 DEF WritesRow
      <4> QED BY <3>2, <3>5, <4>1
    <3> QED BY <3>4, <3>5
  <2>3. Orderly(View(p), t) /\ \A n \in Champions(View(p), t) : View(p)[n].promoted > 0
    BY <1>0 DEF ChampionsAreOrderly, Promoted, Champions, View
  <2> QED BY <2>1, <2>2, <2>3, SameChampion
<1>4. CASE q # p /\ ~Holds(p, t)
  <2>1. Apart(versions, View(p), t)
    BY <1>4, UnheldView
  <2>2. Apart(View(q), View(q)', t)
    BY <1>1, <1>4, <2>1 DEF Apart, View
  <2>3. Orderly(View(q), t) /\ \A n \in Champions(View(q), t) : View(q)[n].promoted > 0
    BY <1>0 DEF ChampionsAreOrderly, Promoted, Champions, View
  <2>4. Champions(View(q)', t) = Champions(View(q), t) /\ Orderly(View(q)', t)
    BY <2>2, <2>3, SameChampion
  <2> QED BY <1>1, <1>4, <2>4 DEF Holds
<1> QED BY <1>2, <1>3, <1>4

\* The order of champions is kept.
LEMMA ChampionsStep == RegistryInv /\ [Next]_vars => ChampionsAreOrderly'
<1> SUFFICES ASSUME RegistryInv, [Next]_vars PROVE ChampionsAreOrderly'
  OBVIOUS
<1>0. /\ TypeOK /\ WritesAreRows /\ ChampionsAreOrderly
      /\ \A q \in Proc : tx[q].wrote \in [Model -> Row \cup {None}]
  BY TxType DEF RegistryInv
<1>1. CASE Quiet
  <2>1. \A q \in Proc, n \in Model : tx'[q].wrote[n] # None => tx'[q].wrote[n] = tx[q].wrote[n]
    BY <1>1 DEF Quiet, NoRows
  <2>2. \A q \in Proc : View(q)' = View(q) \/ View(q)' = versions
    BY <1>0, <1>1 DEF Quiet, NoRows, View, TypeOK
  <2>3. \A q \in Proc : \/ tx'[q].wrote = tx[q].wrote /\ View(q)' = View(q)
                        \/ tx'[q].wrote = NoRows
    BY <1>1 DEF Quiet, View
  <2>4. \A n \in Model : Promoted(versions[n])' /\ \A q \in Proc : Promoted(tx[q].wrote[n])'
    BY <1>0, <1>1, <2>1 DEF Quiet, Promoted, ChampionsAreOrderly
  <2>5. ASSUME NEW t \in Targets
        PROVE  /\ Orderly(versions, t)'
               /\ \A q \in Proc : /\ Orderly(View(q), t)'
                                  /\ Holds(q, t)' => Champions(View(q), t)' # {} /\ ~Held(q, t)'
    <3>1. Orderly(versions, t)' /\ \A q \in Proc : Orderly(View(q), t)'
      BY <1>0, <1>1, <2>2 DEF ChampionsAreOrderly, Quiet, Orderly, Champions
    <3>2. \A q \in Proc : Holds(q, t)' => Holds(q, t)
      BY <2>1 DEF Holds
    <3>3. \A q \in Proc : Holds(q, t)' => View(q)' = View(q)
      BY <2>3 DEF Holds, NoRows
    <3> QED BY <1>0, <3>1, <3>2, <3>3 DEF ChampionsAreOrderly, Held, Champions
  <2> QED BY <2>4, <2>5 DEF ChampionsAreOrderly
<1>2. ASSUME NEW p \in Proc, Judge(p) PROVE ChampionsAreOrderly'
  <2>1. PICK t \in Targets, made \in Model, metrics \in Scores, promote \in BOOLEAN :
          /\ t \in tx[p].todo /\ made = tx[p].made[t] /\ Challenger(p, t, metrics) \in Row
          /\ tx'[p].wrote = [tx[p].wrote EXCEPT ![made] = Challenger(p, t, metrics)]
          /\ \A q \in Proc : q # p => tx'[q] = tx[q]
          /\ versions' = versions /\ promotions' = promotions
    BY <1>2, JudgeWrites
  <2>2. /\ versions[made] = None
        /\ \A u \in Targets : Made(p, u) = made => u = t
    BY <2>1, RegistryAssumption DEF RegistryInv, ModelsAreOwn, Made, Model
  <2>3. \A q \in Proc, n \in Model : (q # p \/ n # made) => tx'[q].wrote[n] = tx[q].wrote[n]
    BY <1>0, <2>1
  <2>4. /\ tx'[p].wrote[made] = Challenger(p, t, metrics)
        /\ Challenger(p, t, metrics).status = "challenger" /\ Challenger(p, t, metrics).promoted = 0
        /\ Challenger(p, t, metrics).target = t
    BY <1>0, <2>1 DEF Challenger
  <2>5. tx[p].wrote[made] = None
    <3>1. SUFFICES ASSUME tx[p].wrote[made] # None PROVE FALSE
      OBVIOUS
    <3>2. made = Made(p, tx[p].wrote[made].target) /\ tx[p].wrote[made].target \in Targets
      BY <1>0, <2>2, <3>1 DEF WritesAreRows, WritesRow, Row
    <3>3. tx[p].wrote[made].target = t
      BY <2>2, <3>2
    <3>4. Staged(p)
      BY DEF RegistryInv, Stages
    <3> QED BY <2>1, <3>1, <3>3, <3>4 DEF Staged
  <2>6. \A n \in Model : Promoted(versions[n])' /\ \A q \in Proc : Promoted(tx[q].wrote[n])'
    BY <1>0, <2>1, <2>3, <2>4 DEF Promoted, ChampionsAreOrderly, TypeOK
  <2>7. \A q \in Proc, u \in Targets : Holds(q, u)' => Holds(q, u)
    BY <2>1, <2>3, <2>4 DEF Holds
  <2>8. ASSUME NEW q \in Proc, NEW u \in Targets
        PROVE  Orderly(View(q)', u) /\ Champions(View(q)', u) = Champions(View(q), u)
    <3>1. Apart(View(q), View(q)', u)
      <4>1. ASSUME NEW n \in Model, View(q)'[n] # View(q)[n]
            PROVE  n = made /\ q = p
        BY <2>1, <2>3, <4>1 DEF View
      <4>2. View(p)[made] = None /\ View(p)'[made] = Challenger(p, t, metrics)
        BY <2>1, <2>2, <2>4, <2>5, RegistryAssumption DEF View
      <4> QED BY <2>4, <4>1, <4>2 DEF Apart
    <3>2. Orderly(View(q), u) /\ \A n \in Champions(View(q), u) : View(q)[n].promoted > 0
      BY <1>0 DEF ChampionsAreOrderly, Promoted, Champions, View
    <3> QED BY <3>1, <3>2, SameChampion
  <2>9. \A u \in Targets : Orderly(versions, u)'
    BY <1>0, <2>1 DEF ChampionsAreOrderly, Orderly, Champions
  <2> QED BY <1>0, <2>6, <2>7, <2>8, <2>9 DEF ChampionsAreOrderly, Held, Orderly, Champions
<1>3. ASSUME NEW p \in Proc, Crown(p) PROVE ChampionsAreOrderly'
  <2>1. /\ tx'[p].wrote = Enthroned(p) /\ versions' = versions /\ promotions' = promotions + 1
        /\ \A q \in Proc : q # p => tx'[q] = tx[q]
    BY <1>3, CrownWrites
  <2>2. ~Held(p, TargetOf(p))
    BY <1>3 DEF Crown
  <2>3. ASSUME NEW t \in Targets, NEW q \in Proc
        PROVE  /\ Orderly(View(q)', t)
               /\ Holds(q, t)' => Champions(View(q)', t) # {}
               /\ Holds(q, t)' => Holds(q, t) \/ (q = p /\ t = TargetOf(p))
    <3>1. CASE q = p
      <4>1. Orderly(View(p)', t)
        BY <1>3, CrownOrders
      <4>2. CASE t = TargetOf(p)
        BY <1>3, <3>1, <4>1, <4>2, CrownOrders DEF View
      <4>3. CASE t # TargetOf(p)
        <5>1. Champions(View(p)', t) = Champions(View(p), t) /\ (Holds(p, t)' => Holds(p, t))
          BY <1>3, <4>3, CrownOrders
        <5>2. Holds(p, t) => Champions(View(p), t) # {}
          BY <1>0 DEF ChampionsAreOrderly
        <5> QED BY <3>1, <4>1, <5>1, <5>2 DEF Holds, View
      <4> QED BY <4>2, <4>3
    <3>2. CASE q # p
      <4>1. View(q)' = View(q) /\ (Holds(q, t)' <=> Holds(q, t))
        BY <2>1, <3>2 DEF View, Holds
      <4>2. Orderly(View(q), t) /\ (Holds(q, t) => Champions(View(q), t) # {})
        BY <1>0 DEF ChampionsAreOrderly
      <4> HIDE DEF Holds
      <4> QED BY <4>1, <4>2
    <3> QED BY <3>1, <3>2
  <2>4. \A n \in Model : Promoted(versions[n])' /\ \A q \in Proc : Promoted(tx[q].wrote[n])'
    <3>1. \A n \in Model : Promoted(versions[n])'
      BY <1>0, <2>1 DEF Promoted, ChampionsAreOrderly, TypeOK, Row
    <3>2. ASSUME NEW n \in Model, NEW q \in Proc, q # p PROVE Promoted(tx[q].wrote[n])'
      <4>1. tx[q].wrote[n] \in Row \cup {None} /\ Promoted(tx[q].wrote[n])
        BY <1>0 DEF ChampionsAreOrderly
      <4> QED BY <1>0, <2>1, <3>2, <4>1 DEF Promoted, TypeOK, Row
    <3>3. ASSUME NEW n \in Model PROVE Promoted(tx[p].wrote[n])'
      <4> QED BY <1>3, <2>1, EnthronedPromoted DEF Promoted
    <3> QED BY <3>1, <3>2, <3>3
  <2>5. \A t \in Targets : Orderly(versions, t)'
    BY <1>0, <2>1 DEF ChampionsAreOrderly, Orderly, Champions
  <2>6. \A t \in Targets, q \in Proc : Holds(q, t)' => ~Held(q, t)'
    <3>1. \A t \in Targets, q \in Proc : Holds(q, t) => ~Held(q, t)
      BY <1>0 DEF ChampionsAreOrderly
    <3>2. \A t \in Targets, q \in Proc :
            Holds(q, t)' => Holds(q, t) \/ (q = p /\ t = TargetOf(p))
      BY <2>3
    <3>3. \A q \in Proc : Holds(q, TargetOf(p)) => q = p
      BY <2>2 DEF Held
    <3> HIDE DEF Holds
    <3> QED BY <3>1, <3>2, <3>3 DEF Held
  <2> QED BY <2>3, <2>4, <2>5, <2>6 DEF ChampionsAreOrderly, Orderly, Champions
<1>4. ASSUME NEW p \in Proc, Commit(p) PROVE ChampionsAreOrderly'
  <2>1. /\ tx'[p] = Idle /\ versions' = View(p) /\ promotions' = promotions
        /\ \A q \in Proc : q # p => tx'[q] = tx[q]
    BY <1>4, CommitWrites
  <2>2. \A n \in Model : Promoted(versions[n])' /\ \A q \in Proc : Promoted(tx[q].wrote[n])'
    BY <1>0, <2>1 DEF Promoted, ChampionsAreOrderly, View, Idle, NoRows
  <2>3. \A t \in Targets : Orderly(versions, t)'
    BY <1>0, <2>1 DEF ChampionsAreOrderly, Orderly, Champions
  <2>4. ASSUME NEW t \in Targets, NEW q \in Proc
        PROVE  /\ Orderly(View(q), t)'
               /\ Holds(q, t)' => Champions(View(q), t)' # {} /\ ~Held(q, t)'
    <3>1. \A r \in Proc : Holds(r, t)' => Holds(r, t)
      BY <1>4, CommitOrders
    <3>2. Orderly(View(q)', t) /\ (Holds(q, t)' => Champions(View(q)', t) = Champions(View(q), t))
      BY <1>4, CommitOrders
    <3>3. Holds(q, t)' => Champions(View(q), t) # {} /\ ~Held(q, t)
      BY <1>0, <3>1 DEF ChampionsAreOrderly
    <3> QED BY <3>1, <3>2, <3>3 DEF Orderly, Champions, Held
  <2> QED BY <2>2, <2>3, <2>4 DEF ChampionsAreOrderly
<1> QED BY <1>1, <1>2, <1>3, <1>4, WritersOnly

-----------------------------------------------------------------------------
(* What the other steps of a transaction do.                               *)

\* A transaction that begins, or is gone, has made and read nothing.
LEMMA ResetDoes ==
  ASSUME RegistryInv, NEW p \in Proc,
         \/ BuildDataset(p) \/ IntegrityError(p) \/ Crash(p)
         \/ \E t \in Targets : ChoosePrevious(p, t)
  PROVE  /\ tx'[p].wrote = NoRows /\ tx'[p].made = Idle.made /\ tx'[p].read = Idle.read
         /\ tx'[p].fresh = Idle.fresh /\ tx'[p].stamp = 0
         /\ tx'[p].pc \in {"idle", "dataset"} \/ tx'[p].todo = {}
         /\ Staged(p)'
         /\ \A q \in Proc : q # p => tx'[q] = tx[q]
         /\ UNCHANGED <<clock, versions, files, score, trained, promotions, twins>>
<1>0. TypeOK
  BY DEF RegistryInv
<1>1. CASE BuildDataset(p)
  <2>1. PICK todo \in SUBSET Targets \ {{}} :
          tx' = [tx EXCEPT ![p] = [Idle EXCEPT !.pc = "dataset", !.window = window, !.todo = todo]]
    BY <1>1 DEF BuildDataset
  <2>2. [Idle EXCEPT !.pc = "dataset", !.window = window, !.todo = todo] \in Transaction
    BY <1>0, IdleType DEF Transaction, TypeOK
  <2>3. tx'[p] = [Idle EXCEPT !.pc = "dataset", !.window = window, !.todo = todo]
        /\ \A q \in Proc : q # p => tx'[q] = tx[q]
    BY <1>0, <2>1, <2>2, OneSteps
  <2>4. /\ tx'[p].pc = "dataset" /\ tx'[p].window = window /\ tx'[p].todo = todo
        /\ tx'[p].wrote = NoRows /\ tx'[p].made = Idle.made /\ tx'[p].read = Idle.read
        /\ tx'[p].fresh = Idle.fresh /\ tx'[p].stamp = 0 /\ tx'[p].rolling = FALSE
    BY <2>3 DEF Idle
  <2>5. Staged(p)'
    BY <2>3, <2>4 DEF Staged, NoRows
  <2> QED BY <1>1, <2>3, <2>4, <2>5 DEF BuildDataset
<1>2. CASE IntegrityError(p) \/ Crash(p)
  <2>1. tx'[p] = Idle /\ \A q \in Proc : q # p => tx'[q] = tx[q]
    BY <1>0, <1>2, IdleType, OneSteps DEF IntegrityError, Crash
  <2>2. Idle = [Idle EXCEPT !.pc = Idle.pc, !.window = Idle.window, !.todo = Idle.todo]
    BY DEF Idle
  <2>3. /\ Idle.pc = "idle" /\ Idle.todo = {} /\ Idle.rolling = FALSE
        /\ \A n \in Model : Idle.wrote[n] = None
    BY DEF Idle, NoRows
  <2>4. Staged(p)'
    BY <2>1, <2>2, <2>3 DEF Staged
  <2> QED BY <1>2, <2>1, <2>4 DEF IntegrityError, Crash, Idle
<1>3. ASSUME NEW t \in Targets, ChoosePrevious(p, t)
      PROVE  /\ tx'[p].wrote = NoRows /\ tx'[p].made = Idle.made /\ tx'[p].read = Idle.read
             /\ tx'[p].fresh = Idle.fresh /\ tx'[p].stamp = 0 /\ tx'[p].todo = {}
             /\ Staged(p)'
             /\ \A q \in Proc : q # p => tx'[q] = tx[q]
             /\ UNCHANGED <<clock, versions, files, score, trained, promotions, twins>>
  <2> DEFINE v == Previous(versions, t)
  <2>1. v \in Model /\ versions[v] # None /\ versions[v].status = "retired"
    BY <1>0, <1>3, PreviousFound DEF ChoosePrevious, Retired, RegistryInv
  <2>2. tx' = [tx EXCEPT ![p] = [Idle EXCEPT !.pc = "promote", !.rolling = TRUE, !.version = v]]
    BY <1>3 DEF ChoosePrevious
  <2> HIDE DEF v
  <2>3. [Idle EXCEPT !.pc = "promote", !.rolling = TRUE, !.version = v] \in Transaction
    BY <2>1, IdleType DEF Transaction
  <2>4. tx'[p] = [Idle EXCEPT !.pc = "promote", !.rolling = TRUE, !.version = v]
        /\ \A q \in Proc : q # p => tx'[q] = tx[q]
    BY <1>0, <2>2, <2>3, OneSteps
  <2>5. /\ tx'[p].pc = "promote" /\ tx'[p].rolling = TRUE /\ tx'[p].version = v
        /\ tx'[p].wrote = NoRows /\ tx'[p].made = Idle.made /\ tx'[p].read = Idle.read
        /\ tx'[p].fresh = Idle.fresh /\ tx'[p].stamp = 0 /\ tx'[p].todo = {}
    BY <2>4 DEF Idle
  <2>6. versions' = versions
    BY <1>3 DEF ChoosePrevious
  <2>7. View(p)' = versions
    BY <1>0, <2>5, <2>6 DEF View, NoRows, TypeOK
  <2>8. \A u : ~Holds(p, u)'
    BY <2>5 DEF Holds, NoRows
  <2>9. Untrained(p)' = {}
    BY <2>5 DEF Untrained
  <2>10. v # None
    BY <2>1, RegistryAssumption DEF Model
  <2>11. Staged(p)'
    BY <2>1, <2>5, <2>7, <2>8, <2>9, <2>10 DEF Staged, NoRows
  <2> QED BY <1>3, <2>4, <2>5, <2>11 DEF ChoosePrevious
<1> QED BY <1>1, <1>2, <1>3

\* The champions are read by a run that has made nothing yet.
LEMMA ReadDoes ==
  ASSUME RegistryInv, NEW p \in Proc, ReadChampions(p)
  PROVE  /\ tx'[p].pc = "train" /\ tx'[p].stamp = clock /\ tx'[p].read = Serving
         /\ tx'[p].wrote = NoRows /\ tx'[p].made = Idle.made /\ tx'[p].fresh = Idle.fresh
         /\ tx'[p].rolling = FALSE /\ tx'[p].todo = tx[p].todo /\ tx'[p].window = tx[p].window
         /\ \A q \in Proc : q # p => tx'[q] = tx[q]
         /\ UNCHANGED <<clock, versions, files, score, trained, promotions>>
<1>1. tx[p] = [Idle EXCEPT !.pc = tx[p].pc, !.window = tx[p].window, !.todo = tx[p].todo]
  BY DEF RegistryInv, Stages, Staged, ReadChampions
<1>2. /\ tx[p].wrote = NoRows /\ tx[p].made = Idle.made /\ tx[p].fresh = Idle.fresh
      /\ tx[p].rolling = FALSE
  BY <1>1 DEF Idle
<1>3. tx[p] \in Transaction /\ tx \in [Proc -> Transaction]
  BY DEF RegistryInv, TypeOK
<1>4. tx' = [tx EXCEPT ![p] = [tx[p] EXCEPT !.pc = "train", !.stamp = clock, !.read = Serving]]
  BY DEF ReadChampions
<1> QED BY <1>2, <1>3, <1>4 DEF Transaction, ReadChampions

\* A target that fails is no more to be done.
LEMMA SkipDoes ==
  ASSUME RegistryInv, NEW p \in Proc, SkipTarget(p)
  PROVE  \E t \in Untrained(p) :
         /\ tx'[p].todo = tx[p].todo \ {t} /\ tx'[p].pc = "train" /\ tx[p].pc = "train"
         /\ tx'[p].stamp = tx[p].stamp /\ tx'[p].read = tx[p].read /\ tx'[p].wrote = tx[p].wrote
         /\ tx'[p].made = tx[p].made /\ tx'[p].fresh = tx[p].fresh
         /\ tx'[p].rolling = tx[p].rolling /\ tx'[p].window = tx[p].window
         /\ \A q \in Proc : q # p => tx'[q] = tx[q]
         /\ UNCHANGED <<clock, versions, files, score, trained, promotions, twins>>
<1>1. tx[p] \in Transaction /\ tx \in [Proc -> Transaction]
  BY DEF RegistryInv, TypeOK
<1>2. First(Untrained(p)) \in Untrained(p)
  <2>1. Untrained(p) \subseteq Targets
    BY <1>1 DEF Transaction, Untrained
  <2> QED BY <2>1, FirstIsOne DEF SkipTarget
<1>3. PICK t \in Untrained(p) : tx' = [tx EXCEPT ![p] = [tx[p] EXCEPT !.todo = tx[p].todo \ {t}]]
  BY <1>2 DEF SkipTarget
<1> QED BY <1>1, <1>3 DEF Transaction, SkipTarget

\* promote reads the champion it is to retire.
LEMMA CurrentDoes ==
  ASSUME RegistryInv, NEW p \in Proc, ReadCurrent(p)
  PROVE  /\ tx'[p].pc = "crown" /\ tx[p].pc = "promote"
         /\ tx'[p].current = Champion(View(p), TargetOf(p)) /\ tx'[p].version = tx[p].version
         /\ tx'[p].stamp = tx[p].stamp /\ tx'[p].read = tx[p].read /\ tx'[p].wrote = tx[p].wrote
         /\ tx'[p].made = tx[p].made /\ tx'[p].fresh = tx[p].fresh /\ tx'[p].todo = tx[p].todo
         /\ tx'[p].rolling = tx[p].rolling /\ tx'[p].window = tx[p].window
         /\ \A q \in Proc : q # p => tx'[q] = tx[q]
         /\ UNCHANGED <<clock, versions, files, score, trained, promotions, twins>>
<1>1. tx[p] \in Transaction /\ tx \in [Proc -> Transaction]
  BY DEF RegistryInv, TypeOK
<1>2. PICK c : c = Champion(View(p), TargetOf(p))
  OBVIOUS
<1>3. tx' = [tx EXCEPT ![p] = [tx[p] EXCEPT !.pc = "crown", !.current = c]]
  BY <1>2 DEF ReadCurrent, TargetOf
<1>4. tx'[p] = [tx[p] EXCEPT !.pc = "crown", !.current = c] /\ \A q \in Proc : q # p => tx'[q] = tx[q]
  BY <1>1, <1>3
<1>5. /\ tx'[p].pc = "crown" /\ tx'[p].current = c /\ tx'[p].version = tx[p].version
      /\ tx'[p].stamp = tx[p].stamp /\ tx'[p].read = tx[p].read /\ tx'[p].wrote = tx[p].wrote
      /\ tx'[p].made = tx[p].made /\ tx'[p].fresh = tx[p].fresh /\ tx'[p].todo = tx[p].todo
      /\ tx'[p].rolling = tx[p].rolling /\ tx'[p].window = tx[p].window
  BY <1>1, <1>4 DEF Transaction
<1> QED BY <1>2, <1>4, <1>5 DEF ReadCurrent

\* A target that was trained has a model, and the champion a fresh score.
LEMMA TrainWrites ==
  ASSUME RegistryInv, NEW p \in Proc, Train(p)
  PROVE  \E t \in Targets, scores \in Profiles, x \in Scores \cup {None} :
    /\ t \in tx[p].todo /\ tx[p].made[t] = None /\ ArtifactPath(p, t) \in Path
    /\ trained + 1 \in Model /\ trained' = trained + 1
    /\ score' = [score EXCEPT ![trained + 1] = scores]
    /\ files' = [files EXCEPT ![ArtifactPath(p, t)] = trained + 1]
    /\ tx'[p].made = [tx[p].made EXCEPT ![t] = trained + 1]
    /\ tx'[p].fresh = [tx[p].fresh EXCEPT ![t] = x]
    /\ x # None => /\ tx[p].read[t] # None
                   /\ x = score'[files'[tx[p].read[t]]][tx[p].window]
    /\ tx'[p].pc = "train" /\ tx[p].pc = "train" /\ tx'[p].todo = tx[p].todo
    /\ tx'[p].stamp = tx[p].stamp /\ tx'[p].read = tx[p].read /\ tx'[p].wrote = tx[p].wrote
    /\ tx'[p].rolling = tx[p].rolling /\ tx'[p].window = tx[p].window
    /\ \A q \in Proc : q # p => tx'[q] = tx[q]
    /\ clock > tx[p].stamp
    /\ UNCHANGED <<clock, versions, window, promotions, twins>>
<1>1. tx[p] \in Transaction /\ TypeOK
  BY DEF RegistryInv, TypeOK
<1>2. PICK t \in Targets, scores \in Profiles, x \in Scores \cup {None} :
    /\ t \in tx[p].todo /\ tx[p].made[t] = None /\ ArtifactPath(p, t) \in Path
    /\ trained + 1 \in Model /\ trained' = trained + 1
    /\ score' = [score EXCEPT ![trained + 1] = scores]
    /\ files' = [files EXCEPT ![ArtifactPath(p, t)] = trained + 1]
    /\ tx' = [tx EXCEPT ![p] = Trained(p, t, x)] /\ Trained(p, t, x) \in Transaction
    /\ x # None => /\ tx[p].read[t] # None
                   /\ x = score'[files'[tx[p].read[t]]][tx[p].window]
  BY TrainDoes
<1>3. tx'[p] = Trained(p, t, x) /\ \A q \in Proc : q # p => tx'[q] = tx[q]
  BY <1>1, <1>2, OneSteps
<1>4. /\ tx'[p].made = [tx[p].made EXCEPT ![t] = trained + 1]
      /\ tx'[p].fresh = [tx[p].fresh EXCEPT ![t] = x]
      /\ tx'[p].pc = tx[p].pc /\ tx'[p].todo = tx[p].todo
      /\ tx'[p].stamp = tx[p].stamp /\ tx'[p].read = tx[p].read /\ tx'[p].wrote = tx[p].wrote
      /\ tx'[p].rolling = tx[p].rolling /\ tx'[p].window = tx[p].window
  BY <1>1, <1>3 DEF Trained, Transaction
<1>5. tx[p].pc = "train" /\ clock > tx[p].stamp
      /\ UNCHANGED <<clock, versions, window, promotions, twins>>
  BY DEF Train
<1> QED BY <1>2, <1>3, <1>4, <1>5

-----------------------------------------------------------------------------
\* Apart from a training and a commit, models and tables stay; what a transaction
\* has made is its own until it is forgotten.
Still ==
  /\ UNCHANGED <<versions, files, score, trained>>
  /\ \A q \in Proc : \/ tx'[q].made = Idle.made
                     \/ tx'[q].made = tx[q].made /\ tx'[q].stamp = tx[q].stamp

\* Only a training and a commit change models and tables.
LEMMA MakersOnly ==
  ASSUME RegistryInv, [Next]_vars
  PROVE  Still \/ \E p \in Proc : Train(p) \/ Commit(p)
<1>1. CASE Tick \/ NewResults \/ UNCHANGED vars
  BY <1>1 DEF Tick, NewResults, vars, Still
<1>2. ASSUME NEW p \in Proc,
             \/ BuildDataset(p) \/ IntegrityError(p) \/ Crash(p)
             \/ \E t \in Targets : ChoosePrevious(p, t)
      PROVE  Still
  BY <1>2, ResetDoes DEF Still
<1>3. ASSUME NEW p \in Proc, ReadChampions(p) PROVE Still
  BY <1>3, ReadDoes DEF Still
<1>4. ASSUME NEW p \in Proc, SkipTarget(p) PROVE Still
  BY <1>4, SkipDoes DEF Still
<1>5. ASSUME NEW p \in Proc, Judge(p) PROVE Still
  BY <1>5, JudgeWrites DEF Still
<1>6. ASSUME NEW p \in Proc, ReadCurrent(p) PROVE Still
  BY <1>6, CurrentDoes DEF Still
<1>7. ASSUME NEW p \in Proc, Crown(p) PROVE Still
  BY <1>7, CrownWrites DEF Still
<1> QED BY <1>1, <1>2, <1>3, <1>4, <1>5, <1>6, <1>7 DEF Next, Retrain, Promote

\* A new row of the table is the own model of the transaction that commits it.
LEMMA CommittedRow ==
  ASSUME RegistryInv, NEW p \in Proc, NEW n \in Model, View(p)[n] # None
  PROVE  /\ versions[n] # None => /\ View(p)[n].file = versions[n].file
                                  /\ View(p)[n].target = versions[n].target
                                  /\ View(p)[n].metrics = versions[n].metrics
                                  /\ View(p)[n].promoted >= versions[n].promoted
         /\ versions[n] = None => /\ View(p)[n].target \in Targets
                                  /\ n = Made(p, View(p)[n].target)
                                  /\ View(p)[n].file = ArtifactPath(p, View(p)[n].target)
<1>0. /\ TypeOK /\ WritesAreRows /\ tx[p].wrote[n] \in Row \cup {None}
      /\ versions[n] \in Row \cup {None}
  BY TxType DEF RegistryInv, TypeOK
<1>1. CASE tx[p].wrote[n] # None
  <2>1. WritesRow(p, n) /\ View(p)[n] = tx[p].wrote[n] /\ View(p)[n] \in Row
    BY <1>0, <1>1 DEF WritesAreRows, View
  <2> QED BY <2>1 DEF WritesRow, Row
<1>2. CASE tx[p].wrote[n] = None
  BY <1>0, <1>2 DEF View, Row
<1> QED BY <1>1, <1>2

\* Models stay a run's own until it commits.
LEMMA ModelsStep == RegistryInv /\ [Next]_vars => ModelsAreOwn'
<1> SUFFICES ASSUME RegistryInv, [Next]_vars PROVE ModelsAreOwn'
  OBVIOUS
<1>0. TypeOK /\ ModelsAreOwn
  BY DEF RegistryInv
<1>n. None \notin Model /\ \A p \in Proc : Idle.made = [t \in Targets |-> None]
  BY RegistryAssumption DEF Model, Idle
<1>1. CASE Still
  <2>1. ASSUME NEW q \in Proc, NEW t \in Targets, Made(q, t)' # None
        PROVE  Made(q, t)' = Made(q, t) /\ ArtifactPath(q, t)' = ArtifactPath(q, t)
    BY <1>1, <1>n, <2>1 DEF Still, Made, ArtifactPath
  <2>2. /\ \A n \in Model : /\ n <= trained' => score'[n] # None
                            /\ versions'[n] # None => /\ n <= trained'
                                                     /\ files'[versions'[n].file] # None
        /\ \A f \in Path : files'[f] # None => files'[f] <= trained'
    BY <1>0, <1>1 DEF Still, ModelsAreOwn
  <2>3. ASSUME NEW q \in Proc, NEW t \in Targets, Made(q, t)' # None
        PROVE  /\ Made(q, t)' <= trained' /\ versions'[Made(q, t)'] = None
               /\ files'[ArtifactPath(q, t)'] # None
               /\ \A r \in Proc, u \in Targets : Made(r, u)' = Made(q, t)' => r = q /\ u = t
    <3>1. Made(q, t) # None /\ Made(q, t)' = Made(q, t) /\ ArtifactPath(q, t)' = ArtifactPath(q, t)
      BY <2>1, <2>3
    <3>2. \A r \in Proc, u \in Targets : Made(r, u)' = Made(q, t)' => Made(r, u) = Made(q, t)
      BY <2>1, <2>3, <3>1
    <3>3. UNCHANGED <<versions, files, score, trained>>
      BY <1>1 DEF Still
    <3>4. /\ Made(q, t) <= trained /\ versions[Made(q, t)] = None
          /\ files[ArtifactPath(q, t)] # None
          /\ \A r \in Proc, u \in Targets : Made(r, u) = Made(q, t) => r = q /\ u = t
      BY <1>0, <3>1 DEF ModelsAreOwn
    <3> QED BY <3>1, <3>2, <3>3, <3>4
  <2> QED BY <2>2, <2>3 DEF ModelsAreOwn
<1>2. ASSUME NEW p \in Proc, Train(p) PROVE ModelsAreOwn'
  <2>1. PICK t \in Targets, scores \in Profiles, x \in Scores \cup {None} :
    /\ t \in tx[p].todo /\ tx[p].made[t] = None /\ ArtifactPath(p, t) \in Path
    /\ trained + 1 \in Model /\ trained' = trained + 1
    /\ score' = [score EXCEPT ![trained + 1] = scores]
    /\ files' = [files EXCEPT ![ArtifactPath(p, t)] = trained + 1]
    /\ tx'[p].made = [tx[p].made EXCEPT ![t] = trained + 1]
    /\ tx'[p].stamp = tx[p].stamp
    /\ \A q \in Proc : q # p => tx'[q] = tx[q]
    /\ versions' = versions
    BY <1>2, TrainWrites
  <2> DEFINE model == trained + 1
             file == ArtifactPath(p, t)
  <2>2. /\ trained \in Nat /\ model \in Model /\ model # None /\ trained' = model
        /\ \A n \in Model : n <= trained => n # model
    BY <1>0, <1>n, <2>1 DEF TypeOK, Model
  <2>3. \A n \in Model : score'[n] = IF n = model THEN scores ELSE score[n]
    BY <1>0, <2>1 DEF TypeOK
  <2>4. \A f \in Path : files'[f] = IF f = file THEN model ELSE files[f]
    BY <1>0, <2>1 DEF TypeOK
  <2>5. \A q \in Proc, u \in Targets : Made(q, u)' = IF q = p /\ u = t THEN model ELSE Made(q, u)
    <3>1. tx[p].made \in [Targets -> Model \cup {None}]
      BY <1>0, TxType
    <3>2. \A u \in Targets : tx'[p].made[u] = IF u = t THEN model ELSE tx[p].made[u]
      BY <2>1, <3>1
    <3> QED BY <2>1, <3>2 DEF Made
  <2>6. \A q \in Proc, u \in Targets : /\ ArtifactPath(q, u)' = ArtifactPath(q, u)
                                      /\ ArtifactPath(q, u) \in Path
                                      /\ Made(q, u) \in Model \cup {None}
    <3>1. \A q \in Proc : tx'[q].stamp = tx[q].stamp /\ tx[q].stamp \in Time
      BY <1>0, <2>1, TxType
    <3>2. \A q \in Proc : tx[q].made \in [Targets -> Model \cup {None}]
      BY <1>0, TxType
    <3> QED BY <3>1, <3>2 DEF ArtifactPath, Path, Made
  <2>7. \A n \in Model : versions[n] # None => versions[n].file \in Path
    BY <1>0 DEF TypeOK, Row
  <2>8. scores # None
    BY RegistryAssumption
  <2> HIDE DEF model, file
  <2>9. \A n \in Model : /\ n <= trained' => score'[n] # None
                         /\ versions'[n] # None => /\ n <= trained'
                                                  /\ files'[versions'[n].file] # None
    <3>1. ASSUME NEW n \in Model PROVE n <= trained' => n = model \/ n <= trained
      BY <2>2, <2>1 DEF Model, model
    <3>2. ASSUME NEW n \in Model, n <= trained PROVE n <= trained'
      BY <2>2, <2>1, <3>2 DEF Model, model
    <3> QED BY <1>0, <2>1, <2>2, <2>3, <2>4, <2>7, <2>8, <3>1, <3>2 DEF ModelsAreOwn
  <2>10. \A f \in Path : files'[f] # None => files'[f] <= trained'
    <3>1. \A f \in Path : files[f] # None => files[f] \in Model /\ files[f] <= trained
      BY <1>0 DEF ModelsAreOwn, TypeOK
    <3>2. model <= trained' /\ \A n \in Model : n <= trained => n <= trained'
      BY <2>2 DEF Model, model
    <3> QED BY <2>4, <3>1, <3>2
  <2>11. ASSUME NEW q \in Proc, NEW u \in Targets, Made(q, u)' # None
         PROVE  /\ Made(q, u)' <= trained' /\ versions'[Made(q, u)'] = None
                /\ files'[ArtifactPath(q, u)'] # None
                /\ \A r \in Proc, w \in Targets : Made(r, w)' = Made(q, u)' => r = q /\ w = u
    <3>1. \A r \in Proc, w \in Targets : Made(r, w) # None => Made(r, w) # model
      BY <1>0, <2>2, <2>6 DEF ModelsAreOwn
    <3>2. CASE q = p /\ u = t
      <4>1. Made(q, u)' = model
        BY <2>5, <3>2
      <4>2. versions[model] = None
        BY <1>0, <2>2 DEF ModelsAreOwn
      <4>3. \A r \in Proc, w \in Targets : Made(r, w)' = model => r = q /\ w = u
        BY <2>2, <2>5, <3>1, <3>2
      <4>4. model <= trained'
        BY <2>2 DEF Model
      <4>5. files'[ArtifactPath(q, u)'] # None
        BY <2>2, <2>4, <2>6, <3>2 DEF file
      <4> QED BY <2>1, <4>1, <4>2, <4>3, <4>4, <4>5
    <3>3. CASE ~(q = p /\ u = t)
      <4>1. Made(q, u)' = Made(q, u) /\ Made(q, u) # None /\ Made(q, u) # model
        BY <2>5, <2>11, <3>1, <3>3
      <4>2. /\ Made(q, u) <= trained /\ versions[Made(q, u)] = None
            /\ files[ArtifactPath(q, u)] # None
            /\ \A r \in Proc, w \in Targets : Made(r, w) = Made(q, u) => r = q /\ w = u
        BY <1>0, <4>1 DEF ModelsAreOwn
      <4>3. \A r \in Proc, w \in Targets : Made(r, w)' = Made(q, u) => r = q /\ w = u
        BY <2>5, <4>1, <4>2
      <4>4. Made(q, u) <= trained'
        BY <2>1, <2>2, <2>6, <4>1, <4>2 DEF Model
      <4>5. files'[ArtifactPath(q, u)'] # None
        BY <2>2, <2>4, <2>6, <4>2
      <4> QED BY <2>1, <4>1, <4>2, <4>3, <4>4, <4>5
    <3> QED BY <3>2, <3>3
  <2> QED BY <2>9, <2>10, <2>11 DEF ModelsAreOwn
<1>3. ASSUME NEW p \in Proc, Commit(p) PROVE ModelsAreOwn'
  <2>1. /\ tx'[p] = Idle /\ versions' = View(p)
        /\ UNCHANGED <<files, score, trained>>
        /\ \A q \in Proc : q # p => tx'[q] = tx[q]
    BY <1>3, CommitWrites
  <2>2. ASSUME NEW n \in Model, View(p)[n] # None
        PROVE  n <= trained /\ files[View(p)[n].file] # None
    <3>1. CASE versions[n] # None
      BY <1>0, <2>2, <3>1, CommittedRow DEF ModelsAreOwn
    <3>2. CASE versions[n] = None
      BY <1>0, <1>n, <2>2, <3>2, CommittedRow DEF ModelsAreOwn
    <3> QED BY <3>1, <3>2
  <2>3. ASSUME NEW q \in Proc, NEW t \in Targets, Made(q, t)' # None
        PROVE  /\ q # p /\ Made(q, t)' = Made(q, t) /\ ArtifactPath(q, t)' = ArtifactPath(q, t)
    BY <1>n, <2>1, <2>3 DEF Made, ArtifactPath
  <2>4. ASSUME NEW q \in Proc, NEW t \in Targets, Made(q, t)' # None
        PROVE  /\ Made(q, t)' <= trained' /\ versions'[Made(q, t)'] = None
               /\ files'[ArtifactPath(q, t)'] # None
               /\ \A r \in Proc, u \in Targets : Made(r, u)' = Made(q, t)' => r = q /\ u = t
    <3>1. q # p /\ Made(q, t)' = Made(q, t) /\ ArtifactPath(q, t)' = ArtifactPath(q, t) /\ Made(q, t) # None
      BY <2>3, <2>4
    <3>2. /\ Made(q, t) <= trained /\ versions[Made(q, t)] = None
          /\ files[ArtifactPath(q, t)] # None
          /\ \A r \in Proc, u \in Targets : Made(r, u) = Made(q, t) => r = q /\ u = t
      BY <1>0, <3>1 DEF ModelsAreOwn
    <3>3. \A r \in Proc, u \in Targets : Made(r, u)' = Made(q, t)' => Made(r, u) = Made(q, t)
      BY <2>3, <2>4, <3>1
    <3>4. Made(q, t) \in Model
      BY <1>0, <3>1, TxType DEF Made
    <3>5. View(p)[Made(q, t)] = None
      BY <3>1, <3>2, <3>4, CommittedRow
    <3> QED BY <2>1, <3>1, <3>2, <3>3, <3>5
  <2> QED BY <1>0, <2>1, <2>2, <2>4 DEF ModelsAreOwn
<1> QED BY <1>1, <1>2, <1>3, MakersOnly

-----------------------------------------------------------------------------
\* A commit leaves the rows others see, but for a champion that may be retired, or
\* a version restored.
LEMMA ViewKept ==
  ASSUME RegistryInv, NEW p \in Proc, Commit(p), NEW q \in Proc, q # p,
         NEW n \in Model, View(q)[n] # None
  PROVE  /\ View(q)'[n] # None /\ View(q)'[n].target = View(q)[n].target
         /\ View(q)[n].status # "challenger" => View(q)'[n].status # "challenger"
<1>1. tx'[q] = tx[q] /\ versions' = View(p) /\ WritesAreRows
  BY CommitWrites DEF RegistryInv
<1>2. CASE tx[q].wrote[n] # None
  BY <1>1, <1>2 DEF View
<1>3. CASE tx[q].wrote[n] = None
  <2>1. View(q)[n] = versions[n] /\ View(q)'[n] = View(p)[n]
    BY <1>1, <1>3 DEF View
  <2>2. CASE tx[p].wrote[n] # None
    <3>1. WritesRow(p, n) /\ View(p)[n] = tx[p].wrote[n]
      BY <1>1, <2>2 DEF WritesAreRows, View
    <3> QED BY <2>1, <2>2, <3>1 DEF WritesRow
  <2>3. CASE tx[p].wrote[n] = None
    BY <2>1, <2>3 DEF View
  <2> QED BY <2>2, <2>3
<1> QED BY <1>2, <1>3

\* The version a transaction is to promote stays where it is.
LEMMA StagesStep == RegistryInv /\ [Next]_vars => Stages'
<1> SUFFICES ASSUME RegistryInv, [Next]_vars PROVE Stages'
  OBVIOUS
<1>0. TypeOK /\ \A q \in Proc : Staged(q)
  BY DEF RegistryInv, Stages
<1>1. ASSUME NEW q \in Proc, tx'[q] = tx[q], versions' = versions PROVE Staged(q)'
  <2>1. /\ View(q)' = View(q) /\ Untrained(q)' = Untrained(q) /\ TargetOf(q)' = TargetOf(q)
        /\ \A t : (Holds(q, t)' <=> Holds(q, t)) /\ Made(q, t)' = Made(q, t)
    BY <1>1 DEF View, Untrained, TargetOf, Holds, Made
  <2>2. (~Holds(q, TargetOf(q)))' = ~Holds(q, TargetOf(q)) /\ Made(q, TargetOf(q))' = Made(q, TargetOf(q))
    BY <1>1 DEF View, TargetOf, Holds, Made
  <2> QED BY <1>0, <1>1, <2>1, <2>2 DEF Staged
<1>2. ASSUME NEW p \in Proc, versions' = versions, \A q \in Proc : q # p => tx'[q] = tx[q],
             Staged(p)'
      PROVE  Stages'
  BY <1>1, <1>2 DEF Stages
<1>3. CASE Tick \/ NewResults \/ UNCHANGED vars
  BY <1>1, <1>3 DEF Tick, NewResults, vars, Stages
<1>4. ASSUME NEW p \in Proc,
             \/ BuildDataset(p) \/ IntegrityError(p) \/ Crash(p)
             \/ \E t \in Targets : ChoosePrevious(p, t)
      PROVE  Stages'
  BY <1>2, <1>4, ResetDoes
<1>5. ASSUME NEW p \in Proc, ReadChampions(p) PROVE Stages'
  <2>1. Staged(p)'
    BY <1>5, ReadDoes DEF Staged, NoRows
  <2> QED BY <1>2, <1>5, <2>1, ReadDoes
<1>6. ASSUME NEW p \in Proc, SkipTarget(p) PROVE Stages'
  <2>1. PICK t \in Untrained(p) :
         /\ tx'[p].todo = tx[p].todo \ {t} /\ tx'[p].pc = "train"
         /\ tx'[p].wrote = tx[p].wrote /\ tx'[p].made = tx[p].made
         /\ tx'[p].rolling = tx[p].rolling
         /\ (\A q \in Proc : q # p => tx'[q] = tx[q]) /\ versions' = versions
    BY <1>6, SkipDoes
  <2>2. ~tx[p].rolling
    BY <1>0, <2>1 DEF Staged, Untrained
  <2>3. Staged(p)'
    BY <1>0, <2>1, <2>2 DEF Staged
  <2> QED BY <1>2, <2>1, <2>3
<1>7. ASSUME NEW p \in Proc, Train(p) PROVE Stages'
  <2>1. PICK t \in Targets :
         /\ t \in tx[p].todo /\ tx'[p].pc = "train"
         /\ tx'[p].todo = tx[p].todo /\ tx'[p].wrote = tx[p].wrote
         /\ tx'[p].rolling = tx[p].rolling
         /\ (\A q \in Proc : q # p => tx'[q] = tx[q]) /\ versions' = versions
    BY <1>7, TrainWrites
  <2>2. ~tx[p].rolling
    BY <1>0, <2>1 DEF Staged
  <2>3. Staged(p)'
    BY <1>0, <2>1, <2>2 DEF Staged
  <2> QED BY <1>2, <2>1, <2>3
<1>8. ASSUME NEW p \in Proc, Judge(p) PROVE Stages'
  <2>1. PICK t \in Targets, made \in Model, metrics \in Scores, promote \in BOOLEAN :
    /\ t \in tx[p].todo /\ made = tx[p].made[t] /\ Challenger(p, t, metrics) \in Row
    /\ tx'[p].wrote = [tx[p].wrote EXCEPT ![made] = Challenger(p, t, metrics)]
    /\ tx'[p].todo = tx[p].todo \ {t}
    /\ tx'[p].version = IF promote THEN made ELSE None
    /\ tx'[p].pc = IF promote THEN "promote" ELSE "train"
    /\ tx'[p].rolling = tx[p].rolling /\ tx'[p].made = tx[p].made
    /\ \A q \in Proc : q # p => tx'[q] = tx[q]
    /\ Untrained(p) = {} /\ versions' = versions
    BY <1>8, JudgeWrites
  <2>2. ~tx[p].rolling /\ tx[p].wrote \in [Model -> Row \cup {None}]
    BY <1>0, <2>1, TxType DEF Staged
  <2>3. \A n \in Model : tx'[p].wrote[n] = IF n = made THEN Challenger(p, t, metrics)
                                          ELSE tx[p].wrote[n]
    BY <2>1, <2>2
  <2>4. /\ Challenger(p, t, metrics).target = t
        /\ Challenger(p, t, metrics).status = "challenger"
        /\ Challenger(p, t, metrics) # None
    BY <2>1, RegistryAssumption DEF Challenger
  <2>5. \A n \in Model : tx'[p].wrote[n] # None => tx'[p].wrote[n].target \notin tx'[p].todo
    BY <1>0, <2>1, <2>3, <2>4 DEF Staged
  <2>6. tx'[p].pc \in {"promote", "crown"} =>
       /\ Untrained(p)' = {} /\ tx'[p].version # None /\ View(p)'[tx'[p].version] # None
       /\ ~Holds(p, TargetOf(p))'
       /\ tx'[p].version = Made(p, TargetOf(p))'
    <3>1. SUFFICES ASSUME promote PROVE
       /\ Untrained(p)' = {} /\ tx'[p].version # None /\ View(p)'[tx'[p].version] # None
       /\ ~Holds(p, TargetOf(p))'
       /\ tx'[p].version = Made(p, TargetOf(p))'
      BY <2>1
    <3>2. tx'[p].version = made /\ made # None
      BY <2>1, <3>1, RegistryAssumption DEF Model
    <3>3. View(p)'[made] = Challenger(p, t, metrics)
      BY <2>3, <2>4 DEF View
    <3>4. TargetOf(p)' = t
      BY <2>4, <3>2, <3>3 DEF TargetOf
    <3>5. Untrained(p)' = {}
      BY <2>1 DEF Untrained
    <3>6. \A n \in Model : tx[p].wrote[n] # None => tx[p].wrote[n].target # t
      <4>1. \A n \in Model : tx[p].wrote[n] # None => tx[p].wrote[n].target \notin tx[p].todo
        BY <1>0 DEF Staged
      <4> QED BY <2>1, <4>1
    <3>7. ~Holds(p, TargetOf(p))'
      BY <2>3, <2>4, <3>4, <3>6 DEF Holds
    <3>8. Made(p, TargetOf(p))' = made
      BY <2>1, <3>4 DEF Made
    <3> QED BY <2>4, <3>2, <3>3, <3>5, <3>7, <3>8
  <2>7. Staged(p)'
    <3>1. ~tx'[p].rolling /\ tx'[p].pc \in {"promote", "train"}
      BY <2>1, <2>2
    <3> QED BY <2>5, <2>6, <3>1 DEF Staged
  <2> QED BY <1>2, <2>1, <2>7
<1>9. ASSUME NEW p \in Proc, ReadCurrent(p) PROVE Stages'
  <2>1. /\ tx'[p].pc = "crown" /\ tx[p].pc = "promote"
        /\ tx'[p].current = Champion(View(p), TargetOf(p)) /\ tx'[p].version = tx[p].version
        /\ tx'[p].wrote = tx[p].wrote /\ tx'[p].made = tx[p].made /\ tx'[p].todo = tx[p].todo
        /\ tx'[p].rolling = tx[p].rolling
        /\ (\A q \in Proc : q # p => tx'[q] = tx[q]) /\ versions' = versions
    BY <1>9, CurrentDoes
  <2>2. /\ View(p)' = View(p) /\ Untrained(p)' = Untrained(p) /\ TargetOf(p)' = TargetOf(p)
        /\ Holds(p, TargetOf(p))' = Holds(p, TargetOf(p))
        /\ Made(p, TargetOf(p))' = Made(p, TargetOf(p))
    BY <2>1 DEF View, Untrained, TargetOf, Holds, Made
  <2>3. tx'[p].current # None => /\ View(p)[tx'[p].current] # None
                                 /\ View(p)[tx'[p].current].target = TargetOf(p)
                                 /\ View(p)[tx'[p].current].status # "challenger"
    BY <2>1, ChampionFound DEF Champions
  <2>4. Staged(p)'
    BY <1>0, <2>1, <2>2, <2>3 DEF Staged
  <2> QED BY <1>2, <2>1, <2>4
<1>10. ASSUME NEW p \in Proc, Crown(p) PROVE Stages'
  <2>1. /\ tx'[p].wrote = Enthroned(p) /\ tx'[p].pc = "train" /\ tx[p].pc = "crown"
        /\ tx'[p].todo = tx[p].todo /\ tx'[p].rolling = tx[p].rolling /\ tx'[p].made = tx[p].made
        /\ (\A q \in Proc : q # p => tx'[q] = tx[q]) /\ versions' = versions
    BY <1>10, CrownWrites DEF Crown
  <2>2. TargetOf(p) \notin tx[p].todo
    <3>1. CASE tx[p].rolling
      BY <1>0, <3>1 DEF Staged
    <3>2. CASE ~tx[p].rolling
      <4>1. /\ tx[p].version = Made(p, TargetOf(p)) /\ tx[p].version # None
            /\ View(p)[tx[p].version] # None /\ tx[p].version \in Model
        BY <1>0, <2>1, <3>2, TxType DEF Staged
      <4>2. TargetOf(p) \in Targets
        BY <1>0, <4>1, ViewType DEF TargetOf, Row
      <4>3. versions[tx[p].version] = None
        BY <4>1, <4>2 DEF RegistryInv, ModelsAreOwn
      <4>4. tx[p].wrote[tx[p].version] # None /\ TargetOf(p) = tx[p].wrote[tx[p].version].target
        BY <4>1, <4>3 DEF View, TargetOf
      <4> QED BY <1>0, <4>1, <4>4 DEF Staged
    <3> QED BY <3>1, <3>2
  <2>3. ASSUME NEW n \in Model, Enthroned(p)[n] # None PROVE Enthroned(p)[n].target \notin tx[p].todo
    <3>1. View(p) \in [Model -> Row \cup {None}]
      BY <1>0, ViewType
    <3>2. CASE n = tx[p].version
      <4>1. Enthroned(p)[n] = [View(p)[n] EXCEPT !.status = "champion", !.promoted = promotions + 1]
        BY <3>2 DEF Enthroned
      <4>2. View(p)[n] \in Row /\ View(p)[n].target = TargetOf(p)
        BY <1>0, <2>1, <3>1, <3>2 DEF Staged, TargetOf
      <4>3. Enthroned(p)[n].target = TargetOf(p)
        BY <4>1, <4>2 DEF Row
      <4> QED BY <2>2, <4>3
    <3>3. CASE n # tx[p].version /\ n = tx[p].current
      <4>1. Enthroned(p)[n] = [View(p)[n] EXCEPT !.status = "retired"]
        BY <3>3 DEF Enthroned
      <4>2. n # None
        BY RegistryAssumption DEF Model
      <4>3. View(p)[n] \in Row /\ View(p)[n].target = TargetOf(p)
        BY <1>0, <2>1, <3>1, <3>3, <4>2 DEF Staged
      <4>4. Enthroned(p)[n].target = TargetOf(p)
        BY <4>1, <4>3 DEF Row
      <4> QED BY <2>2, <4>4
    <3>4. CASE n # tx[p].version /\ n # tx[p].current
      <4>1. Enthroned(p)[n] = tx[p].wrote[n]
        BY <3>4 DEF Enthroned
      <4> QED BY <1>0, <2>3, <4>1 DEF Staged
    <3> QED BY <3>2, <3>3, <3>4
  <2>4. Staged(p)'
    BY <1>0, <2>1, <2>3 DEF Staged, Idle
  <2> QED BY <1>2, <2>1, <2>4
<1>11. ASSUME NEW p \in Proc, Commit(p) PROVE Stages'
  <2>1. /\ tx'[p] = Idle /\ versions' = View(p)
        /\ \A q \in Proc : q # p => tx'[q] = tx[q]
    BY <1>11, CommitWrites
  <2>2. Staged(p)'
    <3>1. Idle = [Idle EXCEPT !.pc = Idle.pc, !.window = Idle.window, !.todo = Idle.todo]
      BY DEF Idle
    <3>2. /\ Idle.pc = "idle" /\ Idle.todo = {} /\ Idle.rolling = FALSE
          /\ \A n \in Model : Idle.wrote[n] = None
      BY DEF Idle, NoRows
    <3> QED BY <2>1, <3>1, <3>2 DEF Staged
  <2>3. ASSUME NEW q \in Proc, q # p PROVE Staged(q)'
    <3>1. tx'[q] = tx[q] /\ Staged(q)
      BY <1>0, <2>1, <2>3
    <3>2. tx[q].version \in Model \cup {None} /\ tx[q].current \in Model \cup {None}
      BY <1>0, TxType
    <3>3. ASSUME tx[q].pc \in {"promote", "crown"}
          PROVE  /\ TargetOf(q)' = TargetOf(q) /\ View(q)'[tx[q].version] # None
                 /\ View(q)[tx[q].version].status # "challenger" =>
                      View(q)'[tx[q].version].status # "challenger"
      <4>1. tx[q].version \in Model /\ View(q)[tx[q].version] # None
        BY <3>1, <3>2, <3>3 DEF Staged
      <4> QED BY <1>11, <2>3, <3>1, <4>1, ViewKept DEF TargetOf
    <3>4. ASSUME tx[q].pc \in {"promote", "crown"}
          PROVE  /\ Untrained(q)' = {} /\ tx[q].version # None /\ View(q)'[tx[q].version] # None
                 /\ ~Holds(q, TargetOf(q))'
                 /\ IF tx[q].rolling THEN View(q)'[tx[q].version].status # "challenger"
                    ELSE tx[q].version = Made(q, TargetOf(q))'
      <4>1. /\ Untrained(q) = {} /\ tx[q].version # None /\ ~Holds(q, TargetOf(q))
            /\ IF tx[q].rolling THEN View(q)[tx[q].version].status # "challenger"
               ELSE tx[q].version = Made(q, TargetOf(q))
        BY <3>1, <3>4 DEF Staged
      <4>2. Untrained(q)' = {}
        BY <3>1, <4>1 DEF Untrained
      <4>3. TargetOf(q)' = TargetOf(q)
        BY <3>3, <3>4
      <4>4. Made(q, TargetOf(q))' = Made(q, TargetOf(q)) /\ ~Holds(q, TargetOf(q))'
        BY <3>1, <4>1, <4>3 DEF Made, Holds
      <4> QED BY <3>3, <3>4, <4>1, <4>2, <4>4
    <3>5. ASSUME tx[q].pc = "crown", tx[q].current # None
          PROVE  /\ View(q)'[tx[q].current] # None
                 /\ View(q)'[tx[q].current].target = TargetOf(q)'
                 /\ View(q)'[tx[q].current].status # "challenger"
      <4>1. /\ tx[q].current \in Model /\ View(q)[tx[q].current] # None
            /\ View(q)[tx[q].current].target = TargetOf(q)
            /\ View(q)[tx[q].current].status # "challenger"
        BY <3>1, <3>2, <3>5 DEF Staged
      <4>2. TargetOf(q)' = TargetOf(q)
        BY <3>3, <3>5
      <4> QED BY <1>11, <2>3, <4>1, <4>2, ViewKept
    <3> QED BY <3>1, <3>4, <3>5 DEF Staged
  <2> QED BY <2>2, <2>3 DEF Stages
<1> QED BY <1>3, <1>4, <1>5, <1>6, <1>7, <1>8, <1>9, <1>10, <1>11 DEF Next, Retrain, Promote

-----------------------------------------------------------------------------
\* Apart from the start of a training, a training and a commit, claims to artifacts
\* are only given up.
Narrow ==
  /\ UNCHANGED <<versions, files, twins>> /\ clock' \in Time /\ clock <= clock'
  /\ \A q \in Proc :
       /\ Claims(q)' \subseteq Claims(q) /\ tx'[q].stamp <= clock
       /\ \A t \in Targets : Made(q, t)' # None =>
            Made(q, t)' = Made(q, t) /\ ArtifactPath(q, t)' = ArtifactPath(q, t)
            /\ tx'[q].stamp = tx[q].stamp

\* Only those three steps claim an artifact, use a claim or move the table.
LEMMA ClaimsOnly ==
  ASSUME RegistryInv, [Next]_vars
  PROVE  Narrow \/ \E p \in Proc : ReadChampions(p) \/ Train(p) \/ Commit(p)
<1>0. /\ TypeOK /\ clock \in Time /\ clock \in Nat /\ clock <= clock
      /\ \A q \in Proc : tx[q].stamp <= clock
  BY RegistryAssumption DEF RegistryInv, ClaimsAreOwn, TypeOK, Time
<1>1. CASE Tick \/ NewResults \/ UNCHANGED vars
  <2>1. tx' = tx /\ UNCHANGED <<versions, files, twins>>
    BY <1>1 DEF Tick, NewResults, vars
  <2>2. clock' \in Time /\ clock <= clock'
    BY <1>0, <1>1, RegistryAssumption DEF Tick, NewResults, vars, Time
  <2> QED BY <1>0, <2>1, <2>2 DEF Narrow, Claims, Made, ArtifactPath
<1>2. ASSUME NEW q \in Proc, tx'[q].stamp = tx[q].stamp, tx'[q].made = tx[q].made,
             tx'[q].todo \subseteq tx[q].todo,
             tx[q].pc \in {"idle", "dataset"} => tx'[q].pc \in {"idle", "dataset"}
      PROVE  /\ Claims(q)' \subseteq Claims(q) /\ tx'[q].stamp <= clock
             /\ \A t \in Targets : Made(q, t)' # None =>
                  Made(q, t)' = Made(q, t) /\ ArtifactPath(q, t)' = ArtifactPath(q, t)
                  /\ tx'[q].stamp = tx[q].stamp
  <2>1. \A t \in Targets : Made(q, t)' = Made(q, t) /\ ArtifactPath(q, t)' = ArtifactPath(q, t)
    BY <1>2 DEF Made, ArtifactPath
  <2>2. Claims(q)' \subseteq Claims(q)
    BY <1>2, <2>1 DEF Claims
  <2> QED BY <1>0, <1>2, <2>1, <2>2
<1>3. ASSUME NEW p \in Proc, \A q \in Proc : q # p => tx'[q] = tx[q],
             UNCHANGED <<clock, versions, files, twins>>,
             tx'[p].stamp = tx[p].stamp, tx'[p].made = tx[p].made,
             tx'[p].todo \subseteq tx[p].todo, tx[p].pc \notin {"idle", "dataset"}
      PROVE  Narrow
  BY <1>0, <1>2, <1>3 DEF Narrow
<1>4. ASSUME NEW p \in Proc,
             \/ BuildDataset(p) \/ IntegrityError(p) \/ Crash(p)
             \/ \E t \in Targets : ChoosePrevious(p, t)
      PROVE  Narrow
  <2>1. /\ tx'[p].made = Idle.made /\ tx'[p].stamp = 0
        /\ tx'[p].pc \in {"idle", "dataset"} \/ tx'[p].todo = {}
        /\ \A q \in Proc : q # p => tx'[q] = tx[q]
        /\ UNCHANGED <<clock, versions, files, twins>>
    BY <1>4, ResetDoes
  <2>2. \A t \in Targets : Made(p, t)' = None
    BY <2>1 DEF Made, Idle
  <2>3. Claims(p)' = {}
    BY <2>1, <2>2 DEF Claims
  <2> QED BY <1>0, <1>2, <2>1, <2>2, <2>3 DEF Narrow
<1>5. ASSUME NEW p \in Proc, SkipTarget(p) PROVE Narrow
  BY <1>3, <1>5, SkipDoes
<1>6. ASSUME NEW p \in Proc, Judge(p) PROVE Narrow
  BY <1>3, <1>6, JudgeWrites
<1>7. ASSUME NEW p \in Proc, ReadCurrent(p) PROVE Narrow
  BY <1>3, <1>7, CurrentDoes
<1>8. ASSUME NEW p \in Proc, Crown(p) PROVE Narrow
  BY <1>3, <1>8, CrownWrites DEF Crown
<1> QED BY <1>1, <1>4, <1>5, <1>6, <1>7, <1>8 DEF Next, Retrain, Promote

\* What a transaction has made it has claimed.
LEMMA MadeIsClaimed ==
  ASSUME RegistryInv, NEW p \in Proc, NEW t \in Targets, Made(p, t) # None
  PROVE  ArtifactPath(p, t) \in Claims(p)
<1>1. tx[p].pc \notin {"idle", "dataset"}
  <2>1. SUFFICES ASSUME tx[p].pc \in {"idle", "dataset"} PROVE Made(p, t) = None
    OBVIOUS
  <2>2. tx[p] = [Idle EXCEPT !.pc = tx[p].pc, !.window = tx[p].window, !.todo = tx[p].todo]
    BY <2>1 DEF RegistryInv, Stages, Staged
  <2>3. tx[p].made = Idle.made
    BY <2>2 DEF Idle
  <2> QED BY <2>3 DEF Made, Idle
<1> QED BY <1>1 DEF Claims

\* Files stay apart.
LEMMA ClaimsStep == RegistryInv /\ [Next]_vars => ClaimsAreOwn'
<1> SUFFICES ASSUME RegistryInv, [Next]_vars PROVE ClaimsAreOwn'
  OBVIOUS
<1>0. /\ TypeOK /\ ClaimsAreOwn /\ clock \in Nat
      /\ \A q \in Proc : tx[q].stamp \in Nat
      /\ \A n \in Model : versions[n] # None => versions[n].file[2] \in Nat
  <2>1. Time \subseteq Nat
    BY DEF Time
  <2>2. TypeOK /\ ClaimsAreOwn
    BY DEF RegistryInv
  <2>3. \A q \in Proc : tx[q].stamp \in Nat
    BY <2>1, <2>2, TxType
  <2>4. clock \in Nat /\ \A n \in Model : versions[n] # None => versions[n].file[2] \in Nat
    BY <2>1, <2>2 DEF TypeOK, Row, Path
  <2> QED BY <2>2, <2>3, <2>4
<1>1. CASE Narrow
  <2>1. clock' \in Nat /\ clock <= clock'
    BY <1>1 DEF Narrow, Time
  <2>2. \A n \in Model : versions'[n] # None => versions'[n].file[2] < clock'
    BY <1>0, <1>1, <2>1 DEF Narrow, ClaimsAreOwn
  <2>3. ASSUME NEW q \in Proc, NEW t \in Targets, Made(q, t)' # None
        PROVE  /\ tx'[q].stamp < clock'
               /\ ~twins' => files'[ArtifactPath(q, t)'] = Made(q, t)'
    <3>1. /\ Made(q, t) # None /\ Made(q, t)' = Made(q, t)
          /\ ArtifactPath(q, t)' = ArtifactPath(q, t) /\ tx'[q].stamp = tx[q].stamp
          /\ UNCHANGED <<files, twins>>
      BY <1>1, <2>3 DEF Narrow
    <3>2. tx[q].stamp < clock /\ (~twins => files[ArtifactPath(q, t)] = Made(q, t))
      BY <1>0, <3>1 DEF ClaimsAreOwn
    <3> QED BY <1>0, <2>1, <3>1, <3>2
  <2>4. \A q \in Proc : tx'[q].stamp <= clock'
    <3>1. ASSUME NEW q \in Proc PROVE tx'[q].stamp <= clock'
      <4>1. tx'[q].stamp \in Time
        BY TypeStep DEF TypeOK, Transaction
      <4> QED BY <1>0, <1>1, <2>1, <4>1 DEF Narrow, Time
    <3> QED BY <3>1
  <2>5. ~twins' => /\ \A q, r \in Proc : q = r \/ Claims(q)' \cap Claims(r)' = {}
                   /\ \A q \in Proc, n \in Model :
                        versions'[n] # None => versions'[n].file \notin Claims(q)'
    BY <1>0, <1>1 DEF Narrow, ClaimsAreOwn
  <2> QED BY <2>2, <2>3, <2>4, <2>5 DEF ClaimsAreOwn
<1>2. ASSUME NEW p \in Proc, ReadChampions(p) PROVE ClaimsAreOwn'
  <2>1. /\ tx'[p].pc = "train" /\ tx'[p].stamp = clock /\ tx'[p].made = Idle.made
        /\ tx'[p].todo = tx[p].todo
        /\ \A q \in Proc : q # p => tx'[q] = tx[q]
        /\ UNCHANGED <<clock, versions, files>>
    BY <1>2, ReadDoes
  <2>2. twins' = (twins \/ \E q \in Proc \ {p} : /\ tx[q].pc = "train" /\ tx[q].stamp = clock
                                                /\ tx[q].todo \cap tx[p].todo # {})
    BY <1>2 DEF ReadChampions
  <2>3. \A t \in Targets : Made(p, t)' = None
    BY <2>1 DEF Made, Idle
  <2>4. Claims(p)' = {<<t, clock>> : t \in {u \in Targets : u \in tx[p].todo}}
    BY <2>1, <2>3 DEF Claims, ArtifactPath
  <2>5. \A q \in Proc : q # p => /\ Claims(q)' = Claims(q)
                                 /\ \A t : /\ Made(q, t)' = Made(q, t)
                                          /\ ArtifactPath(q, t)' = ArtifactPath(q, t)
    BY <2>1 DEF Claims, Made, ArtifactPath
  <2>6. ASSUME ~twins', NEW q \in Proc, q # p PROVE Claims(p)' \cap Claims(q) = {}
    <3>1. SUFFICES ASSUME NEW t \in Targets, t \in tx[p].todo, <<t, clock>> \in Claims(q)
                   PROVE  FALSE
      BY <2>4
    <3>2. /\ tx[q].pc \notin {"idle", "dataset"} /\ tx[q].stamp = clock
          /\ t \in tx[q].todo \/ Made(q, t) # None
      BY <3>1 DEF Claims, ArtifactPath
    <3>3. Made(q, t) = None
      <4>1. Made(q, t) # None => tx[q].stamp < clock
        BY <1>0 DEF ClaimsAreOwn
      <4> QED BY <1>0, <3>2, <4>1
    <3>4. tx[q].pc = "train"
      <4>1. tx[q].pc \in {"promote", "crown"} => Untrained(q) = {}
        BY DEF RegistryInv, Stages, Staged
      <4>2. tx[q].pc \in {"train", "promote", "crown"}
        BY <1>0, <3>2, TxType
      <4> QED BY <3>2, <3>3, <4>1, <4>2 DEF Untrained, Made
    <3> QED BY <2>2, <2>6, <3>1, <3>2, <3>3, <3>4
  <2>7. ASSUME NEW n \in Model, versions[n] # None PROVE versions[n].file \notin Claims(p)'
    <3>1. versions[n].file[2] < clock
      BY <1>0, <2>7 DEF ClaimsAreOwn
    <3> QED BY <1>0, <2>4, <2>7, <3>1
  <2>8. ~twins' => ~twins
    BY <2>2
  <2>9. \A q \in Proc : tx'[q].stamp <= clock'
    BY <1>0, <2>1 DEF ClaimsAreOwn
  <2>10. ~twins' => /\ \A q, r \in Proc : q = r \/ Claims(q)' \cap Claims(r)' = {}
                    /\ \A q \in Proc, n \in Model :
                         versions'[n] # None => versions'[n].file \notin Claims(q)'
                    /\ \A q \in Proc, t \in Targets :
                         Made(q, t)' # None => files'[ArtifactPath(q, t)'] = Made(q, t)'
    <3>1. SUFFICES ASSUME ~twins'
          PROVE  /\ \A q, r \in Proc : q = r \/ Claims(q)' \cap Claims(r)' = {}
                 /\ \A q \in Proc, n \in Model :
                         versions'[n] # None => versions'[n].file \notin Claims(q)'
                 /\ \A q \in Proc, t \in Targets :
                         Made(q, t)' # None => files'[ArtifactPath(q, t)'] = Made(q, t)'
      OBVIOUS
    <3>2. /\ \A q, r \in Proc : q = r \/ Claims(q) \cap Claims(r) = {}
          /\ \A q \in Proc, n \in Model : versions[n] # None => versions[n].file \notin Claims(q)
          /\ \A q \in Proc, t \in Targets : Made(q, t) # None => files[ArtifactPath(q, t)] = Made(q, t)
      BY <1>0, <2>8, <3>1 DEF ClaimsAreOwn
    <3>3. \A q, r \in Proc : q = r \/ Claims(q)' \cap Claims(r)' = {}
      BY <2>5, <2>6, <3>1, <3>2
    <3>4. \A q \in Proc, n \in Model : versions'[n] # None => versions'[n].file \notin Claims(q)'
      BY <2>1, <2>5, <2>7, <3>2
    <3>5. \A q \in Proc, t \in Targets :
            Made(q, t)' # None => files'[ArtifactPath(q, t)'] = Made(q, t)'
      BY <2>1, <2>3, <2>5, <3>2
    <3> QED BY <3>3, <3>4, <3>5
  <2>11. \A n \in Model : versions'[n] # None => versions'[n].file[2] < clock'
    BY <1>0, <2>1 DEF ClaimsAreOwn
  <2>12. \A q \in Proc, t \in Targets : Made(q, t)' # None => tx'[q].stamp < clock'
    BY <1>0, <2>1, <2>3, <2>5 DEF ClaimsAreOwn
  <2> QED BY <2>9, <2>10, <2>11, <2>12 DEF ClaimsAreOwn
<1>3. ASSUME NEW p \in Proc, Train(p) PROVE ClaimsAreOwn'
  <2>1. PICK t \in Targets, scores \in Profiles, x \in Scores \cup {None} :
    /\ t \in tx[p].todo /\ tx[p].made[t] = None /\ ArtifactPath(p, t) \in Path
    /\ files' = [files EXCEPT ![ArtifactPath(p, t)] = trained + 1]
    /\ tx'[p].made = [tx[p].made EXCEPT ![t] = trained + 1]
    /\ tx'[p].pc = "train" /\ tx[p].pc = "train" /\ tx'[p].todo = tx[p].todo
    /\ tx'[p].stamp = tx[p].stamp
    /\ \A q \in Proc : q # p => tx'[q] = tx[q]
    /\ clock > tx[p].stamp
    /\ UNCHANGED <<clock, versions, window, promotions, twins>>
    BY <1>3, TrainWrites
  <2>2. \A q \in Proc, u \in Targets : /\ ArtifactPath(q, u)' = ArtifactPath(q, u)
                                      /\ ArtifactPath(q, u) \in Path
    <3>1. \A q \in Proc : tx'[q].stamp = tx[q].stamp /\ tx[q].stamp \in Time
      BY <1>0, <2>1, TxType
    <3> QED BY <3>1 DEF ArtifactPath, Path
  <2>3. \A q \in Proc, u \in Targets :
          Made(q, u)' = IF q = p /\ u = t THEN trained + 1 ELSE Made(q, u)
    <3>1. tx[p].made \in [Targets -> Model \cup {None}]
      BY <1>0, TxType
    <3>2. \A u \in Targets : tx'[p].made[u] = IF u = t THEN trained + 1 ELSE tx[p].made[u]
      BY <2>1, <3>1
    <3> QED BY <2>1, <3>2 DEF Made
  <2>4. \A q \in Proc : Claims(q)' \subseteq Claims(q)
    <3>1. Claims(p)' \subseteq Claims(p)
      BY <2>1, <2>2, <2>3 DEF Claims
    <3>2. \A q \in Proc : q # p => Claims(q)' = Claims(q)
      <4>1. \A q \in Proc : q # p => tx'[q] = tx[q]
        BY <2>1
      <4> QED BY <4>1 DEF Claims, Made, ArtifactPath
    <3> QED BY <3>1, <3>2
  <2>5. ArtifactPath(p, t) \in Claims(p)
    BY <2>1 DEF Claims
  <2>6. ASSUME ~twins, NEW q \in Proc, NEW u \in Targets, Made(q, u)' # None
        PROVE  files'[ArtifactPath(q, u)] = Made(q, u)'
    <3>1. CASE q = p /\ u = t
      BY <1>0, <2>1, <2>3, <3>1 DEF TypeOK
    <3>2. CASE ~(q = p /\ u = t)
      <4>1. Made(q, u)' = Made(q, u) /\ Made(q, u) # None
        BY <2>3, <2>6, <3>2
      <4>2. ArtifactPath(q, u) # ArtifactPath(p, t)
        <5>1. CASE q = p
          BY <3>2, <5>1 DEF ArtifactPath
        <5>2. CASE q # p
          <6>1. Claims(q) \cap Claims(p) = {}
            BY <1>0, <2>6, <5>2 DEF ClaimsAreOwn
          <6> QED BY <2>5, <4>1, <6>1, MadeIsClaimed
        <5> QED BY <5>1, <5>2
      <4>3. files[ArtifactPath(q, u)] = Made(q, u)
        BY <1>0, <2>6, <4>1 DEF ClaimsAreOwn
      <4> QED BY <1>0, <2>1, <2>2, <4>1, <4>2, <4>3 DEF TypeOK
    <3> QED BY <3>1, <3>2
  <2>7. ~twins => /\ \A q, r \in Proc : q = r \/ Claims(q)' \cap Claims(r)' = {}
                  /\ \A q \in Proc, n \in Model :
                       versions[n] # None => versions[n].file \notin Claims(q)'
    BY <1>0, <2>4 DEF ClaimsAreOwn
  <2>8. \A q \in Proc, u \in Targets : Made(q, u)' # None => tx'[q].stamp < clock
    BY <1>0, <2>1, <2>3 DEF ClaimsAreOwn
  <2>9. \A q \in Proc : tx'[q].stamp <= clock
    BY <1>0, <2>1 DEF ClaimsAreOwn
  <2> QED BY <1>0, <2>1, <2>2, <2>6, <2>7, <2>8, <2>9 DEF ClaimsAreOwn
<1>4. ASSUME NEW p \in Proc, Commit(p) PROVE ClaimsAreOwn'
  <2>1. /\ tx'[p] = Idle /\ versions' = View(p)
        /\ UNCHANGED <<clock, files, twins>>
        /\ \A q \in Proc : q # p => tx'[q] = tx[q]
    BY <1>4, CommitWrites
  <2>2. Claims(p)' = {} /\ \A t \in Targets : Made(p, t)' = None
    BY <2>1 DEF Claims, Made, Idle
  <2>3. \A q \in Proc : q # p => /\ Claims(q)' = Claims(q)
                                 /\ \A t : /\ Made(q, t)' = Made(q, t)
                                          /\ ArtifactPath(q, t)' = ArtifactPath(q, t)
    BY <2>1 DEF Claims, Made, ArtifactPath
  <2>4. ASSUME NEW n \in Model, View(p)[n] # None
        PROVE  /\ View(p)[n].file[2] < clock
               /\ \A q \in Proc : ~twins /\ q # p => View(p)[n].file \notin Claims(q)
    <3>1. CASE versions[n] # None
      <4>1. View(p)[n].file = versions[n].file
        BY <2>4, <3>1, CommittedRow
      <4> QED BY <1>0, <3>1, <4>1 DEF ClaimsAreOwn
    <3>2. CASE versions[n] = None
      <4>1. PICK t \in Targets : n = Made(p, t) /\ View(p)[n].file = ArtifactPath(p, t)
        BY <2>4, <3>2, CommittedRow
      <4>2. Made(p, t) # None
        BY <4>1, RegistryAssumption DEF Model
      <4>3. ArtifactPath(p, t) \in Claims(p) /\ tx[p].stamp < clock
        BY <1>0, <4>2, MadeIsClaimed DEF ClaimsAreOwn
      <4>4. \A q \in Proc : ~twins /\ q # p => Claims(p) \cap Claims(q) = {}
        BY <1>0 DEF ClaimsAreOwn
      <4> QED BY <4>1, <4>3, <4>4 DEF ArtifactPath
    <3> QED BY <3>1, <3>2
  <2>5. \A q \in Proc, t \in Targets : Made(q, t)' # None => tx'[q].stamp < clock'
    BY <1>0, <2>1, <2>2, <2>3 DEF ClaimsAreOwn
  <2>6. \A q \in Proc : tx'[q].stamp <= clock'
    BY <1>0, <2>1 DEF ClaimsAreOwn, Idle
  <2>7. ~twins' => /\ \A q, r \in Proc : q = r \/ Claims(q)' \cap Claims(r)' = {}
                   /\ \A q \in Proc, n \in Model :
                        versions'[n] # None => versions'[n].file \notin Claims(q)'
                   /\ \A q \in Proc, t \in Targets :
                        Made(q, t)' # None => files'[ArtifactPath(q, t)'] = Made(q, t)'
    <3>1. SUFFICES ASSUME ~twins
          PROVE  /\ \A q, r \in Proc : q = r \/ Claims(q)' \cap Claims(r)' = {}
                 /\ \A q \in Proc, n \in Model :
                         versions'[n] # None => versions'[n].file \notin Claims(q)'
                 /\ \A q \in Proc, t \in Targets :
                         Made(q, t)' # None => files'[ArtifactPath(q, t)'] = Made(q, t)'
      BY <2>1
    <3>2. /\ \A q, r \in Proc : q = r \/ Claims(q) \cap Claims(r) = {}
          /\ \A q \in Proc, t \in Targets : Made(q, t) # None => files[ArtifactPath(q, t)] = Made(q, t)
      BY <1>0, <3>1 DEF ClaimsAreOwn
    <3>3. \A q, r \in Proc : q = r \/ Claims(q)' \cap Claims(r)' = {}
      BY <2>2, <2>3, <3>2
    <3>4. \A q \in Proc, n \in Model : versions'[n] # None => versions'[n].file \notin Claims(q)'
      BY <2>1, <2>2, <2>3, <2>4, <3>1
    <3>5. \A q \in Proc, t \in Targets :
            Made(q, t)' # None => files'[ArtifactPath(q, t)'] = Made(q, t)'
      BY <2>1, <2>2, <2>3, <3>2
    <3> QED BY <3>3, <3>4, <3>5
  <2> QED BY <2>1, <2>4, <2>5, <2>6, <2>7 DEF ClaimsAreOwn
<1> QED BY <1>1, <1>2, <1>3, <1>4, ClaimsOnly

\* A version's artifact stays its model.
LEMMA ArtifactStep == RegistryInv /\ [Next]_vars => ArtifactIsTheVersions'
<1> SUFFICES ASSUME RegistryInv, [Next]_vars, ~twins', NEW n \in Model, versions'[n] # None
             PROVE  files'[versions'[n].file] = n
  BY DEF ArtifactIsTheVersions
<1>0. TypeOK /\ ArtifactIsTheVersions /\ ClaimsAreOwn
  BY DEF RegistryInv
<1>1. CASE Narrow
  BY <1>0, <1>1 DEF Narrow, ArtifactIsTheVersions
<1>2. ASSUME NEW p \in Proc, ReadChampions(p) PROVE files'[versions'[n].file] = n
  BY <1>0, <1>2 DEF ReadChampions, ArtifactIsTheVersions
<1>3. ASSUME NEW p \in Proc, Train(p) PROVE files'[versions'[n].file] = n
  <2>1. PICK t \in Targets :
    /\ t \in tx[p].todo /\ tx[p].pc = "train" /\ ArtifactPath(p, t) \in Path
    /\ files' = [files EXCEPT ![ArtifactPath(p, t)] = trained + 1]
    /\ UNCHANGED <<versions, twins>>
    BY <1>3, TrainWrites
  <2>2. ArtifactPath(p, t) \in Claims(p)
    BY <2>1 DEF Claims
  <2>3. versions[n].file # ArtifactPath(p, t) /\ versions[n].file \in Path
    BY <1>0, <2>1, <2>2 DEF ClaimsAreOwn, TypeOK, Row
  <2> QED BY <1>0, <2>1, <2>3 DEF ArtifactIsTheVersions, TypeOK
<1>4. ASSUME NEW p \in Proc, Commit(p) PROVE files'[versions'[n].file] = n
  <2>1. versions' = View(p) /\ UNCHANGED <<files, twins>>
    BY <1>4, CommitWrites
  <2>2. CASE versions[n] # None
    BY <1>0, <2>1, <2>2, CommittedRow DEF ArtifactIsTheVersions
  <2>3. CASE versions[n] = None
    <3>1. PICK t \in Targets : n = Made(p, t) /\ View(p)[n].file = ArtifactPath(p, t)
      BY <2>1, <2>3, CommittedRow
    <3>2. Made(p, t) # None
      BY <3>1, RegistryAssumption DEF Model
    <3> QED BY <1>0, <2>1, <3>1, <3>2 DEF ClaimsAreOwn
  <2> QED BY <2>2, <2>3
<1> QED BY <1>1, <1>2, <1>3, <1>4, ClaimsOnly

-----------------------------------------------------------------------------
\* A commit changes a row's status and rank only, and the target it promotes for
\* has a champion.
LEMMA TableKept ==
  ASSUME RegistryInv, [Next]_vars
  PROVE  /\ \A n \in Model : versions[n] # None =>
              /\ versions'[n] # None /\ versions'[n].target = versions[n].target
              /\ versions'[n].file = versions[n].file /\ versions'[n].metrics = versions[n].metrics
              /\ versions[n].promoted > 0 => versions'[n].promoted > 0
         /\ \A t \in Targets : Champions(versions, t) # {} => Champions(versions', t) # {}
<1>0. TypeOK /\ ChampionsAreOrderly
  BY DEF RegistryInv
<1>1. CASE versions' = versions
  BY <1>1
<1>2. ASSUME NEW p \in Proc, Commit(p)
      PROVE  /\ \A n \in Model : versions[n] # None =>
                  /\ versions'[n] # None /\ versions'[n].target = versions[n].target
                  /\ versions'[n].file = versions[n].file /\ versions'[n].metrics = versions[n].metrics
                  /\ versions[n].promoted > 0 => versions'[n].promoted > 0
             /\ \A t \in Targets : Champions(versions, t) # {} => Champions(versions', t) # {}
  <2>1. versions' = View(p)
    BY <1>2, CommitWrites
  <2>2. ASSUME NEW n \in Model, versions[n] # None
        PROVE  /\ View(p)[n] # None /\ View(p)[n].target = versions[n].target
               /\ View(p)[n].file = versions[n].file /\ View(p)[n].metrics = versions[n].metrics
               /\ versions[n].promoted > 0 => View(p)[n].promoted > 0
    <3>1. View(p)[n] # None
      BY <2>2 DEF View
    <3>2. versions[n].promoted \in Nat /\ View(p)[n].promoted \in Nat
      BY <1>0, <2>2, <3>1, ViewType DEF TypeOK, Row
    <3> QED BY <2>2, <3>1, <3>2, CommittedRow
  <2>3. ASSUME NEW t \in Targets, Champions(versions, t) # {} PROVE Champions(View(p), t) # {}
    <3>1. CASE Holds(p, t)
      BY <1>0, <3>1 DEF ChampionsAreOrderly
    <3>2. CASE ~Holds(p, t)
      BY <2>3, <3>2, UnheldView
    <3> QED BY <3>1, <3>2
  <2> QED BY <2>1, <2>2, <2>3
<1>3. versions' = versions \/ \E p \in Proc : Commit(p)
  BY MakersOnly, TrainWrites DEF Still
<1> QED BY <1>1, <1>2, <1>3

\* What the artifact a run has read scores stays the same.
LEMMA ScoreKept ==
  ASSUME RegistryInv, [Next]_vars, ~twins,
         NEW q \in Proc, NEW t \in Targets, tx[q].read[t] # None
  PROVE  score'[files'[tx[q].read[t]]] = score[files[tx[q].read[t]]]
<1> DEFINE read == tx[q].read[t]
<1>0. TypeOK
  BY DEF RegistryInv
<1>1. PICK n \in Model : versions[n] # None /\ versions[n].file = read
  BY DEF RegistryInv, GateIsPassed, FreshIsOfTheRead
<1>2. read \in Path /\ files[read] # None /\ files[read] <= trained /\ files[read] \in Model
  BY <1>0, <1>1 DEF RegistryInv, ModelsAreOwn, TypeOK, Row
<1>3. ASSUME NEW p \in Proc, Train(p) PROVE score'[files'[read]] = score[files[read]]
  <2>1. PICK u \in Targets, scores \in Profiles, x \in Scores \cup {None} :
    /\ u \in tx[p].todo /\ tx[p].made[u] = None /\ ArtifactPath(p, u) \in Path
    /\ trained + 1 \in Model /\ trained' = trained + 1
    /\ score' = [score EXCEPT ![trained + 1] = scores]
    /\ files' = [files EXCEPT ![ArtifactPath(p, u)] = trained + 1]
    /\ tx[p].pc = "train"
    BY <1>3, TrainWrites
  <2>2. ArtifactPath(p, u) \in Claims(p)
    BY <2>1 DEF Claims
  <2>3. read # ArtifactPath(p, u)
    BY <1>1, <2>2 DEF RegistryInv, ClaimsAreOwn
  <2>4. files'[read] = files[read]
    BY <1>0, <1>2, <2>1, <2>3 DEF TypeOK
  <2>5. files[read] # trained + 1
    BY <1>0, <1>2 DEF TypeOK
  <2> HIDE DEF read
  <2> QED BY <1>0, <1>2, <2>1, <2>4, <2>5 DEF TypeOK
<1>4. CASE UNCHANGED <<files, score>>
  BY <1>4
<1> QED BY <1>3, <1>4, MakersOnly, CommitWrites DEF Still

\* The fresh score of a transaction that keeps what it read stays one.
LEMMA FreshKept ==
  ASSUME RegistryInv, [Next]_vars, NEW q \in Proc, NEW t \in Targets,
         tx'[q].read = tx[q].read, tx'[q].fresh[t] = tx[q].fresh[t], tx'[q].window = tx[q].window
  PROVE  FreshIsOfTheRead(q, t)'
<1>1. FreshIsOfTheRead(q, t)
  BY DEF RegistryInv, GateIsPassed
<1>2. ~twins' => ~twins
  BY ClaimsOnly, TrainWrites, CommitWrites DEF Narrow, ReadChampions
<1>3. tx[q].read[t] # None =>
        /\ \E n \in Model : /\ versions'[n] # None /\ versions'[n].target = t
                           /\ versions'[n].file = tx[q].read[t]
        /\ Champions(versions', t) # {}
  BY <1>1, TableKept DEF FreshIsOfTheRead
<1>4. ~twins /\ tx[q].read[t] # None => score'[files'[tx[q].read[t]]] = score[files[tx[q].read[t]]]
  BY ScoreKept
<1> QED BY <1>1, <1>2, <1>3, <1>4 DEF FreshIsOfTheRead, Champions

\* A version that passed stays one that did.
LEMMA PassedKept ==
  ASSUME RegistryInv, [Next]_vars, NEW q \in Proc, NEW t \in Targets,
         tx'[q].read = tx[q].read, tx'[q].fresh[t] = tx[q].fresh[t],
         \A n \in Model : Crowning(q, n)' /\ tx'[q].wrote[n].target = t =>
           /\ Crowning(q, n) /\ tx[q].wrote[n].target = t
           /\ tx'[q].wrote[n].metrics = tx[q].wrote[n].metrics
  PROVE  CrownedPasses(q, t)'
<1>1. CrownedPasses(q, t)
  BY DEF RegistryInv, GateIsPassed
<1> SUFFICES ASSUME NEW n \in Model, Crowning(q, n)', tx'[q].wrote[n].target = t,
                    tx'[q].read[t] # None
             PROVE  IF tx'[q].fresh[t] # None
                    THEN Passes(tx'[q].wrote[n].metrics, tx'[q].fresh[t])
                    ELSE \E m \in Model :
                           /\ versions'[m] # None /\ versions'[m].target = t
                           /\ versions'[m].promoted > 0
                           /\ Passes(tx'[q].wrote[n].metrics, versions'[m].metrics)
  BY DEF CrownedPasses, Passes, BeatsStored
<1>3. /\ Crowning(q, n) /\ tx[q].wrote[n].target = t
      /\ tx'[q].wrote[n].metrics = tx[q].wrote[n].metrics
  OBVIOUS
<1>4. IF tx[q].fresh[t] # None THEN Passes(tx[q].wrote[n].metrics, tx[q].fresh[t])
      ELSE BeatsStored(tx[q].wrote[n].metrics, t)
  BY <1>1, <1>3 DEF CrownedPasses
<1> QED BY <1>3, <1>4, TableKept DEF BeatsStored

\* The gate stays passed.
LEMMA GateStep == RegistryInv /\ [Next]_vars => GateIsPassed'
<1> SUFFICES ASSUME RegistryInv, [Next]_vars, NEW q \in Proc, NEW t \in Targets
             PROVE  FreshIsOfTheRead(q, t)' /\ CrownedPasses(q, t)'
  BY DEF GateIsPassed
<1>0. TypeOK /\ FreshIsOfTheRead(q, t) /\ CrownedPasses(q, t) /\ tx[q].wrote \in [Model -> Row \cup {None}]
  BY TxType DEF RegistryInv, GateIsPassed
<1>1. ASSUME tx'[q].read = tx[q].read, tx'[q].fresh = tx[q].fresh, tx'[q].window = tx[q].window,
             tx'[q].wrote = tx[q].wrote, tx'[q].rolling = tx[q].rolling,
             \A n \in Model : Crowning(q, n)' => Crowning(q, n)
      PROVE  FreshIsOfTheRead(q, t)' /\ CrownedPasses(q, t)'
  BY <1>1, FreshKept, PassedKept
<1>2. ASSUME tx'[q] = tx[q] PROVE FreshIsOfTheRead(q, t)' /\ CrownedPasses(q, t)'
  <2>1. \A n \in Model : Crowning(q, n)' => Crowning(q, n)
    BY <1>2 DEF Crowning
  <2> QED BY <1>1, <1>2, <2>1
<1>3. ASSUME tx'[q].read = Idle.read, tx'[q].fresh = Idle.fresh
      PROVE  FreshIsOfTheRead(q, t)' /\ CrownedPasses(q, t)'
  <2>1. tx'[q].read[t] = None /\ tx'[q].fresh[t] = None
    BY <1>3 DEF Idle
  <2> QED BY <2>1 DEF FreshIsOfTheRead, CrownedPasses
<1>4. CASE Tick \/ NewResults \/ UNCHANGED vars
  BY <1>2, <1>4 DEF Tick, NewResults, vars
<1>5. ASSUME NEW p \in Proc,
             \/ BuildDataset(p) \/ IntegrityError(p) \/ Crash(p)
             \/ \E u \in Targets : ChoosePrevious(p, u)
      PROVE  FreshIsOfTheRead(q, t)' /\ CrownedPasses(q, t)'
  BY <1>2, <1>3, <1>5, ResetDoes
<1>6. ASSUME NEW p \in Proc, ReadChampions(p)
      PROVE  FreshIsOfTheRead(q, t)' /\ CrownedPasses(q, t)'
  <2>1. CASE q # p
    BY <1>2, <1>6, <2>1, ReadDoes
  <2>2. CASE q = p
    <3>1. /\ tx'[q].read = Serving /\ tx'[q].wrote = NoRows /\ tx'[q].fresh = Idle.fresh
          /\ versions' = versions
      BY <1>6, <2>2, ReadDoes
    <3>2. tx'[q].fresh[t] = None /\ \A n \in Model : ~Crowning(q, n)'
      BY <3>1 DEF Idle, NoRows, Crowning
    <3>3. ASSUME Serving[t] # None
          PROVE  /\ \E n \in Model : /\ versions[n] # None /\ versions[n].target = t
                                    /\ versions[n].file = Serving[t]
                 /\ Champions(versions, t) # {}
      <4>1. Champion(versions, t) # None /\ Serving[t] = versions[Champion(versions, t)].file
        BY <3>3 DEF Serving
      <4> QED BY <4>1, ChampionFound DEF Champions
    <3> QED BY <3>1, <3>2, <3>3 DEF FreshIsOfTheRead, CrownedPasses, Champions
  <2> QED BY <2>1, <2>2
<1>7. ASSUME NEW p \in Proc, SkipTarget(p)
      PROVE  FreshIsOfTheRead(q, t)' /\ CrownedPasses(q, t)'
  <2>1. CASE q # p
    BY <1>2, <1>7, <2>1, SkipDoes
  <2>2. CASE q = p
    <3>1. /\ tx'[q].read = tx[q].read /\ tx'[q].fresh = tx[q].fresh /\ tx'[q].window = tx[q].window
          /\ tx'[q].wrote = tx[q].wrote /\ tx'[q].rolling = tx[q].rolling /\ tx'[q].pc = "train"
      BY <1>7, <2>2, SkipDoes
    <3>2. \A n \in Model : Crowning(q, n)' => Crowning(q, n)
      BY <3>1 DEF Crowning
    <3> QED BY <1>1, <3>1, <3>2
  <2> QED BY <2>1, <2>2
<1>8. ASSUME NEW p \in Proc, Train(p)
      PROVE  FreshIsOfTheRead(q, t)' /\ CrownedPasses(q, t)'
  <2>1. PICK u \in Targets, scores \in Profiles, x \in Scores \cup {None} :
    /\ u \in tx[p].todo
    /\ tx'[p].fresh = [tx[p].fresh EXCEPT ![u] = x]
    /\ x # None => /\ tx[p].read[u] # None
                   /\ x = score'[files'[tx[p].read[u]]][tx[p].window]
    /\ tx'[p].pc = "train"
    /\ tx'[p].read = tx[p].read /\ tx'[p].wrote = tx[p].wrote
    /\ tx'[p].rolling = tx[p].rolling /\ tx'[p].window = tx[p].window
    /\ \A r \in Proc : r # p => tx'[r] = tx[r]
    /\ UNCHANGED <<versions, twins>>
    BY <1>8, TrainWrites
  <2>2. CASE q # p
    BY <1>2, <2>1, <2>2
  <2>3. CASE q = p /\ u # t
    <3>1. tx'[q].fresh[t] = tx[q].fresh[t]
      <4>1. tx[p].fresh \in [Targets -> Scores \cup {None}]
        BY <1>0, TxType
      <4> QED BY <2>1, <2>3, <4>1
    <3>2. \A n \in Model : Crowning(q, n)' => Crowning(q, n)
      BY <2>1, <2>3 DEF Crowning
    <3> QED BY <2>1, <2>3, <3>1, <3>2, FreshKept, PassedKept
  <2>4. CASE q = p /\ u = t
    <3>1. tx'[q].fresh[t] = x
      <4>1. tx[p].fresh \in [Targets -> Scores \cup {None}]
        BY <1>0, TxType
      <4> QED BY <2>1, <2>4, <4>1
    <3>2. \A n \in Model : tx[q].wrote[n] # None => tx[q].wrote[n].target # t
      <4>1. \A n \in Model : tx[q].wrote[n] # None => tx[q].wrote[n].target \notin tx[q].todo
        BY DEF RegistryInv, Stages, Staged
      <4> QED BY <2>1, <2>4, <4>1
    <3>3. CrownedPasses(q, t)'
      BY <2>1, <2>4, <3>2 DEF CrownedPasses, Crowning
    <3>4. FreshIsOfTheRead(q, t)'
      BY <1>0, <2>1, <2>4, <3>1 DEF FreshIsOfTheRead, Champions
    <3> QED BY <3>3, <3>4
  <2> QED BY <2>2, <2>3, <2>4
<1>9. ASSUME NEW p \in Proc, Judge(p)
      PROVE  FreshIsOfTheRead(q, t)' /\ CrownedPasses(q, t)'
  <2>1. PICK u \in Targets, made \in Model, metrics \in Scores, promote \in BOOLEAN :
    /\ u \in tx[p].todo /\ made = tx[p].made[u] /\ Challenger(p, u, metrics) \in Row
    /\ promote <=> \/ Champion(View(p), u) = None
                   \/ Passes(metrics, Baseline(p, u, Champion(View(p), u)))
    /\ tx'[p].wrote = [tx[p].wrote EXCEPT ![made] = Challenger(p, u, metrics)]
    /\ tx'[p].version = IF promote THEN made ELSE None
    /\ tx'[p].pc = IF promote THEN "promote" ELSE "train"
    /\ tx'[p].rolling = tx[p].rolling
    /\ tx'[p].read = tx[p].read /\ tx'[p].fresh = tx[p].fresh /\ tx'[p].window = tx[p].window
    /\ \A r \in Proc : r # p => tx'[r] = tx[r]
    /\ tx[p].pc = "train" /\ versions' = versions
    BY <1>9, JudgeWrites
  <2>2. CASE q # p
    BY <1>2, <2>1, <2>2
  <2>3. CASE q = p
    <3>1. FreshIsOfTheRead(q, t)'
      BY <2>1, <2>3, FreshKept
    <3>2. \A n \in Model : tx'[q].wrote[n] = IF n = made THEN Challenger(p, u, metrics)
                                            ELSE tx[q].wrote[n]
      BY <1>0, <2>1, <2>3
    <3>3. /\ Challenger(p, u, metrics).target = u /\ Challenger(p, u, metrics).metrics = metrics
          /\ Challenger(p, u, metrics).status = "challenger"
      BY DEF Challenger
    <3>4. \A n \in Model : Crowning(q, n)' => (n = made /\ promote) \/ (n # made /\ Crowning(q, n))
      BY <2>1, <2>3, <3>2, <3>3 DEF Crowning
    <3>5. CASE u # t
      <4>1. \A n \in Model : Crowning(q, n)' /\ tx'[q].wrote[n].target = t =>
           /\ Crowning(q, n) /\ tx[q].wrote[n].target = t
           /\ tx'[q].wrote[n].metrics = tx[q].wrote[n].metrics
        BY <3>2, <3>3, <3>4, <3>5
      <4> QED BY <2>1, <2>3, <3>1, <4>1, PassedKept
    <3>6. CASE u = t
      <4>1. \A n \in Model : tx[q].wrote[n] # None => tx[q].wrote[n].target # t
        <5>1. \A n \in Model : tx[q].wrote[n] # None => tx[q].wrote[n].target \notin tx[q].todo
          BY DEF RegistryInv, Stages, Staged
        <5> QED BY <2>1, <2>3, <3>6, <5>1
      <4>2. ASSUME NEW n \in Model, Crowning(q, n)', tx'[q].wrote[n].target = t PROVE n = made /\ promote
        BY <3>2, <3>4, <4>1, <4>2 DEF Crowning
      <4>3. ASSUME promote, tx[q].read[t] # None
            PROVE  IF tx[q].fresh[t] # None THEN Passes(metrics, tx[q].fresh[t])
                   ELSE BeatsStored(metrics, t)
        <5>1. ~Holds(q, t)
          BY <4>1 DEF Holds
        <5>2. Champions(View(q), t) = Champions(versions, t) /\ Champions(versions, t) # {}
          BY <1>0, <4>3, <5>1, UnheldView DEF FreshIsOfTheRead
        <5> DEFINE c == Champion(View(q), t)
        <5>3. c \in Champions(versions, t) /\ c # None
          BY <5>2, ChampionFound
        <5>4. Passes(metrics, Baseline(q, t, c))
          BY <2>1, <2>3, <3>6, <4>3, <5>3
        <5>5. c \in Model /\ versions[c] # None /\ versions[c].target = t /\ versions[c].promoted > 0
          BY <5>3 DEF Champions, RegistryInv, ChampionsAreOrderly, Promoted
        <5> HIDE DEF c
        <5> QED BY <5>4, <5>5 DEF Baseline, BeatsStored
      <4>4. CrownedPasses(q, t)'
        <5> SUFFICES ASSUME NEW n \in Model, Crowning(q, n)', tx'[q].wrote[n].target = t,
                            tx'[q].read[t] # None
                     PROVE  IF tx'[q].fresh[t] # None
                            THEN Passes(tx'[q].wrote[n].metrics, tx'[q].fresh[t])
                            ELSE \E m \in Model :
                                   /\ versions'[m] # None /\ versions'[m].target = t
                                   /\ versions'[m].promoted > 0
                                   /\ Passes(tx'[q].wrote[n].metrics, versions'[m].metrics)
          BY DEF CrownedPasses, Passes, BeatsStored
        <5>1. n = made /\ promote /\ tx'[q].wrote[n].metrics = metrics
          BY <3>2, <3>3, <4>2
        <5>2. /\ tx'[q].read = tx[q].read /\ tx'[q].fresh = tx[q].fresh /\ versions' = versions
          BY <2>1, <2>3
        <5> QED BY <4>3, <5>1, <5>2 DEF BeatsStored
      <4> QED BY <3>1, <4>4
    <3> QED BY <3>5, <3>6
  <2> QED BY <2>2, <2>3
<1>10. ASSUME NEW p \in Proc, ReadCurrent(p)
       PROVE  FreshIsOfTheRead(q, t)' /\ CrownedPasses(q, t)'
  <2>1. CASE q # p
    BY <1>2, <1>10, <2>1, CurrentDoes
  <2>2. CASE q = p
    <3>1. /\ tx'[q].read = tx[q].read /\ tx'[q].fresh = tx[q].fresh /\ tx'[q].window = tx[q].window
          /\ tx'[q].wrote = tx[q].wrote /\ tx'[q].rolling = tx[q].rolling
          /\ tx'[q].pc = "crown" /\ tx[q].pc = "promote" /\ tx'[q].version = tx[q].version
      BY <1>10, <2>2, CurrentDoes
    <3>2. \A n \in Model : Crowning(q, n)' => Crowning(q, n)
      BY <3>1 DEF Crowning
    <3> QED BY <1>1, <3>1, <3>2
  <2> QED BY <2>1, <2>2
<1>11. ASSUME NEW p \in Proc, Crown(p)
       PROVE  FreshIsOfTheRead(q, t)' /\ CrownedPasses(q, t)'
  <2>1. CASE q # p
    BY <1>2, <1>11, <2>1, CrownWrites
  <2>2. CASE q = p
    <3>1. /\ tx'[q].read = tx[q].read /\ tx'[q].fresh = tx[q].fresh /\ tx'[q].window = tx[q].window
          /\ tx'[q].wrote = Enthroned(q) /\ tx'[q].rolling = tx[q].rolling
          /\ tx'[q].pc = "train" /\ tx[q].pc = "crown"
      BY <1>11, <2>2, CrownWrites DEF Crown
    <3>2. ASSUME NEW n \in Model, Crowning(q, n)'
          PROVE  /\ Crowning(q, n) /\ tx[q].wrote[n].target = tx'[q].wrote[n].target
                 /\ tx'[q].wrote[n].metrics = tx[q].wrote[n].metrics
      <4>0. ~tx[q].rolling /\ Enthroned(q)[n] # None /\ Enthroned(q)[n].status = "champion"
        BY <3>1, <3>2 DEF Crowning
      <4>1. CASE n = tx[q].version
        <5>1. Enthroned(q)[n] = [View(q)[n] EXCEPT !.status = "champion", !.promoted = promotions + 1]
          BY <4>1 DEF Enthroned
        <5>a. Staged(q)
          BY DEF RegistryInv, Stages
        <5>b. View(q)[n] # None /\ n = Made(q, TargetOf(q)) /\ n # None
          BY <3>1, <4>0, <4>1, <5>a DEF Staged
        <5>c. View(q) \in [Model -> Row \cup {None}]
          BY <1>0, ViewType
        <5>2. View(q)[n] \in Row /\ n = Made(q, TargetOf(q)) /\ n # None
          BY <5>b, <5>c
        <5>3. TargetOf(q) \in Targets
          BY <4>1, <5>2 DEF TargetOf, Row
        <5>4. versions[n] = None
          BY <5>2, <5>3 DEF RegistryInv, ModelsAreOwn
        <5>5. tx[q].wrote[n] # None /\ View(q)[n] = tx[q].wrote[n]
          BY <5>2, <5>4, RegistryAssumption DEF View
        <5>6. Enthroned(q)[n].target = View(q)[n].target /\ Enthroned(q)[n].metrics = View(q)[n].metrics
          BY <5>1, <5>2 DEF Row
        <5> QED BY <3>1, <4>0, <4>1, <5>5, <5>6 DEF Crowning
      <4>2. CASE n # tx[q].version /\ n = tx[q].current
        <5>1. Enthroned(q)[n] = [View(q)[n] EXCEPT !.status = "retired"]
          BY <4>2 DEF Enthroned
        <5>2. n # None
          BY RegistryAssumption DEF Model
        <5>a. Staged(q)
          BY DEF RegistryInv, Stages
        <5>b. View(q)[n] # None
          BY <3>1, <4>2, <5>2, <5>a DEF Staged
        <5>c. View(q) \in [Model -> Row \cup {None}]
          BY <1>0, ViewType
        <5>3. View(q)[n] \in Row
          BY <5>b, <5>c
        <5>4. Enthroned(q)[n].status = "retired"
          BY <5>1, <5>3 DEF Row
        <5> QED BY <4>0, <5>4
      <4>3. CASE n # tx[q].version /\ n # tx[q].current
        <5>1. Enthroned(q)[n] = tx[q].wrote[n]
          BY <4>3 DEF Enthroned
        <5> QED BY <3>1, <4>0, <5>1 DEF Crowning
      <4> QED BY <4>1, <4>2, <4>3
    <3> QED BY <3>1, <3>2, FreshKept, PassedKept
  <2> QED BY <2>1, <2>2
<1>12. ASSUME NEW p \in Proc, Commit(p)
       PROVE  FreshIsOfTheRead(q, t)' /\ CrownedPasses(q, t)'
  BY <1>2, <1>3, <1>12, CommitWrites
<1> QED BY <1>4, <1>5, <1>6, <1>7, <1>8, <1>9, <1>10, <1>11, <1>12 DEF Next, Retrain, Promote

\* An empty registry and nothing running.
LEMMA InvInit == Init => RegistryInv
<1> SUFFICES ASSUME Init PROVE RegistryInv
  OBVIOUS
<1>1. TypeOK
  BY TypeInit
<1>2. /\ \A n \in Model : versions[n] = None
      /\ \A f \in Path : files[f] = None
      /\ \A n \in Model : ~ (n <= trained)
      /\ clock = 0 /\ promotions = 0
  BY DEF Init, NoRows, Model
<1>3. \A p \in Proc :
        /\ tx[p] = Idle /\ tx[p].pc = "idle" /\ tx[p].todo = {} /\ tx[p].rolling = FALSE
        /\ tx[p].stamp = 0 /\ tx[p].window = 0 /\ tx[p].made = Idle.made
        /\ \A n \in Model : tx[p].wrote[n] = None
        /\ \A t \in Targets : Made(p, t) = None /\ tx[p].read[t] = None /\ tx[p].fresh[t] = None
  BY DEF Init, Idle, NoRows, Made
<1>4. \A p \in Proc, n \in Model : View(p)[n] = None
  BY <1>2, <1>3 DEF View
<1>5. \A p \in Proc, t \in Targets : ~Holds(p, t)
  BY <1>3 DEF Holds
<1>6. ArtifactIsTheVersions /\ ModelsAreOwn /\ WritesAreRows
  BY <1>2, <1>3 DEF ArtifactIsTheVersions, ModelsAreOwn, WritesAreRows
<1>7. Stages
  <2> SUFFICES ASSUME NEW p \in Proc PROVE Staged(p)
    BY DEF Stages
  <2>1. tx[p] = [Idle EXCEPT !.pc = tx[p].pc, !.window = tx[p].window, !.todo = tx[p].todo]
    BY <1>3 DEF Idle
  <2> QED BY <1>3, <2>1 DEF Staged
<1>8. ChampionsAreOrderly
  BY <1>2, <1>3, <1>4, <1>5 DEF ChampionsAreOrderly, Promoted, Orderly, Champions
<1>9. ClaimsAreOwn
  <2>1. \A p \in Proc : Claims(p) = {}
    BY <1>3 DEF Claims
  <2> QED BY <1>2, <1>3, <2>1 DEF ClaimsAreOwn
<1>10. GateIsPassed
  BY <1>3 DEF GateIsPassed, FreshIsOfTheRead, CrownedPasses
<1> QED BY <1>1, <1>6, <1>7, <1>8, <1>9, <1>10 DEF RegistryInv

-----------------------------------------------------------------------------
\* What every state of the registry satisfies, for any processes, targets, models
\* and bounds: one champion to a target in the table and in what every open
\* transaction would make of it, artifacts that are their versions', and a gate
\* that whoever is about to be crowned has passed.
THEOREM RegistryInvariant == Spec => []RegistryInv
<1>1. RegistryInv /\ [Next]_vars => RegistryInv'
  BY TypeStep, ArtifactStep, ModelsStep, WritesStep, StagesStep, ChampionsStep, ClaimsStep,
     GateStep DEF RegistryInv
<1> QED BY InvInit, <1>1, PTL DEF Spec

\* get_champion never meets two champions, and a target that has one is never
\* without, whatever runs collide or die between retiring and crowning.
THEOREM ChampionIsKept == Spec => OneChampionKept
<1> DEFINE Kept == \A t \in Targets : Champions(versions, t) # {} =>
                     Cardinality(Champions(versions', t)) = 1
<1>1. RegistryInv /\ [Next]_vars => [Kept]_vars
  <2> SUFFICES ASSUME RegistryInv, [Next]_vars, NEW t \in Targets, Champions(versions, t) # {}
               PROVE  Cardinality(Champions(versions', t)) = 1
    OBVIOUS
  <2>1. Orderly(versions', t)
    BY ChampionsStep DEF ChampionsAreOrderly, Orderly, Champions
  <2>2. PICK n : n \in Champions(versions', t)
    BY TableKept
  <2>3. Champions(versions', t) = {n}
    BY <2>1, <2>2, OneChampion
  <2> QED BY <2>3, FS_Singleton
<1> QED BY RegistryInvariant, <1>1, PTL DEF Spec, OneChampionKept

\* "Deterministic and reversible": what a rollback deposed is what the next one
\* restores, whichever versions were promoted, retired or rolled back before.
THEOREM RollbacksReverse == Spec => RollbackReversible
<1> DEFINE Reverses ==
      \A p \in Proc, t \in Targets :
        LET old == Champion(versions, t)
        IN  (Commit(p) /\ tx[p].rolling /\ old # None /\ Champion(versions', t) # old) =>
              Previous(versions', t) = old
<1>1. RegistryInv /\ [Next]_vars => [Reverses]_vars
  <2> SUFFICES ASSUME RegistryInv, NEW p \in Proc, NEW t \in Targets, Commit(p), tx[p].rolling,
                      Champion(versions, t) # None,
                      Champion(versions', t) # Champion(versions, t)
               PROVE  Previous(versions', t) = Champion(versions, t)
    OBVIOUS
  <2> DEFINE old == Champion(versions, t)
             new == Champion(View(p), t)
  <2>0. /\ TypeOK /\ versions' = View(p) /\ View(p) \in [Model -> Row \cup {None}]
        /\ Orderly(versions, t) /\ Orderly(View(p), t)
    BY CommitWrites, ViewType DEF RegistryInv, ChampionsAreOrderly
  <2>1. Holds(p, t)
    <3>1. SUFFICES ASSUME ~Holds(p, t) PROVE FALSE
      OBVIOUS
    <3>2. Champions(View(p), t) = Champions(versions, t)
      BY <3>1, UnheldView
    <3> QED BY <2>0, <3>2 DEF Champion
  <2>2. old \in Champions(versions, t) /\ new \in Champions(View(p), t) /\ new # old
    <3>1. Champions(View(p), t) # {}
      BY <2>1 DEF RegistryInv, ChampionsAreOrderly
    <3> QED BY <2>0, <3>1, ChampionFound
  <2>3. /\ old \in Model /\ versions[old] # None /\ versions[old].target = t
        /\ versions[old].status = "champion" /\ versions[old].promoted > 0
        /\ new \in Model /\ View(p)[new] # None /\ View(p)[new].target = t
    BY <2>2 DEF Champions, RegistryInv, ChampionsAreOrderly, Promoted
  <2> HIDE DEF old, new
  <2>4. \A u \in Targets : Made(p, u) = None
    <3>1. Staged(p)
      BY DEF RegistryInv, Stages
    <3> QED BY <3>1 DEF Staged, Idle, Made
  <2>5. ASSUME NEW m \in Model, View(p)[m] # None, View(p)[m].status = "retired"
        PROVE  /\ versions[m] # None /\ versions[m].target = View(p)[m].target
               /\ versions[m].promoted = View(p)[m].promoted
    <3>1. CASE tx[p].wrote[m] = None
      BY <2>5, <3>1 DEF View
    <3>2. CASE tx[p].wrote[m] # None
      <4>1. WritesRow(p, m) /\ View(p)[m] = tx[p].wrote[m] /\ View(p)[m].target \in Targets
        BY <2>0, <2>5, <3>2 DEF RegistryInv, WritesAreRows, View, Row
      <4>2. m # None
        BY RegistryAssumption DEF Model
      <4> QED BY <2>4, <2>5, <4>1, <4>2 DEF WritesRow
    <3> QED BY <3>1, <3>2
  <2>6. View(p)[old] # None /\ View(p)[old].target = t /\ View(p)[old].status = "retired"
    <3>1. View(p)[old] # None /\ View(p)[old].target = t
      <4>1. View(p)[old] # None
        BY <2>3 DEF View
      <4> QED BY <2>3, <4>1, CommittedRow
    <3>2. View(p)[old].status # "champion"
      BY <2>0, <2>2, <2>3, <3>1 DEF Orderly
    <3>3. tx[p].wrote[old] # None /\ View(p)[old] = tx[p].wrote[old]
      BY <2>3, <3>2 DEF View
    <3>4. View(p)[old].status # "challenger"
      BY <2>3, <3>3 DEF RegistryInv, WritesAreRows, WritesRow
    <3>5. View(p)[old].status \in Statuses
      BY <2>0, <2>3, <3>1 DEF Row
    <3> QED BY <3>1, <3>2, <3>4, <3>5 DEF Statuses
  <2>7. old \in Retired(View(p), t)
    BY <2>3, <2>5, <2>6 DEF Retired
  <2>8. ASSUME NEW m \in Retired(View(p), t), m # old
        PROVE  View(p)[m].promoted < View(p)[old].promoted
    <3>1. m \in Model /\ View(p)[m] # None /\ View(p)[m].target = t /\ View(p)[m].status = "retired"
      BY <2>8 DEF Retired
    <3>2. /\ versions[m] # None /\ versions[m].target = t
          /\ versions[m].promoted = View(p)[m].promoted
          /\ versions[old].promoted = View(p)[old].promoted
      BY <2>3, <2>5, <2>6, <3>1
    <3> QED BY <2>0, <2>2, <2>8, <3>1, <3>2 DEF Orderly
  <2>9. \A m \in Retired(View(p), t) : View(p)[m].promoted \in Nat
    BY <2>0 DEF Retired, Row
  <2> DEFINE Last(n) == \A m \in Retired(View(p), t) : View(p)[m].promoted <= View(p)[n].promoted
  <2>10. Last(old) /\ \A n \in Retired(View(p), t) : Last(n) => n = old
    BY <2>7, <2>8, <2>9
  <2>11. (CHOOSE n \in Retired(View(p), t) : Last(n)) = old
    <3> HIDE DEF Last
    <3> QED BY <2>7, <2>10
  <2> QED BY <2>0, <2>7, <2>11 DEF Previous, Retired, old
<1> QED BY RegistryInvariant, <1>1, PTL DEF Spec, RollbackReversible

\* maybe_promote "compares like with like": the challenger that replaces the
\* champion its run read was better on that run's window, or, where the champion
\* could not be scored, better than the stored metrics of one that had been.
THEOREM BetterReplaces == Spec => ReplacedByABetter
<1> DEFINE Better ==
      \A p \in Proc, t \in Targets :
        LET old == Champion(versions, t)
            new == Champion(versions', t)
        IN  (/\ Commit(p) /\ ~tx[p].rolling /\ ~twins
             /\ old # None /\ new # old /\ tx[p].read[t] = versions[old].file) =>
              IF tx[p].fresh[t] # None
              THEN Passes(versions'[new].metrics, score[old][tx[p].window])
              ELSE BeatsStored(versions'[new].metrics, t)
<1>1. RegistryInv /\ [Next]_vars => [Better]_vars
  <2> SUFFICES ASSUME RegistryInv, [Next]_vars, NEW p \in Proc, NEW t \in Targets,
                      NEW old, old = Champion(versions, t), NEW new, new = Champion(versions', t),
                      Commit(p), ~tx[p].rolling, ~twins, old # None, new # old,
                      tx[p].read[t] = versions[old].file
               PROVE  IF tx[p].fresh[t] # None
                      THEN Passes(versions'[new].metrics, score[old][tx[p].window])
                      ELSE BeatsStored(versions'[new].metrics, t)
    OBVIOUS
  <2>1. /\ TypeOK /\ versions' = View(p) /\ Orderly(versions, t)
        /\ FreshIsOfTheRead(p, t) /\ CrownedPasses(p, t)
    BY CommitWrites DEF RegistryInv, ChampionsAreOrderly, GateIsPassed
  <2>2. old \in Champions(versions, t)
    BY ChampionFound
  <2>3. new \in Champions(View(p), t)
    BY <2>1, <2>2, TableKept, ChampionFound
  <2>4. /\ new \in Model /\ View(p)[new] # None /\ View(p)[new].target = t
        /\ View(p)[new].status = "champion"
    BY <2>3 DEF Champions
  <2>5. new \notin Champions(versions, t)
    BY <2>1, <2>2, OneChampion
  <2>6. tx[p].wrote[new] # None /\ View(p)[new] = tx[p].wrote[new]
    BY <2>4, <2>5 DEF View, Champions
  <2>7. Crowning(p, new)
    BY <2>4, <2>6 DEF Crowning
  <2>8. /\ old \in Model /\ versions[old] # None /\ tx[p].read[t] # None
        /\ files[versions[old].file] = old
    <3>1. old \in Model /\ versions[old] # None
      BY <2>2 DEF Champions
    <3>2. versions[old].file \in Path
      BY <2>1, <3>1 DEF TypeOK, Row
    <3> QED BY <3>1, <3>2, RegistryAssumption DEF RegistryInv, ArtifactIsTheVersions
  <2>9. IF tx[p].fresh[t] # None THEN Passes(tx[p].wrote[new].metrics, tx[p].fresh[t])
        ELSE BeatsStored(tx[p].wrote[new].metrics, t)
    BY <2>1, <2>4, <2>6, <2>7, <2>8 DEF CrownedPasses
  <2>10. tx[p].fresh[t] # None => tx[p].fresh[t] = score[old][tx[p].window]
    BY <2>1, <2>8 DEF FreshIsOfTheRead
  <2> QED BY <2>1, <2>6, <2>9, <2>10
<1> QED BY RegistryInvariant, <1>1, PTL DEF Spec, ReplacedByABetter
=============================================================================

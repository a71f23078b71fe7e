------------------------------ MODULE ClvProofs ------------------------------
(***************************************************************************)
(* CLV records are final, closed before kickoff and labelled by confirmed  *)
(* results: for any matches, predictions, kickoffs, limits and bounds, and *)
(* any interleaving of the run's statements with the feeds.                *)
(***************************************************************************)
EXTENDS Clv, WellFoundedInduction, TLAPS

\* A set of times has a last one.
LEMMA LastTime ==
  ASSUME NEW S, S \subseteq Time, S # {}
  PROVE  \E i \in S : \A j \in S : j <= i
<1> USE ClvAssumption DEF Time
<1> DEFINE Left == {n \in Nat : \E i \in S : i + n = MaxTime}
<1>1. Left \subseteq Nat /\ \A i \in S : MaxTime - i \in Left
  OBVIOUS
<1>2. \E n \in Left : \A m \in Left : ~ (<<m, n>> \in OpToRel(<, Nat))
  <2>1. Left # {}
    BY <1>1
  <2> HIDE DEF Left
  <2> QED BY <1>1, <2>1, NatLessThanWellFounded, WFMin
<1>3. PICK n \in Left : \A m \in Left : n <= m
  <2>1. PICK n \in Left : \A m \in Left : ~ (<<m, n>> \in OpToRel(<, Nat))
    BY <1>2
  <2>2. SUFFICES ASSUME NEW m \in Left, m < n PROVE FALSE
    OBVIOUS
  <2>3. <<m, n>> \in OpToRel(<, Nat)
    BY <2>2 DEF OpToRel
  <2> QED BY <2>1, <2>3
<1>4. PICK i \in S : i + n = MaxTime
  BY <1>3
<1>5. ASSUME NEW j \in S PROVE j <= i
  BY <1>1, <1>3, <1>4, <1>5
<1> QED BY <1>5

\* An outcome has a label.
LEMMA LabelType == ASSUME NEW r \in Result PROVE Label1x2(r) \in Outcomes
BY DEF Label1x2, Result, Outcomes

\* The close that is looked up is a snapshot of before the kickoff, which was
\* captured by now.
LEMMA CloseIsBehind ==
  ASSUME TypeOK, CapturesAreBehind, NEW m \in Match
  PROVE  HkjcClose(m) \in Closing \cup {None} /\ Behind(HkjcClose(m), m)
<1>1. CASE PreMatch(m) = {}
  BY <1>1 DEF HkjcClose, Behind
<1>2. CASE PreMatch(m) # {}
  <2> DEFINE last == CHOOSE i \in PreMatch(m) : \A j \in PreMatch(m) : j <= i
  <2>1. PreMatch(m) \subseteq Time
    BY DEF PreMatch
  <2>2. last \in PreMatch(m)
    BY <1>2, <2>1, LastTime
  <2>3. last \in Time /\ last < kickoff[m] /\ last <= clock
    BY <2>2 DEF PreMatch, CapturesAreBehind
  <2>4. HkjcClose(m) = None \/ HkjcClose(m) = [source |-> "hkjc", captured |-> last]
    BY <1>2 DEF HkjcClose
  <2> HIDE DEF last
  <2> QED BY <2>3, <2>4 DEF Behind, Closing
<1> QED BY <1>1, <1>2

\* So is what a run closes a record with.
LEMMA ClosingOfIsBehind ==
  ASSUME TypeOK, CapturesAreBehind, NEW m \in Match
  PROVE  ClosingOf(m) \in Closing \cup {None} /\ Behind(ClosingOf(m), m)
<1>1. tx.had[m] \in Closing \cup {None} /\ Behind(tx.had[m], m)
  <2>1. tx.had \in [Match -> Closing \cup {None}]
    BY DEF TypeOK
  <2>2. tx.had[m] \in Closing \cup {None}
    BY <2>1
  <2>3. Behind(tx.had[m], m)
    BY DEF CapturesAreBehind
  <2> QED BY <2>2, <2>3
<1> QED BY <1>1 DEF ClosingOf, Behind, Closing

-----------------------------------------------------------------------------
\* Type correctness.
LEMMA TypeInit == Init => TypeOK
BY ClvAssumption DEF Init, TypeOK, NoRun, NoLabels, Time, Payloads

\* It takes that captures are behind: a close that is looked up exists.
LEMMA TypeStep == ClvInv /\ [Next]_vars => TypeOK'
<1> SUFFICES ASSUME ClvInv, [Next]_vars PROVE TypeOK'
  OBVIOUS
<1> USE ClvAssumption DEF TypeOK, ClvInv
<1>1. CASE Tick
  BY <1>1 DEF Tick, Time
<1>2. CASE Feeds
  <2>1. CASE StartFetch
    BY <2>1 DEF StartFetch, Time
  <2>2. CASE StoreOdds
    <3>1. fetch \in Time
      BY <2>2 DEF StoreOdds
    <3>2. PICK shown \in [Match -> Payloads] :
            quotes' = [m \in Match |-> [quotes[m] EXCEPT ![fetch] = shown[m]]]
      BY <2>2 DEF StoreOdds
    <3>3. quotes' \in [Match -> [Time -> Payloads]]
      BY <3>1, <3>2
    <3> QED BY <2>2, <3>3 DEF StoreOdds
  <2>3. ASSUME NEW i \in Prediction, Predict(i) PROVE TypeOK'
    BY <2>3 DEF Predict
  <2>4. ASSUME NEW m \in Match, Backfill(m) \/ CallOff(m) PROVE TypeOK'
    BY <2>4 DEF Backfill, CallOff
  <2>5. ASSUME NEW m \in Match, NEW k \in Kickoffs, Reschedule(m, k) PROVE TypeOK'
    BY <2>5 DEF Reschedule
  <2>6. ASSUME NEW m \in Match, NEW r \in Result, PublishResult(m, r) PROVE TypeOK'
    BY <2>6, LabelType DEF PublishResult
  <2>7. \A score \in Scores, confirmed \in BOOLEAN :
          [home |-> score.home, away |-> score.away, confirmed |-> confirmed] \in Result
    BY DEF Result
  <2> QED BY <1>2, <2>1, <2>2, <2>3, <2>4, <2>5, <2>6, <2>7 DEF Feeds
<1>3. CASE BackfillLabels
  <2>1. \A i \in Unlabelled : Label1x2(result[MatchOf[i]]) \in Outcomes
    BY LabelType DEF Unlabelled, Recorded, Confirmed
  <2> QED BY <1>3, <2>1 DEF BackfillLabels, NoRun, NoLabels, world
<1>4. CASE SelectWork
  <2>1. \A i \in Prediction : Confirmed(MatchOf[i]) => Label1x2(result[MatchOf[i]]) \in Outcomes
    BY LabelType DEF Confirmed
  <2>2. Work \subseteq Prediction
    BY DEF Work, Pending
  <2> QED BY <1>4, <2>1, <2>2 DEF SelectWork, world
<1>5. CASE ReadHkjc
  BY <1>5, CloseIsBehind DEF ReadHkjc, world
<1>6. CASE InsertRecords
  <2>1. \A m \in Match : ClosingOf(m) \in Closing \cup {None}
    BY ClosingOfIsBehind
  <2>2. \A i \in Inserted : ClosingOf(MatchOf[i]) \in Closing
    BY <2>1 DEF Inserted
  <2>3. records' \in [Prediction -> Record \cup {None}]
    BY <1>6, <2>2 DEF InsertRecords, Record
  <2> QED BY <1>6, <2>3 DEF InsertRecords, world, NoRun, NoLabels
<1>7. CASE Fail
  BY <1>7 DEF Fail, world, NoRun, NoLabels
<1>8. CASE UNCHANGED vars
  BY <1>8 DEF vars, world
<1> QED BY <1>1, <1>2, <1>3, <1>4, <1>5, <1>6, <1>7, <1>8 DEF Next, ClvUpdate
-----------------------------------------------------------------------------
\* Nothing is recorded yet.
LEMMA InvInit == Init => ClvInv
<1> SUFFICES ASSUME Init PROVE ClvInv
  OBVIOUS
<1>1. TypeOK
  BY TypeInit
<1>2. CapturesAreBehind /\ RunIsFresh
  BY DEF Init, CapturesAreBehind, RunIsFresh, Behind, Recorded, Confirmed, NoRun, NoLabels
<1>3. ClosingIsPreKickoff /\ LabelIsConfirmed
  BY DEF Init, ClosingIsPreKickoff, LabelIsConfirmed, Labelled, Recorded
<1> QED BY <1>1, <1>2, <1>3 DEF ClvInv

\* Captures stay behind: a kickoff moves to a time that is still to come.
LEMMA CapturesStep == ClvInv /\ [Next]_vars => CapturesAreBehind'
<1> SUFFICES ASSUME ClvInv, [Next]_vars PROVE CapturesAreBehind'
  OBVIOUS
<1> USE ClvAssumption DEF ClvInv, Behind, Recorded
<1>a. clock \in Nat /\ (fetch # None => fetch \in Nat) /\ Kickoffs \subseteq Nat
  BY DEF TypeOK, Time
<1>b. \A m \in Match : tx.had[m] # None /\ tx.had[m].source = "hkjc" => tx.had[m].captured \in Nat
  <2>1. tx.had \in [Match -> Closing \cup {None}]
    BY DEF TypeOK
  <2> QED BY <2>1 DEF Closing, Time
<1>c. \A i \in Recorded : records[i].closing.source = "hkjc" => records[i].closing.captured \in Nat
  BY DEF TypeOK, Record, Closing, Time
<1>1. CASE Tick
  BY <1>1, <1>a, <1>b, <1>c DEF Tick, CapturesAreBehind, TypeOK, Time
<1>2. CASE Feeds
  <2>1. CASE StartFetch
    BY <2>1, <1>a DEF StartFetch, CapturesAreBehind
  <2>2. CASE StoreOdds
    <3>1. fetch \in Time /\ fetch <= clock
      BY <2>2 DEF StoreOdds, TypeOK, CapturesAreBehind
    <3>2. PICK shown \in [Match -> Payloads] :
            quotes' = [m \in Match |-> [quotes[m] EXCEPT ![fetch] = shown[m]]]
      BY <2>2 DEF StoreOdds
    <3>3. \A m \in Match, i \in Time : quotes'[m][i] # "none" => i <= clock
      BY <3>1, <3>2 DEF TypeOK, CapturesAreBehind
    <3> QED BY <2>2, <3>3 DEF StoreOdds, CapturesAreBehind
  <2>3. ASSUME NEW i \in Prediction, Predict(i) PROVE CapturesAreBehind'
    BY <2>3 DEF Predict, CapturesAreBehind
  <2>4. ASSUME NEW m \in Match, Backfill(m) \/ CallOff(m) PROVE CapturesAreBehind'
    BY <2>4 DEF Backfill, CallOff, CapturesAreBehind
  <2>5. ASSUME NEW m \in Match, NEW k \in Kickoffs, Reschedule(m, k) PROVE CapturesAreBehind'
    <3>1. /\ kickoff' = [kickoff EXCEPT ![m] = k] /\ k > clock /\ clock' = clock
          /\ quotes' = quotes /\ fetch' = fetch /\ records' = records /\ tx' = tx
      BY <2>5 DEF Reschedule
    <3>2. \A n \in Match : Behind(tx.had[n], n)'
      BY <3>1, <1>a, <1>b DEF TypeOK, CapturesAreBehind
    <3>3. \A i \in Recorded : Behind(records[i].closing, MatchOf[i])'
      BY <3>1, <1>a, <1>c DEF TypeOK, CapturesAreBehind
    <3> QED BY <3>1, <3>2, <3>3 DEF CapturesAreBehind
  <2>6. ASSUME NEW m \in Match, NEW r, PublishResult(m, r) PROVE CapturesAreBehind'
    BY <2>6 DEF PublishResult, CapturesAreBehind
  <2> QED BY <1>2, <2>1, <2>2, <2>3, <2>4, <2>5, <2>6 DEF Feeds
<1>3. CASE BackfillLabels \/ SelectWork
  <2>1. \A m \in Match : tx'.had[m] = None \/ tx'.had[m] = tx.had[m]
    <3>1. BackfillLabels => tx'.had = [m \in Match |-> None]
      BY DEF BackfillLabels, NoRun
    <3>2. SelectWork => tx'.had = tx.had
      BY DEF SelectWork, TypeOK
    <3> QED BY <1>3, <3>1, <3>2
  <2>2. UNCHANGED <<world, records>>
    BY <1>3 DEF BackfillLabels, SelectWork
  <2> QED BY <2>1, <2>2 DEF world, CapturesAreBehind
<1>4. CASE ReadHkjc
  <2>1. \A m \in Match : Behind(HkjcClose(m), m)
    BY CloseIsBehind
  <2> QED BY <1>4, <2>1 DEF ReadHkjc, world, CapturesAreBehind, TypeOK
<1>5. CASE InsertRecords
  <2>1. \A m \in Match : Behind(ClosingOf(m), m)
    BY ClosingOfIsBehind
  <2>2. \A i \in Recorded' : Behind(records'[i].closing, MatchOf[i])
    BY <1>5, <2>1 DEF InsertRecords, Inserted, CapturesAreBehind, TypeOK, Record
  <2> QED BY <1>5, <2>2 DEF InsertRecords, NoRun, world, CapturesAreBehind
<1>6. CASE Fail
  BY <1>6 DEF Fail, NoRun, world, CapturesAreBehind
<1>7. CASE UNCHANGED vars
  BY <1>7 DEF vars, world, CapturesAreBehind
<1> QED BY <1>1, <1>2, <1>3, <1>4, <1>5, <1>6, <1>7 DEF Next, ClvUpdate

\* What a run is about to write stays good: only itself writes records, and what
\* was confirmed once stays known.
LEMMA RunStep == ClvInv /\ [Next]_vars => RunIsFresh'
<1> SUFFICES ASSUME ClvInv, [Next]_vars PROVE RunIsFresh'
  OBVIOUS
<1> USE ClvAssumption DEF ClvInv, Recorded, Confirmed, RunIsFresh
<1>1. CASE Tick
  BY <1>1 DEF Tick
<1>2. CASE Feeds
  <2>1. CASE StartFetch \/ StoreOdds
    BY <2>1 DEF StartFetch, StoreOdds
  <2>2. ASSUME NEW i \in Prediction, Predict(i) PROVE RunIsFresh'
    BY <2>2 DEF Predict
  <2>3. ASSUME NEW m \in Match, Backfill(m) \/ CallOff(m) \/ \E k \in Kickoffs : Reschedule(m, k)
        PROVE  RunIsFresh'
    BY <2>3 DEF Backfill, CallOff, Reschedule
  <2>4. ASSUME NEW m \in Match, NEW r \in Result, PublishResult(m, r) PROVE RunIsFresh'
    <3>1. /\ result' = [result EXCEPT ![m] = r] /\ records' = records /\ tx' = tx
          /\ seen' = [seen EXCEPT ![m] = IF r.confirmed THEN @ \cup {Label1x2(r)} ELSE @]
      BY <2>4 DEF PublishResult
    <3>2. \A n \in Match : seen[n] \subseteq seen'[n]
      BY <3>1 DEF TypeOK
    <3>3. \A n \in Match : (Confirmed(n) => Label1x2(result[n]) \in seen[n])'
      BY <3>1, <3>2 DEF TypeOK
    <3> QED BY <3>1, <3>2, <3>3
  <2>5. \A score \in Scores, confirmed \in BOOLEAN :
          [home |-> score.home, away |-> score.away, confirmed |-> confirmed] \in Result
    BY DEF Result
  <2> QED BY <1>2, <2>1, <2>2, <2>3, <2>4, <2>5 DEF Feeds
<1>3. CASE BackfillLabels
  BY <1>3 DEF BackfillLabels, NoRun, world, Unlabelled
<1>4. CASE SelectWork
  <2>1. \A i \in Work : records[i] = None
    BY DEF Work, Pending
  <2> QED BY <1>4, <2>1 DEF SelectWork, world, TypeOK
<1>5. CASE ReadHkjc
  BY <1>5 DEF ReadHkjc, world
<1>6. CASE InsertRecords \/ Fail
  BY <1>6 DEF InsertRecords, Fail, NoRun, NoLabels, world
<1>7. CASE UNCHANGED vars
  BY <1>7 DEF vars, world
<1> QED BY <1>1, <1>2, <1>3, <1>4, <1>5, <1>6, <1>7 DEF Next, ClvUpdate

\* What an INSERT or UPDATE of a run does to the records.
LEMMA RecordsChange ==
  ASSUME ClvInv, InsertRecords
  PROVE  \A i \in Prediction :
           /\ records[i] # None =>
                /\ records'[i] # None /\ records'[i].closing = records[i].closing
                /\ \/ records'[i].label = records[i].label
                   \/ records[i].label = None /\ records'[i].label = tx.labels[i]
           /\ records[i] = None /\ records'[i] # None => records'[i].label = tx.labels[i]
<1> SUFFICES ASSUME NEW i \in Prediction
             PROVE  /\ records[i] # None =>
                         /\ records'[i] # None /\ records'[i].closing = records[i].closing
                         /\ \/ records'[i].label = records[i].label
                            \/ records[i].label = None /\ records'[i].label = tx.labels[i]
                    /\ records[i] = None /\ records'[i] # None => records'[i].label = tx.labels[i]
  OBVIOUS
<1> USE ClvAssumption DEF ClvInv
<1>1. CASE records[i] # None
  <2>1. i \notin Inserted /\ records[i] \in Record
    BY <1>1 DEF Inserted, RunIsFresh, Recorded, TypeOK
  <2>2. records'[i] = IF tx.labels[i] # None THEN [records[i] EXCEPT !.label = tx.labels[i]]
                      ELSE records[i]
    BY <1>1, <2>1 DEF InsertRecords
  <2>3. tx.labels[i] # None => records[i].label = None
    BY <1>1 DEF RunIsFresh, Recorded
  <2>4. tx.labels[i] \in Outcomes \cup {None}
    BY DEF TypeOK
  <2>5. records'[i] \in Record
    BY <2>1, <2>2, <2>4 DEF Record
  <2> QED BY <1>1, <2>1, <2>2, <2>3, <2>5 DEF Record
<1>2. CASE records[i] = None
  BY <1>2 DEF InsertRecords
<1> QED BY <1>1, <1>2

\* Nothing else writes records.
LEMMA RecordsOnlyByInsert == [Next]_vars /\ ~InsertRecords => UNCHANGED records
BY DEF Next, Tick, Feeds, StartFetch, StoreOdds, Predict, Backfill, CallOff, Reschedule,
       PublishResult, ClvUpdate, BackfillLabels, SelectWork, ReadHkjc, Fail, vars, world

\* What a match has had confirmed is never forgotten.
LEMMA SeenGrows == ClvInv /\ [Next]_vars => \A m \in Match : seen[m] \subseteq seen'[m]
<1> SUFFICES ASSUME ClvInv, [Next]_vars PROVE \A m \in Match : seen[m] \subseteq seen'[m]
  OBVIOUS
<1>1. ASSUME NEW m \in Match, NEW r, PublishResult(m, r)
      PROVE  \A n \in Match : seen[n] \subseteq seen'[n]
  BY <1>1 DEF PublishResult, ClvInv, TypeOK
<1>2. CASE UNCHANGED seen
  BY <1>2
<1> QED
  BY <1>1, <1>2 DEF Next, Tick, Feeds, StartFetch, StoreOdds, Predict, Backfill, CallOff,
     Reschedule, ClvUpdate, BackfillLabels, SelectWork, ReadHkjc, InsertRecords, Fail, vars, world

\* So a label stays the outcome of a result that was confirmed once.
LEMMA LabelStep == ClvInv /\ [Next]_vars => LabelIsConfirmed'
<1> SUFFICES ASSUME ClvInv, [Next]_vars PROVE LabelIsConfirmed'
  OBVIOUS
<1> USE ClvAssumption DEF ClvInv, LabelIsConfirmed, Labelled, Recorded
<1>1. \A m \in Match : seen[m] \subseteq seen'[m]
  BY SeenGrows
<1>2. CASE InsertRecords
  <2>1. \A i \in Prediction : tx.labels[i] # None => tx.labels[i] \in seen[MatchOf[i]]
    BY DEF RunIsFresh
  <2> QED BY <1>1, <1>2, <2>1, RecordsChange
<1>3. CASE UNCHANGED records
  BY <1>1, <1>3
<1> QED BY <1>2, <1>3, RecordsOnlyByInsert

-----------------------------------------------------------------------------
\* What every record and every run satisfies: records are closed before kickoff
\* and labelled by results that were confirmed, for any number of predictions.
THEOREM ClvInvariant == Spec => []ClvInv
<1>1. ClvInv /\ [Next]_vars => ClvInv'
  <2>1. (TypeOK /\ CapturesAreBehind => ClosingIsPreKickoff)'
    <3>1. None \notin Closing
      BY ClvAssumption
    <3> QED BY <3>1 DEF CapturesAreBehind, ClosingIsPreKickoff, Behind, TypeOK, Recorded, Record
  <2> QED BY <2>1, TypeStep, CapturesStep, RunStep, LabelStep DEF ClvInv
<1> QED BY InvInit, <1>1, PTL DEF Spec

\* "Repeated runs are idempotent": whatever runs fail, quotes arrive or results
\* change between them, a record is never written a second time.
THEOREM FinalRecords == Spec => RecordsAreFinal
<1> DEFINE Kept == \A i \in Recorded :
                     /\ records'[i] # None /\ records'[i].closing = records[i].closing
                     /\ records[i].label # None => records'[i].label = records[i].label
<1>1. ClvInv /\ [Next]_vars => [Kept]_vars
  BY RecordsChange, RecordsOnlyByInsert DEF Recorded
<1> QED BY ClvInvariant, <1>1, PTL DEF Spec, RecordsAreFinal
=============================================================================

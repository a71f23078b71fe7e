--------------------------------- MODULE Clv ---------------------------------
(***************************************************************************)
(* Closing-line value records (app/services/clv.py): the hourly job        *)
(* clv_update labels the records whose result has been confirmed and then  *)
(* writes one record, for good, per prediction whose match has kicked off  *)
(* and has a closing price: HKJC's last quote before kickoff, else the     *)
(* closing odds of the football-data backfill; HAD odds, for a prediction  *)
(* of either target.                                                       *)
(*                                                                         *)
(* One scheduler process runs the job, in one READ COMMITTED transaction   *)
(* whose statements are steps here, between which the odds sync, the       *)
(* backfill, the result reconciler and the fixture sync commit.  A price   *)
(* is the snapshot it was taken from.  Compaction is left out: it keeps    *)
(* this module's lookup (OddsStore, DeletionsSpareAnchors).                *)
(***************************************************************************)
EXTENDS Integers, FiniteSets

CONSTANTS Match,
          Count,            \* predictions are 1 .. Count, in the order of their ids
          MatchOf,
          Scores,           \* a set of [home, away]
          MaxTime,          \* the bound on the clock
          Kickoffs,         \* the kickoff times a match may be given
          MaxFlight,        \* the longest a fetch of odds takes
          Limit,            \* the limit of one run
          MaxStores, MaxMoves, MaxResults, MaxFailures,  \* bounds on the events of their names
          None

Time == 0 .. MaxTime
Prediction == 1 .. Count
Outcomes == {"H", "D", "A"}
Payloads == {"none", "usable", "unusable"}      \* no snapshot; with prices; without

Result == [home : Nat, away : Nat, confirmed : BOOLEAN]
Closing == [source : {"hkjc"}, captured : Time] \cup [source : {"football_data"}]
Record == [closing : Closing, label : Outcomes \cup {None}]

ASSUME ClvAssumption ==
  /\ Count \in Nat /\ MatchOf \in [Prediction -> Match]
  /\ Scores \subseteq [home : Nat, away : Nat]
  /\ MaxTime \in Nat /\ Kickoffs \subseteq Time /\ MaxFlight \in Nat /\ Limit \in Nat
  /\ MaxStores \in Nat /\ MaxMoves \in Nat /\ MaxResults \in Nat /\ MaxFailures \in Nat
  /\ None \notin Result /\ None \notin Closing /\ None \notin Record
  /\ None \notin Outcomes /\ None \notin Time

VARIABLES
  clock, kickoff, calledOff,
  quotes,       \* HKJC's HAD snapshots, by match and capture time
  fetch,        \* captured_at of the odds sync in flight, or None
  backfilled,   \* matches with football-data closing odds
  result,
  seen,         \* history: the outcomes of the confirmed results a match has had
  made,         \* predictions
  records,      \* clv_records, at most one to a prediction
  tx,           \* the run of clv_update
  stores, moves, published, failures

world == <<clock, kickoff, calledOff, quotes, fetch, backfilled, result, seen, made,
           stores, moves, published>>
vars  == <<world, records, tx, failures>>

NoLabels == [i \in Prediction |-> None]
NoRun == [pc |-> "idle", labels |-> NoLabels, work |-> {}, had |-> [m \in Match |-> None]]

TypeOK ==
  /\ clock \in Time /\ kickoff \in [Match -> Kickoffs] /\ calledOff \subseteq Match
  /\ quotes \in [Match -> [Time -> Payloads]]
  /\ fetch \in Time \cup {None} /\ backfilled \subseteq Match
  /\ result \in [Match -> Result \cup {None}] /\ seen \in [Match -> SUBSET Outcomes]
  /\ made \subseteq Prediction
  /\ records \in [Prediction -> Record \cup {None}]
  /\ tx \in [pc : {"idle", "labelled", "selected", "had"},
             labels : [Prediction -> Outcomes \cup {None}], work : SUBSET Prediction,
             had : [Match -> Closing \cup {None}]]
  /\ stores \in 0 .. MaxStores /\ (fetch # None => stores < MaxStores)
  /\ moves \in 0 .. MaxMoves
  /\ published \in 0 .. MaxResults /\ failures \in 0 .. MaxFailures

Init ==
  /\ clock = 0 /\ kickoff \in [Match -> Kickoffs] /\ calledOff = {}
  /\ quotes = [m \in Match |-> [i \in Time |-> "none"]]
  /\ fetch = None /\ backfilled = {}
  /\ result = [m \in Match |-> None] /\ seen = [m \in Match |-> {}]
  /\ made = {} /\ records = [i \in Prediction |-> None] /\ tx = NoRun
  /\ stores = 0 /\ moves = 0 /\ published = 0 /\ failures = 0

-----------------------------------------------------------------------------
(* The other jobs.                                                         *)

Tick ==
  /\ clock < MaxTime /\ (fetch # None => clock - fetch < MaxFlight)
  /\ clock' = clock + 1
  /\ UNCHANGED <<kickoff, calledOff, quotes, fetch, backfilled, result, seen, made,
                 stores, moves, published, records, tx, failures>>

\* A match is predicted while it is upcoming.
Predict(i) ==
  /\ i \notin made /\ kickoff[MatchOf[i]] >= clock /\ MatchOf[i] \notin calledOff
  /\ made' = made \cup {i}
  /\ UNCHANGED <<clock, kickoff, calledOff, quotes, fetch, backfilled, result, seen,
                 stores, moves, published, records, tx, failures>>

StartFetch ==
  /\ fetch = None /\ stores < MaxStores
  /\ \A m \in Match : quotes[m][clock] = "none"
  /\ fetch' = clock
  /\ UNCHANGED <<clock, kickoff, calledOff, quotes, backfilled, result, seen, made,
                 stores, moves, published, records, tx, failures>>

\* The answer quotes the matches that were not over when it was asked for.
StoreOdds ==
  /\ fetch # None
  /\ \E shown \in [Match -> Payloads] :
       /\ \A m \in Match : result[m] # None => shown[m] = "none"
       /\ quotes' = [m \in Match |-> [quotes[m] EXCEPT ![fetch] = shown[m]]]
  /\ fetch' = None /\ stores' = stores + 1
  /\ UNCHANGED <<clock, kickoff, calledOff, backfilled, result, seen, made,
                 moves, published, records, tx, failures>>

Backfill(m) ==
  /\ m \notin backfilled /\ result[m] # None
  /\ backfilled' = backfilled \cup {m}
  /\ UNCHANGED <<clock, kickoff, calledOff, quotes, fetch, result, seen, made,
                 stores, moves, published, records, tx, failures>>

\* label_1x2
Label1x2(r) == CASE r.home > r.away -> "H"
                 [] r.home = r.away -> "D"
                 [] r.home < r.away -> "A"

\* Any result may follow any other; Results says which do.
PublishResult(m, r) ==
  /\ kickoff[m] < clock /\ m \notin calledOff /\ r # result[m] /\ published < MaxResults
  /\ result' = [result EXCEPT ![m] = r]
  /\ seen' = [seen EXCEPT ![m] = IF r.confirmed THEN @ \cup {Label1x2(r)} ELSE @]
  /\ published' = published + 1
  /\ UNCHANGED <<clock, kickoff, calledOff, quotes, fetch, backfilled, made,
                 stores, moves, records, tx, failures>>

\* The fixture sync: another kickoff, or a match called off, perhaps to be
\* played on another day.
Reschedule(m, k) ==
  /\ moves < MaxMoves /\ result[m] = None /\ k > clock /\ k # kickoff[m]
  /\ kickoff' = [kickoff EXCEPT ![m] = k]
  /\ calledOff' = calledOff \ {m} /\ moves' = moves + 1
  /\ UNCHANGED <<clock, quotes, fetch, backfilled, result, seen, made,
                 stores, published, records, tx, failures>>

CallOff(m) ==
  /\ moves < MaxMoves /\ result[m] = None /\ m \notin calledOff
  /\ calledOff' = calledOff \cup {m} /\ moves' = moves + 1
  /\ UNCHANGED <<clock, kickoff, quotes, fetch, backfilled, result, seen, made,
                 stores, published, records, tx, failures>>

Feeds ==
  \/ StartFetch \/ StoreOdds
  \/ \E i \in Prediction : Predict(i)
  \/ \E m \in Match : \/ Backfill(m) \/ CallOff(m)
                      \/ \E k \in Kickoffs : Reschedule(m, k)
                      \/ \E score \in Scores, confirmed \in BOOLEAN :
                           PublishResult(m, [home |-> score.home, away |-> score.away,
                                             confirmed |-> confirmed])

-----------------------------------------------------------------------------
(* clv_update.                                                             *)

Confirmed(m) == result[m] # None /\ result[m].confirmed

Recorded == {i \in Prediction : records[i] # None}
Labelled == {i \in Recorded : records[i].label # None}

\* Mutant of Unlabelled: a record closed by the fallback is taken for settled.
UnlabelledHkjc ==
  {i \in Recorded : records[i].label = None /\ Confirmed(MatchOf[i])
                    /\ records[i].closing.source = "hkjc"}

\* _backfill_labels: the records without a label whose result is confirmed.
Unlabelled == {i \in Recorded : records[i].label = None /\ Confirmed(MatchOf[i])}

BackfillLabels ==
  /\ tx.pc = "idle"
  /\ tx' = [NoRun EXCEPT
       !.pc = "labelled",
       !.labels = [i \in Prediction |-> IF i \in Unlabelled THEN Label1x2(result[MatchOf[i]])
                                        ELSE None]]
  /\ UNCHANGED <<world, records, failures>>

\* Mutant of Pending: no anti-join with the records.
PendingAgain == {i \in made : kickoff[MatchOf[i]] < clock}

\* Predictions without a record whose kickoff time has passed.
Pending == {i \in made : records[i] = None /\ kickoff[MatchOf[i]] < clock}

\* order_by(kickoff_time, id) limit: those with fewer than Limit ahead of them.
Before(i, j) == \/ kickoff[MatchOf[i]] < kickoff[MatchOf[j]]
                \/ kickoff[MatchOf[i]] = kickoff[MatchOf[j]] /\ i < j
Work == {i \in Pending : Cardinality({j \in Pending : Before(j, i)}) < Limit}

\* The results are read with the predictions.
SelectWork ==
  /\ tx.pc = "labelled"
  /\ tx' = [tx EXCEPT
       !.pc = "selected", !.work = Work,
       !.labels = [i \in Prediction |->
                     IF i \in Work /\ Confirmed(MatchOf[i]) THEN Label1x2(result[MatchOf[i]])
                     ELSE tx.labels[i]]]
  /\ UNCHANGED <<world, records, failures>>

\* Mutant of PreMatch: the cutoff is forgotten.
PreMatchAny(m) == {i \in Time : quotes[m][i] # "none"}
PreMatch(m) == {i \in Time : i < kickoff[m] /\ quotes[m][i] # "none"}

\* load_hkjc_priors without a lead: the latest snapshot before kickoff, if it can
\* be read.
HkjcClose(m) ==
  IF PreMatch(m) = {} THEN None
  ELSE LET last == CHOOSE i \in PreMatch(m) : \A j \in PreMatch(m) : j <= i
       IN  IF quotes[m][last] = "unusable" THEN None
           ELSE [source |-> "hkjc", captured |-> last]

ReadHkjc ==
  /\ tx.pc = "selected"
  /\ tx' = [tx EXCEPT !.pc = "had", !.had = [m \in Match |-> HkjcClose(m)]]
  /\ UNCHANGED <<world, records, failures>>

\* Mutant of ClosingOf: no fallback.
ClosingOfHkjc(m) == tx.had[m]

\* load_market_priors: football-data fills what HKJC leaves open.
ClosingOf(m) ==
  IF tx.had[m] # None THEN tx.had[m]
  ELSE IF m \in backfilled THEN [source |-> "football_data"]
  ELSE None

\* A prediction without a closing price is left to a later run.
Inserted == {i \in tx.work : ClosingOf(MatchOf[i]) # None}

\* The football-data SELECT, the INSERTs and the commit.
InsertRecords ==
  /\ tx.pc = "had"
  /\ records' = [i \in Prediction |->
       IF i \in Inserted
       THEN [closing |-> ClosingOf(MatchOf[i]), label |-> tx.labels[i]]
       ELSE IF records[i] # None /\ tx.labels[i] # None
       THEN [records[i] EXCEPT !.label = tx.labels[i]]
       ELSE records[i]]
  /\ tx' = NoRun
  /\ UNCHANGED <<world, failures>>

\* The run fails or the process dies: nothing of it stays.
Fail ==
  /\ tx.pc # "idle" /\ failures < MaxFailures
  /\ failures' = failures + 1 /\ tx' = NoRun
  /\ UNCHANGED <<world, records>>

ClvUpdate == BackfillLabels \/ SelectWork \/ ReadHkjc \/ InsertRecords

Next == Tick \/ Feeds \/ ClvUpdate \/ Fail
Spec == Init /\ [][Next]_vars

\* The scheduler keeps starting the job and a started run keeps executing.
FairSpec == Spec /\ WF_vars(ClvUpdate)

-----------------------------------------------------------------------------
(* Properties.                                                             *)

\* "Repeated runs are idempotent": a record is written once; no later quote,
\* backfill, correction or reschedule changes it, a missing label excepted.
RecordsAreFinal ==
  [][\A i \in Recorded :
       /\ records'[i] # None /\ records'[i].closing = records[i].closing
       /\ records[i].label # None => records'[i].label = records[i].label]_vars

\* The closing price of a record was captured before the kickoff of its match,
\* however late the record was written and whatever was quoted meanwhile.
ClosingIsPreKickoff ==
  \A i \in Recorded : records[i].closing.source = "hkjc" =>
    records[i].closing.captured < kickoff[MatchOf[i]]

\* _backfill_labels "only touches confirmed results": a label is the outcome of a
\* result the match had while it was confirmed.
LabelIsConfirmed ==
  \A i \in Labelled : records[i].label \in seen[MatchOf[i]]

\* No price is of the future, nor one a run has read of after a kickoff, although
\* the kickoff may have moved since it was read.
Behind(closing, m) ==
  (closing # None /\ closing.source = "hkjc") =>
    closing.captured <= clock /\ closing.captured < kickoff[m]

CapturesAreBehind ==
  /\ fetch # None => fetch <= clock
  /\ \A m \in Match, i \in Time : quotes[m][i] # "none" => i <= clock
  /\ \A m \in Match : Behind(tx.had[m], m)
  /\ \A i \in Recorded : Behind(records[i].closing, MatchOf[i])

\* What a run is about to write: labels of results that were confirmed when it
\* read them, none over another label, and no second record of a prediction.
RunIsFresh ==
  /\ \A m \in Match : Confirmed(m) => Label1x2(result[m]) \in seen[m]
  /\ \A i \in Prediction : tx.labels[i] # None => tx.labels[i] \in seen[MatchOf[i]]
  /\ \A i \in Recorded : i \notin tx.work /\ (tx.labels[i] # None => records[i].label = None)

\* What every record satisfies, whatever was quoted, moved or corrected since, and
\* every run that is about to write some.
ClvInv ==
  TypeOK /\ ClosingIsPreKickoff /\ LabelIsConfirmed /\ CapturesAreBehind /\ RunIsFresh

\* "Predictions without a usable closing price are left unrecorded and retried on
\* the next run": one that has a price gets its record, unless its match moves, or
\* predictions without a price fill a run before it: they are first at the next run
\* too, and what is behind them stays unrecorded although it has a price.
HasClose(m) == HkjcClose(m) # None \/ m \in backfilled
Starved(i) ==
  Cardinality({j \in Pending : Before(j, i) /\ ~HasClose(MatchOf[j])}) >= Limit
Due(i) == i \in Pending /\ HasClose(MatchOf[i]) /\ ~Starved(i)
PricedIsRecorded == \A i \in Prediction : Due(i) ~> ~Due(i)

\* "Records whose match result was not confirmed at insertion time get their
\* label backfilled on a later run", while it stays confirmed.
LabelArrives ==
  \A i \in Prediction :
    (i \in Recorded /\ Confirmed(MatchOf[i])) ~>
      (i \in Labelled \/ ~Confirmed(MatchOf[i]))
=============================================================================

------------------------------ MODULE Training ------------------------------
(***************************************************************************)
(* What the models learn from: the feature pass of app/ml/features.py over *)
(* the rows that app/ml/dataset.py loads, the temporal split of one        *)
(* target's rows, the batch served to the upcoming matches, and the        *)
(* champion a retrain leaves behind while results keep coming in.          *)
(*                                                                         *)
(* A feature is what it is computed from: the matches whose score or       *)
(* statistics it takes in.  The arithmetic on them (means, sums, the Elo   *)
(* formula) is left out.                                                   *)
(***************************************************************************)
EXTENDS Integers, Sequences, FiniteSets

CONSTANTS Match,          \* ids: a finite set of naturals
          Team,
          Fixtures,       \* the calendars: each gives every match a Fixture
          Lines,          \* the sets of matches whose prior may hold a handicap line
          MaxTime,        \* the bound on the clock
          SeasonLength,   \* a season is this long
          FormWindow,     \* FORM_WINDOW
          StrengthWindow, \* STRENGTH_WINDOW
          H2HWindow,      \* H2H_WINDOW
          StatsWindow,    \* STATS_WINDOW
          StatsAfter,     \* STATS_AVAILABLE_AFTER of the backfill
          StatsLead,      \* STATS_AVAILABILITY_LEAD
          Lookahead,      \* ml_predict_lookahead_hours
          MinRows,        \* MIN_DATASET_ROWS
          MinTrainRows,   \* ml_min_train_rows
          EvalPart,       \* one row in EvalPart is EVAL_FRACTION
          CalibrationPart,\* one row in CalibrationPart is CALIBRATION_FRACTION
          None            \* no champion, no earlier kickoff

Time == 0 .. MaxTime
Season(t) == t \div SeasonLength
Seasons == {Season(t) : t \in Time}
Fixture == [kickoff : Time, home : Team, away : Team]

ASSUME TrainingAssumption ==
  /\ Match \subseteq Nat /\ IsFiniteSet(Match) /\ MaxTime \in Nat
  /\ Fixtures \subseteq [Match -> Fixture]
  /\ \A f \in Fixtures : \A m \in Match : f[m].home # f[m].away
  /\ Lines \subseteq SUBSET Match
  /\ {SeasonLength, EvalPart, CalibrationPart} \subseteq Nat \ {0}
  /\ {FormWindow, StrengthWindow, H2HWindow, StatsWindow} \subseteq Nat \ {0}
  /\ {StatsAfter, StatsLead, Lookahead, MinRows, MinTrainRows} \subseteq Nat
  /\ None \notin Time

VARIABLES
  clock,
  fixture,    \* the calendar
  labelled,   \* the matches whose result labels them for the target: all of
              \* them for 1x2, those with a line in their prior for handicap
  confirmed,  \* the matches with a confirmed result
  stats,      \* the matches with a football-data match_stats row
  champion    \* the slices the target's champion was trained on

vars == <<clock, fixture, labelled, confirmed, stats, champion>>

Slices == [train : SUBSET Match, calibration : SUBSET Match, eval : SUBSET Match]

TypeOK ==
  /\ clock \in Time /\ fixture \in Fixtures /\ labelled \subseteq Match
  /\ stats \subseteq confirmed /\ confirmed \subseteq {m \in Match : fixture[m].kickoff < clock}
  /\ champion \in Slices \cup {None}

-----------------------------------------------------------------------------
(* The feature pass.                                                       *)

Kickoff(m) == fixture[m].kickoff

\* The order of the rows, load_training_rows' and build_feature_rows'.
Precedes(a, b) == Kickoff(a) < Kickoff(b) \/ (Kickoff(a) = Kickoff(b) /\ a < b)
\* Sorted: the i-th row is the one that i - 1 rows precede.
Ordered(rows) ==
  [i \in 1 .. Cardinality(rows) |->
     CHOOSE m \in rows : Cardinality({e \in rows : Precedes(e, m)}) = i - 1]

\* _State and _TeamHistory: what has been accumulated.
EmptyState ==
  LET perTeam(x) == [t \in Team |-> x]
  IN  [results |-> perTeam(<<>>), homeResults |-> perTeam(<<>>),
       awayResults |-> perTeam(<<>>), stats |-> perTeam(<<>>),
       lastKickoff |-> perTeam(None), elo |-> perTeam({}),
       seasonCounts |-> perTeam([s \in Seasons |-> 0]),
       h2h |-> [pair \in SUBSET Team |-> <<>>], goals |-> {}]

\* [e for e in s if e in among][-n:]
Window(s, n, among) ==
  {s[i] : i \in {i \in DOMAIN s :
                   s[i] \in among /\ Cardinality({j \in DOMAIN s : j > i /\ s[j] \in among}) < n}}

\* The matches whose statistics were available StatsLead before a kickoff.
Available(kickoff) == {e \in Match : Kickoff(e) + StatsAfter <= kickoff - StatsLead}

\* What one team brings to a match; venue is its results at home, or away.
SideFeatures(state, team, venue, kickoff) ==
  [elo      |-> state.elo[team],
   form     |-> Window(state.results[team], FormWindow, Match),
   strength |-> Window(state.results[team], StrengthWindow, Match),
   venue    |-> Window(venue[team], FormWindow, Match),
   rest     |-> state.lastKickoff[team],
   stats    |-> Window(state.stats[team], StatsWindow, Available(kickoff))]

\* _h2h_net: each net is seen from the home team of the row.
HeadToHead(state, home, away) ==
  {[of |-> e, flipped |-> fixture[e].home # home] :
     e \in Window(state.h2h[{home, away}], H2HWindow, Match)}

FeaturesFor(state, m) ==
  LET f == fixture[m]
  IN  [home |-> SideFeatures(state, f.home, state.homeResults, f.kickoff),
       away |-> SideFeatures(state, f.away, state.awayResults, f.kickoff),
       matchday |-> state.seasonCounts[f.home][Season(f.kickoff)] + 1,
       h2h |-> HeadToHead(state, f.home, f.away),
       baseline |-> state.goals]

\* A played match enters the history of both teams.
Played(state, m) ==
  LET f == fixture[m]
      both == {f.home, f.away}
      push(of, teams) == [t \in Team |-> IF t \in teams THEN Append(of[t], m) ELSE of[t]]
  IN  [results |-> push(state.results, both),
       homeResults |-> push(state.homeResults, {f.home}),
       awayResults |-> push(state.awayResults, {f.away}),
       stats |-> push(state.stats, IF m \in stats THEN both ELSE {}),
       lastKickoff |-> [t \in Team |-> IF t \in both THEN f.kickoff ELSE state.lastKickoff[t]],
       elo |-> [t \in Team |-> IF t \in both
                               THEN state.elo[f.home] \cup state.elo[f.away] \cup {m}
                               ELSE state.elo[t]],
       seasonCounts |-> [t \in Team |-> IF t \in both
                           THEN [state.seasonCounts[t] EXCEPT ![Season(f.kickoff)] = @ + 1]
                           ELSE state.seasonCounts[t]],
       h2h |-> [state.h2h EXCEPT ![both] = Append(@, m)],
       goals |-> state.goals \cup {m}]

\* _update: a match without a result changes nothing.
Update(state, m, scored) == IF m \in scored THEN Played(state, m) ELSE state

\* The state after each number of the ordered rows.
StateAfter(ordered, scored) ==
  LET after[n \in 0 .. Len(ordered)] ==
        IF n = 0 THEN EmptyState ELSE Update(after[n - 1], ordered[n], scored)
  IN  after

\* Mutant of Pass: every row is applied as soon as its features are made.
PassOneByOne(rows, scored) ==
  LET ordered == Ordered(rows)
      after == StateAfter(ordered, scored)
      before(m) == CHOOSE n \in 0 .. Len(ordered) - 1 : ordered[n + 1] = m
  IN  [m \in rows |-> FeaturesFor(after[before(m)], m)]

\* build_feature_rows: the rows of one kickoff, a group, see the state before
\* the first of them.
Pass(rows, scored) ==
  LET ordered == Ordered(rows)
      after == StateAfter(ordered, scored)
      begins(n, m) == /\ Kickoff(ordered[n + 1]) = Kickoff(m)
                      /\ n = 0 \/ Kickoff(ordered[n]) # Kickoff(m)
      before(m) == CHOOSE n \in 0 .. Len(ordered) - 1 : begins(n, m)
  IN  [m \in rows |-> FeaturesFor(after[before(m)], m)]

-----------------------------------------------------------------------------
(* The dataset of one target and its split.                                *)

\* load_training_rows; _frame and dropna leave the rows that
\* carry the target's label.
TrainingRows == confirmed
Frame == TrainingRows \cap labelled

AtLeastOne(n) == IF n < 1 THEN 1 ELSE n

\* _snap_up: one row to a match, so every index starts a match.
SnapUp(index, total) == IF index < total THEN index ELSE total

\* Mutant of Chronological: the order the rows were inserted in.
ById(rows) ==
  [i \in 1 .. Cardinality(rows) |->
     CHOOSE m \in rows : Cardinality({e \in rows : e < m}) = i - 1]
Chronological(rows) == Ordered(rows)

\* The rows from one index to another.
Part(ordered, first, last) == {ordered[i] : i \in first .. last}

\* Mutant of Split: the oldest rows calibrate.
SplitCalibrationOldest(rows) ==
  LET n == Cardinality(rows)
      ordered == Chronological(rows)
      cutTrain == AtLeastOne(n \div CalibrationPart)
      cutEval == n - AtLeastOne(n \div EvalPart)
  IN  [train |-> Part(ordered, cutTrain + 1, cutEval),
       calibration |-> Part(ordered, 1, cutTrain),
       eval |-> Part(ordered, cutEval + 1, n)]

\* temporal_split
Split(rows) ==
  LET n == Cardinality(rows)
      ordered == Chronological(rows)
      evalRows == AtLeastOne(n \div EvalPart)
      calibrationRows == AtLeastOne(n \div CalibrationPart)
      cutCalibration == SnapUp(AtLeastOne(n - evalRows - calibrationRows), n)
      cutEval == SnapUp(IF cutCalibration + 1 > n - evalRows THEN cutCalibration + 1
                        ELSE n - evalRows, n)
  IN  [train |-> Part(ordered, 1, cutCalibration),
       calibration |-> Part(ordered, cutCalibration + 1, cutEval),
       eval |-> Part(ordered, cutEval + 1, n)]

\* build_dataset raises: too few rows, or an empty slice.
Refused(rows) ==
  \/ Cardinality(rows) < MinRows
  \/ {} \in {Split(rows).train, Split(rows).calibration, Split(rows).eval}

-----------------------------------------------------------------------------
(* The matches that are served.                                            *)

\* load_upcoming_matches
Upcoming == {m \in Match : Kickoff(m) >= clock /\ Kickoff(m) <= clock + Lookahead}

History(before) == {m \in confirmed : Kickoff(m) < before}

\* predict_match: the features of one upcoming match.
ServedAlone(m) == Pass(History(Kickoff(m)) \cup {m}, confirmed)[m]

\* predict_upcoming_matches: one history, up to the latest kickoff, one pass.
LatestKickoff == CHOOSE k \in {Kickoff(m) : m \in Upcoming} : \A m \in Upcoming : Kickoff(m) <= k
ServedTogether == Pass(History(LatestKickoff) \cup Upcoming, confirmed)

-----------------------------------------------------------------------------
Init ==
  /\ clock = 0 /\ fixture \in Fixtures /\ labelled \in Lines \cup {Match}
  /\ confirmed = {} /\ stats = {} /\ champion = None

Tick ==
  /\ clock < MaxTime
  /\ clock' = clock + 1
  /\ UNCHANGED <<fixture, labelled, confirmed, stats, champion>>

\* settle_results: the results come in any order.
ConfirmResult(m) ==
  /\ Kickoff(m) < clock /\ m \notin confirmed
  /\ confirmed' = confirmed \cup {m}
  /\ UNCHANGED <<clock, fixture, labelled, stats, champion>>

\* `backfill` of a season, with the statistics of its matches.
Backfill(s) ==
  LET played == {m \in Match : Kickoff(m) < clock /\ Season(Kickoff(m)) = s}
  IN  /\ played \ stats # {}
      /\ confirmed' = confirmed \cup played
      /\ stats' = stats \cup played
      /\ UNCHANGED <<clock, fixture, labelled, champion>>

\* retrain, when there is enough to train on and the gate promotes the challenger.
Retrain ==
  /\ ~Refused(Frame)
  /\ Cardinality(Split(Frame).train) >= MinTrainRows
  /\ champion' = Split(Frame)
  /\ UNCHANGED <<clock, fixture, labelled, confirmed, stats>>

Next ==
  \/ Tick \/ Retrain
  \/ \E m \in Match : ConfirmResult(m)
  \/ \E s \in Seasons : Backfill(s)

Spec == Init /\ [][Next]_vars

-----------------------------------------------------------------------------
(* Properties.                                                             *)

\* What a feature of a match may be made of: the matches of the table that
\* kicked off strictly before it.
Earlier(m) == {e \in confirmed : Kickoff(e) < Kickoff(m)}
Of(team, matches) == {e \in matches : team \in {fixture[e].home, fixture[e].away}}
Latest(n, matches) == {e \in matches : Cardinality({f \in matches : Precedes(e, f)}) < n}

\* The definition of every feature by the calendar alone.
AsOf(m, side, team, atVenue) ==
  LET own == Of(team, Earlier(m))
  IN  /\ side.form = Latest(FormWindow, own)
      /\ side.strength = Latest(StrengthWindow, own)
      /\ side.venue = Latest(FormWindow, {e \in own : atVenue[e]})
      /\ side.stats = Latest(StatsWindow,
           {e \in own \cap stats : Kickoff(e) + StatsAfter + StatsLead <= Kickoff(m)})
      /\ own \subseteq side.elo /\ side.elo \subseteq Earlier(m)
      /\ IF own = {} THEN side.rest = None
         ELSE \E e \in own : side.rest = Kickoff(e) /\ \A f \in own : Kickoff(f) <= side.rest

\* "Strictly as-of kickoff": whatever the table holds, in whatever order its
\* results came, each row of a training set is made of the matches that kicked
\* off strictly earlier, the latest of each kind, and of statistics that were
\* available 48 hours before.
FeaturesAreAsOfKickoff ==
  LET pass == Pass(TrainingRows, confirmed)
  IN  \A m \in TrainingRows :
        LET f == fixture[m] r == pass[m]
        IN  /\ AsOf(m, r.home, f.home, [e \in Match |-> fixture[e].home = f.home])
            /\ AsOf(m, r.away, f.away, [e \in Match |-> fixture[e].away = f.away])
            /\ r.baseline = Earlier(m)
            /\ r.h2h = {[of |-> e, flipped |-> fixture[e].home = f.away] :
                          e \in Latest(H2HWindow, Of(f.home, Of(f.away, Earlier(m))))}
            /\ r.matchday = 1 + Cardinality({e \in Of(f.home, Earlier(m)) :
                                             Season(Kickoff(e)) = Season(f.kickoff)})

\* All the matches a row is made of, its own label included.
MadeOf(m, r) ==
  {m} \cup r.baseline \cup {h.of : h \in r.h2h}
    \cup UNION {side.elo \cup side.strength \cup side.form \cup side.venue \cup side.stats :
                 side \in {r.home, r.away}}

\* A split is blind to what it is evaluated on: nothing a model is fitted to or
\* calibrated on is made of a match of a later slice, even where two slices meet
\* inside one kickoff time; and no row is lost or used twice.
SplitsAreBlind ==
  ~Refused(Frame) =>
    LET pass == Pass(TrainingRows, confirmed)
        s == Split(Frame)
    IN  /\ s.train \cup s.calibration \cup s.eval = Frame
        /\ s.calibration \cap s.eval = {}
        /\ \A m \in s.train : MadeOf(m, pass[m]) \cap (s.calibration \cup s.eval) = {}
        /\ \A m \in s.calibration : MadeOf(m, pass[m]) \cap s.eval = {}

\* One history and one pass for all upcoming matches serve each of them what it
\* would be served alone: they take nothing from each other.
BatchServesAsSingle ==
  \A m \in Upcoming : ServedTogether[m] = ServedAlone(m)

\* What every state of the tables satisfies.
TrainingInv == TypeOK /\ FeaturesAreAsOfKickoff /\ BatchServesAsSingle

\* "Eval is the out-of-sample temporal slice; the champion was not trained on it"
\* (NOTES in ml/backtest.py; retrain scores the champion on it too): true until
\* more rows than EvalPart times the champion's calibration slice have come in
\* out of order, before a row it was calibrated or evaluated on.
ChampionIsBlindToEval ==
  (champion # None /\ ~Refused(Frame)) =>
    LET rows  == champion.train \cup champion.calibration \cup champion.eval
        late  == {m \in Frame \ rows : \E e \in rows \ champion.train : Precedes(m, e)}
    IN  Cardinality(late) <= EvalPart * Cardinality(champion.calibration)
          => champion.train \cap Split(Frame).eval = {}
=============================================================================

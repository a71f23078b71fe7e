------------------------------ MODULE Results ------------------------------
(***************************************************************************)
(* The table results: the settling job (ResultReconciler in                *)
(* app/services/results.py) asks HKJC, then football-data for the matches  *)
(* that are still without a result, then flags what is left; beside it the *)
(* command `backfill` (app/cli.py) loads a season of football-data.        *)
(*                                                                         *)
(* Writers are transactions at READ COMMITTED.  A writer reads the row of  *)
(* a match and later flushes it; SQLAlchemy sends an INSERT when there was *)
(* none and else an UPDATE of the columns whose value differs from the one *)
(* read.  An UPDATE waits for the row's lock and changes those columns of  *)
(* whatever the row has become by then.                                    *)
(***************************************************************************)
EXTENDS Integers, FiniteSets

CONSTANTS Match,
          ScoresOf,         \* the set of [home, away] each source may show
          MaxTime,          \* the bound on the clock
          Kickoffs,         \* the kickoff times a match may have
          HkjcLookback,     \* HKJC_LOOKBACK_DAYS
          FallbackAfter,    \* FALLBACK_AFTER_HOURS
          FallbackLookback, \* FALLBACK_LOOKBACK_DAYS
          ReviewAfter,      \* MANUAL_REVIEW_AFTER_HOURS
          MaxCorrections,   \* the bound on scores a source corrects
          MaxBackfills,     \* the bound on runs of `backfill`
          MaxFailures,      \* the bound on crashes and failed requests
          None              \* no row, no score, no match

Time == 0 .. MaxTime
Sources == {"hkjc", "football_data"}
Scores == UNION {ScoresOf[s] : s \in Sources}
Writers == {"settle", "backfill"}

Row == [home : Nat, away : Nat, source : Sources, confirmed : BOOLEAN]

ASSUME ResultsAssumption ==
  /\ ScoresOf \in [Sources -> SUBSET [home : Nat, away : Nat]]
  /\ MaxTime \in Nat /\ Kickoffs \subseteq Time
  /\ HkjcLookback \in Nat /\ FallbackAfter \in Nat
  /\ FallbackLookback \in Nat /\ ReviewAfter \in Nat
  /\ MaxCorrections \in Nat /\ MaxBackfills \in Nat /\ MaxFailures \in Nat
  /\ None \notin Row /\ None \notin Scores /\ None \notin Match

VARIABLES
  clock, kickoff,
  calledOff,    \* matches postponed, cancelled or abandoned
  published,    \* the score each source shows for each match, or None
  history,      \* history: every score each source has shown
  row,          \* results, at most one row per match
  tx,           \* what each writer is doing
  flagged,      \* the matches of the latest manual_review row
  corrections, backfills, failures

world == <<clock, kickoff, calledOff, published, history, corrections>>
vars  == <<world, row, tx, flagged, backfills, failures>>

\* pc says which pass a writer is in; records is what the source answered, todo
\* the records left, at and read the row being upserted, wrote the rows this
\* transaction has written and holds the locks of.
NoRecords == [m \in Match |-> None]
Begin(pc, records, todo) ==
  [pc |-> pc, records |-> records, todo |-> todo, at |-> None, read |-> None,
   wrote |-> NoRecords]
At(pc) == Begin(pc, NoRecords, {})

Passes == {"hkjc", "fallback", "backfill"}
PC == Passes \cup {"idle", "candidates", "ask", "flag"}

Writing == [pc : PC, records : [Match -> Scores \cup {None}], todo : SUBSET Match,
            at : Match \cup {None}, read : Row \cup {None}, wrote : [Match -> Row \cup {None}]]

TypeOK ==
  /\ clock \in Time /\ kickoff \in [Match -> Kickoffs] /\ calledOff \subseteq Match
  /\ published \in [Sources -> [Match -> Scores \cup {None}]]
  /\ history \in [Sources -> [Match -> SUBSET Scores]]
  /\ row \in [Match -> Row \cup {None}]
  /\ tx \in [Writers -> Writing]
  /\ flagged \subseteq Match
  /\ corrections \in 0 .. MaxCorrections /\ backfills \in 0 .. MaxBackfills
  /\ failures \in 0 .. MaxFailures

Init ==
  /\ clock = 0 /\ kickoff \in [Match -> Kickoffs] /\ calledOff = {}
  /\ published = [s \in Sources |-> NoRecords]
  /\ history = [s \in Sources |-> [m \in Match |-> {}]]
  /\ row = NoRecords /\ tx = [w \in Writers |-> At("idle")] /\ flagged = {}
  /\ corrections = 0 /\ backfills = 0 /\ failures = 0

-----------------------------------------------------------------------------
(* The world outside the database.                                         *)

Tick ==
  /\ clock < MaxTime
  /\ clock' = clock + 1
  /\ UNCHANGED <<kickoff, calledOff, published, history, corrections,
                 row, tx, flagged, backfills, failures>>

CallOff(m) ==
  /\ m \notin calledOff /\ \A s \in Sources : published[s][m] = None
  /\ calledOff' = calledOff \cup {m}
  /\ UNCHANGED <<clock, kickoff, published, history, corrections,
                 row, tx, flagged, backfills, failures>>

\* A source shows the score of a match that was played, or corrects it.
Publish(s, m, score) ==
  /\ kickoff[m] < clock /\ m \notin calledOff /\ published[s][m] # score
  /\ published[s][m] # None => corrections < MaxCorrections
  /\ corrections' = corrections + (IF published[s][m] = None THEN 0 ELSE 1)
  /\ published' = [published EXCEPT ![s][m] = score]
  /\ history' = [history EXCEPT ![s][m] = history[s][m] \cup {score}]
  /\ UNCHANGED <<clock, kickoff, calledOff, row, tx, flagged, backfills, failures>>

-----------------------------------------------------------------------------
(* The upsert every writer makes of one match.                             *)

\* The row a pass means to store.
SourceOf(pass) == IF pass = "hkjc" THEN "hkjc" ELSE "football_data"
NewRow(pass, score) ==
  [home |-> score.home, away |-> score.away, source |-> SourceOf(pass),
   confirmed |-> pass # "fallback"]

\* Mutant of Skips: the first result stays.
SkipsExisting(pass, read) == read # None

\* football-data skips the rows HKJC owns.
Skips(pass, read) == pass # "hkjc" /\ read # None /\ read.source = "hkjc"

\* Mutants of Patch: every column is sent; the scores are sent, changed or not.
PatchWhole(current, read, new) == new
PatchScores(current, read, new) ==
  [f \in DOMAIN new |-> IF f \in {"home", "away"} \/ new[f] # read[f] THEN new[f]
                        ELSE current[f]]

\* The UPDATE of the columns that differ from what was read.
Patch(current, read, new) ==
  [f \in DOMAIN new |-> IF new[f] # read[f] THEN new[f] ELSE current[f]]

\* The SELECT.  (The fallback makes two; only the backfill runs beside it, and
\* whichever of the two saw the row is the one read here.)
ReadRow(w, m) ==
  /\ tx[w].pc \in Passes /\ tx[w].at = None /\ m \in tx[w].todo
  /\ tx' = [tx EXCEPT ![w] =
              IF Skips(tx[w].pc, row[m]) THEN [tx[w] EXCEPT !.todo = tx[w].todo \ {m}]
              ELSE [tx[w] EXCEPT !.todo = tx[w].todo \ {m}, !.at = m, !.read = row[m]]]
  /\ UNCHANGED <<world, row, flagged, backfills, failures>>

\* Another writer has written the row and not committed.
Locked(w, m) == \E v \in Writers \ {w} : tx[v].wrote[m] # None

\* results.match_id is unique: the row was inserted since it was looked for.
Collides(w) == tx[w].read = None /\ row[tx[w].at] # None

\* The flush.  An UPDATE is sent, and takes the row's lock, whatever was read: HKJC's
\* pass and the backfill set confirmed_at to the present time, and a row the fallback
\* finds is one the backfill has inserted since, which it un-confirms.
WriteRow(w) ==
  LET m   == tx[w].at
      new == NewRow(tx[w].pc, tx[w].records[m])
      written == IF tx[w].read = None THEN new ELSE Patch(row[m], tx[w].read, new)
  IN  /\ m # None /\ ~Locked(w, m) /\ ~Collides(w)
      /\ tx' = [tx EXCEPT ![w] = [tx[w] EXCEPT !.at = None, !.read = None,
                                               !.wrote = [tx[w].wrote EXCEPT ![m] = written]]]
      /\ UNCHANGED <<world, row, flagged, backfills, failures>>

\* Where the pass leads, whether it was committed or not.
After(pass) == CASE pass = "hkjc" -> At("candidates")
                 [] pass = "fallback" -> At("flag")
                 [] pass = "backfill" -> At("idle")

CommitPass(w) ==
  /\ tx[w].pc \in Passes /\ tx[w].todo = {} /\ tx[w].at = None
  /\ row' = [m \in Match |-> IF tx[w].wrote[m] # None THEN tx[w].wrote[m] ELSE row[m]]
  /\ tx' = [tx EXCEPT ![w] = After(tx[w].pc)]
  /\ UNCHANGED <<world, flagged, backfills, failures>>

\* The unique constraint, or the database breaking a cycle of lock waits, rolls
\* the pass back; the next pass of the job runs all the same.
Waits(w) == tx[w].at # None /\ Locked(w, tx[w].at)
RollBackPass(w) ==
  /\ tx[w].at # None
  /\ \/ ~Locked(w, tx[w].at) /\ Collides(w)
     \/ \A v \in Writers : Waits(v)
  /\ tx' = [tx EXCEPT ![w] = After(tx[w].pc)]
  /\ UNCHANGED <<world, row, flagged, backfills, failures>>

\* The process dies, and the job starts afresh at its next run; or a pass
\* fails for any other reason and the job goes on.
Fail(w) ==
  /\ tx[w].pc # "idle" /\ failures < MaxFailures
  /\ failures' = failures + 1
  /\ \/ tx' = [tx EXCEPT ![w] = At("idle")]
     \/ tx[w].pc \in Passes /\ tx' = [tx EXCEPT ![w] = After(tx[w].pc)]
     \/ tx[w].pc = "ask" /\ tx' = [tx EXCEPT ![w] = At("flag")]
  /\ UNCHANGED <<world, row, flagged, backfills>>

-----------------------------------------------------------------------------
(* settle_results.                                                         *)

Answered(s, window) == {m \in Match : published[s][m] # None /\ kickoff[m] >= clock - window}

FetchHkjc ==
  /\ tx["settle"].pc = "idle"
  /\ tx' = [tx EXCEPT !["settle"] =
              Begin("hkjc", published["hkjc"], Answered("hkjc", HkjcLookback))]
  /\ UNCHANGED <<world, row, flagged, backfills, failures>>

\* _reconcile_fallback: the matches without a result, chosen before football-data
\* is asked; the pass is over when there are none.
Candidates == {m \in Match : row[m] = None /\ kickoff[m] < clock - FallbackAfter}

SelectCandidates ==
  /\ tx["settle"].pc = "candidates"
  /\ tx' = [tx EXCEPT !["settle"] = IF Candidates = {} THEN At("flag")
                                    ELSE Begin("ask", NoRecords, Candidates)]
  /\ UNCHANGED <<world, row, flagged, backfills, failures>>

FetchFallback ==
  /\ tx["settle"].pc = "ask"
  /\ tx' = [tx EXCEPT !["settle"] =
              Begin("fallback", published["football_data"],
                    tx["settle"].todo \cap Answered("football_data", FallbackLookback))]
  /\ UNCHANGED <<world, row, flagged, backfills, failures>>

Unresolved == {m \in Match : row[m] = None /\ kickoff[m] < clock - ReviewAfter /\ m \notin calledOff}

\* Mutant of NewFlag: nothing is flagged when a pass has settled something.
NewFlagUnlessSettled == IF \E m \in Match : row[m] # None THEN flagged ELSE Unresolved

\* _flag_unresolved: the set of the latest row, unless it is the same or empty.
NewFlag == IF Unresolved = {} THEN flagged ELSE Unresolved

FlagUnresolved ==
  /\ tx["settle"].pc = "flag"
  /\ flagged' = NewFlag
  /\ tx' = [tx EXCEPT !["settle"] = At("idle")]
  /\ UNCHANGED <<world, row, backfills, failures>>

-----------------------------------------------------------------------------
\* `backfill`: one season, downloaded and then upserted in one transaction.
FetchSeason ==
  /\ tx["backfill"].pc = "idle" /\ backfills < MaxBackfills
  /\ backfills' = backfills + 1
  /\ tx' = [tx EXCEPT !["backfill"] =
              Begin("backfill", published["football_data"],
                    {m \in Match : published["football_data"][m] # None})]
  /\ UNCHANGED <<world, row, flagged, failures>>

Upsert(w) == (\E m \in Match : ReadRow(w, m)) \/ WriteRow(w) \/ CommitPass(w) \/ RollBackPass(w)

SettleResults ==
  FetchHkjc \/ SelectCandidates \/ FetchFallback \/ FlagUnresolved \/ Upsert("settle")

Next ==
  \/ Tick \/ SettleResults \/ FetchSeason \/ Upsert("backfill")
  \/ \E m \in Match : CallOff(m)
  \/ \E s \in Sources, m \in Match : \E score \in ScoresOf[s] : Publish(s, m, score)
  \/ \E w \in Writers : Fail(w)

Spec == Init /\ [][Next]_vars

\* The scheduler keeps starting the job, and no transaction stays open: the lock
\* a writer waits for goes to it when it is released (strong fairness).
FairSpec == Spec /\ WF_vars(SettleResults) /\ SF_vars(Upsert("backfill"))

-----------------------------------------------------------------------------
(* What holds of the table and of both open transactions.                  *)

Owned(m) == row[m] # None /\ row[m].source = "hkjc"
Score(r) == [home |-> r.home, away |-> r.away]

\* football-data has not corrected its score of the match.
Steady(m) == \A a, b \in history["football_data"][m] : a = b

\* "HKJC results are never overwritten by external sources": the score of a row
\* that names HKJC is one HKJC has shown, unless football-data has corrected its
\* own.  (Then a flush that read the row before HKJC's pass committed sends the
\* corrected half of football-data's score into HKJC's row.)
HkjcScoreIsHkjcs ==
  \A m \in Match : Owned(m) /\ Steady(m) => Score(row[m]) \in history["hkjc"][m]

\* Where the writers are, and that no row is being written by both.
Placed ==
  /\ tx["backfill"].pc \in {"idle", "backfill"} /\ tx["settle"].pc # "backfill"
  /\ \A w \in Writers : tx[w].pc \notin Passes => tx[w].at = None /\ tx[w].wrote = NoRecords
  /\ \A m \in Match : \E w \in Writers : tx[w].wrote[m] = None

\* A pass stores scores its source has shown.
RecordsAreShown ==
  /\ \A s \in Sources, m \in Match : published[s][m] # None => published[s][m] \in history[s][m]
  /\ \A w \in Writers : tx[w].pc \in Passes =>
       \A m \in Match : m \in tx[w].todo \/ m = tx[w].at =>
         tx[w].records[m] # None /\ tx[w].records[m] \in history[SourceOf(tx[w].pc)][m]

RowsAreSound ==
  \A m \in Match : row[m] # None =>
    /\ row[m].source = "hkjc" => row[m].confirmed
    /\ Steady(m) => Score(row[m]) \in history[row[m].source][m]

\* What a writer has read of the row it is about to change still holds of it, as
\* far as the change relies on it.
ReadHolds(w) ==
  LET m    == tx[w].at
      read == tx[w].read
  IN  m # None /\ read # None =>
        /\ row[m] # None
        /\ tx[w].pc # "hkjc" => read.source = "football_data"
        /\ w = "settle" => /\ row[m].source = read.source
                           /\ Steady(m) => Score(row[m]) = Score(read)
        /\ tx[w].pc = "hkjc" /\ read.confirmed => row[m].confirmed
        /\ w = "backfill" /\ Steady(m) => Score(read) \in history["football_data"][m]

\* What a writer has written of a row: HKJC's pass makes it HKJC's, the others keep
\* its source; and the backfill its score.
WriteHolds(w, m) ==
  LET new == tx[w].wrote[m]
  IN  /\ new.source = "hkjc" => new.confirmed
      /\ tx[w].pc = "hkjc" => new.source = "hkjc"
      /\ tx[w].pc # "hkjc" =>
           new.source = IF row[m] = None THEN "football_data" ELSE row[m].source
      /\ Steady(m) => Score(new) \in history[new.source][m]
      /\ w = "backfill" /\ row[m] # None =>
           /\ row[m].confirmed => new.confirmed
           /\ Steady(m) => Score(new) = Score(row[m])
TransactionsHold ==
  \A w \in Writers :
    ReadHolds(w) /\ \A m \in Match : tx[w].wrote[m] # None => WriteHolds(w, m)

\* What every state of the table satisfies.
ResultsInv ==
  /\ TypeOK /\ HkjcScoreIsHkjcs /\ Placed /\ RecordsAreShown /\ RowsAreSound
  /\ TransactionsHold

-----------------------------------------------------------------------------
(* Properties.                                                             *)

\* A row that names HKJC keeps naming it and stays confirmed, whatever the
\* backfill read before HKJC's pass committed: it writes no source it did not
\* see change.
HkjcRowStays ==
  [][\A m \in Match : Owned(m) => (Owned(m)' /\ row'[m].confirmed)]_vars

\* settle_results, step 3: the fallback is for the "matches still missing a
\* result"; it takes nothing from a match that has one.
FallbackOnlyFillsGaps ==
  [][(tx["settle"].pc = "fallback" /\ CommitPass("settle")) =>
       \A m \in Match : row[m] # None => row'[m] = row[m]]_vars

\* "Anything still unresolved after 48h" is flagged for manual review or gets
\* its result first.
UnresolvedIsFlagged ==
  \A m \in Match : (m \in Unresolved) ~> (m \in flagged \/ row[m] # None \/ m \in calledOff)

\* HKJC's result of a match whose lookback has not passed reaches the table: a
\* failed or rolled-back pass is made up for.
HkjcResultArrives ==
  \A m \in Match :
    (published["hkjc"][m] # None /\ kickoff[m] >= MaxTime - HkjcLookback) ~> Owned(m)
=============================================================================

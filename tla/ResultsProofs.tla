---------------------------- MODULE ResultsProofs ----------------------------
(***************************************************************************)
(* A result of HKJC's stays HKJC's: for any matches, scores, kickoffs and  *)
(* lookbacks, any interleaving of the settling job's passes with the       *)
(* backfill, and any corrections, failures and lock waits.                 *)
(***************************************************************************)
EXTENDS Results, TLAPS

\* The fields of a writer.
LEMMA TxType ==
  ASSUME TypeOK, NEW w \in Writers
  PROVE  /\ tx[w].pc \in PC /\ tx[w].records \in [Match -> Scores \cup {None}]
         /\ tx[w].todo \in SUBSET Match /\ tx[w].at \in Match \cup {None}
         /\ tx[w].read \in Row \cup {None} /\ tx[w].wrote \in [Match -> Row \cup {None}]
         /\ tx[w] \in Writing
BY DEF TypeOK, Writing

\* A step of one writer leaves the other alone.
LEMMA OneSteps ==
  ASSUME TypeOK, NEW w \in Writers, NEW new \in Writing, tx' = [tx EXCEPT ![w] = new]
  PROVE  /\ tx' \in [Writers -> Writing] /\ tx'[w] = new
         /\ \A v \in Writers : v # w => tx'[v] = tx[v]
BY DEF TypeOK

\* What a pass begins with.
LEMMA BeginType ==
  ASSUME NEW pc \in PC, NEW records \in [Match -> Scores \cup {None}], NEW todo \in SUBSET Match
  PROVE  /\ Begin(pc, records, todo) \in Writing
         /\ Begin(pc, records, todo).pc = pc /\ Begin(pc, records, todo).at = None
         /\ Begin(pc, records, todo).read = None /\ Begin(pc, records, todo).wrote = NoRecords
         /\ Begin(pc, records, todo).records = records /\ Begin(pc, records, todo).todo = todo
BY DEF Begin, Writing, NoRecords

\* A row made of a score of a source.
LEMMA NewRowIs ==
  ASSUME NEW pass \in Passes, NEW score \in Scores
  PROVE  /\ NewRow(pass, score) \in Row /\ Score(NewRow(pass, score)) = score
         /\ NewRow(pass, score).source = SourceOf(pass) /\ SourceOf(pass) \in Sources
         /\ NewRow(pass, score).confirmed = (pass # "fallback")
<1>1. score \in [home : Nat, away : Nat]
  BY ResultsAssumption DEF Scores, Sources
<1>2. score = [home |-> score.home, away |-> score.away]
  BY <1>1
<1> QED BY <1>1, <1>2 DEF NewRow, Row, Score, SourceOf, Sources

\* An UPDATE of the columns that differ from what was read.
LEMMA PatchIs ==
  ASSUME NEW current \in Row, NEW read \in Row, NEW new \in Row
  PROVE  LET patched == Patch(current, read, new)
         IN  /\ patched \in Row
             /\ patched.source = IF new.source # read.source THEN new.source ELSE current.source
             /\ patched.confirmed = IF new.confirmed # read.confirmed THEN new.confirmed
                                    ELSE current.confirmed
             /\ Score(read) = Score(new) => Score(patched) = Score(current)
             /\ Score(read) = Score(current) => Score(patched) = Score(new)
<1> DEFINE pick(f) == IF new[f] # read[f] THEN new[f] ELSE current[f]
<1>1. DOMAIN new = {"home", "away", "source", "confirmed"}
  BY DEF Row
<1>2. Patch(current, read, new) = [f \in {"home", "away", "source", "confirmed"} |-> pick(f)]
  BY <1>1 DEF Patch
<1>3. Patch(current, read, new)
        = [home |-> pick("home"), away |-> pick("away"), source |-> pick("source"),
           confirmed |-> pick("confirmed")]
  BY <1>2
<1>4. /\ pick("home") = (IF new.home # read.home THEN new.home ELSE current.home)
      /\ pick("away") = (IF new.away # read.away THEN new.away ELSE current.away)
      /\ pick("source") = (IF new.source # read.source THEN new.source ELSE current.source)
      /\ pick("confirmed") = (IF new.confirmed # read.confirmed THEN new.confirmed
                              ELSE current.confirmed)
  BY DEF Row
<1> HIDE DEF pick
<1>5. Patch(current, read, new) \in Row
  BY <1>3, <1>4 DEF Row
<1>6. /\ Patch(current, read, new).home = pick("home")
      /\ Patch(current, read, new).away = pick("away")
      /\ Patch(current, read, new).source = pick("source")
      /\ Patch(current, read, new).confirmed = pick("confirmed")
  BY <1>3
<1>7. \A a, b \in Row : Score(a) = Score(b) <=> a.home = b.home /\ a.away = b.away
  BY DEF Score
<1> QED BY <1>4, <1>5, <1>6, <1>7

-----------------------------------------------------------------------------
(* What the steps do.                                                      *)

\* A writer starts another pass, or stops.
Restart(w) ==
  \E pc \in PC, records \in [Match -> Scores \cup {None}], todo \in SUBSET Match :
    /\ tx' = [tx EXCEPT ![w] = Begin(pc, records, todo)]
    /\ UNCHANGED <<world, row>>
    /\ IF w = "backfill" THEN pc \in {"idle", "backfill"} ELSE pc # "backfill"
    /\ pc \in Passes => \A m \in todo : /\ records[m] # None
                                        /\ records[m] \in history[SourceOf(pc)][m]

\* A writer that stops restarts.
LEMMA StopRestarts ==
  ASSUME NEW w \in Writers, NEW pc \in PC \ Passes, tx' = [tx EXCEPT ![w] = At(pc)],
         w = "backfill" => pc = "idle", UNCHANGED <<world, row>>
  PROVE  Restart(w)
<1>1. NoRecords \in [Match -> Scores \cup {None}] /\ {} \in SUBSET Match
  BY DEF NoRecords
<1>2. IF w = "backfill" THEN pc \in {"idle", "backfill"} ELSE pc # "backfill"
  BY DEF Passes
<1> QED BY <1>1, <1>2 DEF Restart, At

\* After a pass, another.
LEMMA AfterIs ==
  ASSUME ResultsInv, NEW w \in Writers, tx[w].pc \in Passes
  PROVE  \E pc \in PC \ Passes : After(tx[w].pc) = At(pc) /\ (w = "backfill" => pc = "idle")
<1>1. tx["backfill"].pc \in {"idle", "backfill"}
  BY DEF ResultsInv, Placed
<1>2. CASE tx[w].pc = "hkjc"
  BY <1>1, <1>2 DEF After, PC, Passes
<1>3. CASE tx[w].pc = "fallback"
  BY <1>1, <1>3 DEF After, PC, Passes
<1>4. CASE tx[w].pc = "backfill"
  BY <1>1, <1>4 DEF After, PC, Passes
<1> QED BY <1>2, <1>3, <1>4 DEF Passes

\* A pass that was answered restarts with scores its source has shown.
LEMMA AnswerRestarts ==
  ASSUME ResultsInv, NEW w \in Writers, NEW pc \in Passes, NEW todo \in SUBSET Match,
         \A m \in todo : published[SourceOf(pc)][m] # None,
         tx' = [tx EXCEPT ![w] = Begin(pc, published[SourceOf(pc)], todo)],
         IF w = "backfill" THEN pc = "backfill" ELSE pc # "backfill", UNCHANGED <<world, row>>
  PROVE  Restart(w)
<1>1. SourceOf(pc) \in Sources
  BY DEF SourceOf, Sources
<1>2. published[SourceOf(pc)] \in [Match -> Scores \cup {None}]
  BY <1>1 DEF ResultsInv, TypeOK
<1>3. \A m \in todo : published[SourceOf(pc)][m] \in history[SourceOf(pc)][m]
  BY <1>1 DEF ResultsInv, RecordsAreShown
<1>4. pc \in PC
  BY DEF PC
<1> QED BY <1>2, <1>3, <1>4 DEF Restart

\* The steps there are.
LEMMA StepKinds ==
  ASSUME ResultsInv, [Next]_vars
  PROVE  \/ UNCHANGED <<row, tx, history, published>>
         \/ \E s \in Sources, m \in Match : \E score \in ScoresOf[s] : Publish(s, m, score)
         \/ \E w \in Writers : \/ \E m \in Match : ReadRow(w, m)
                               \/ WriteRow(w) \/ CommitPass(w) \/ Restart(w)
<1>w. "settle" \in Writers /\ "backfill" \in Writers
  BY DEF Writers
<1>1. CASE Tick \/ (\E m \in Match : CallOff(m)) \/ UNCHANGED vars
  BY <1>1 DEF Tick, CallOff, vars, world
<1>2. ASSUME NEW w \in Writers, RollBackPass(w) PROVE Restart(w)
  <2>1. tx[w].pc \in Passes
    BY <1>2, TxType DEF RollBackPass, ResultsInv, Placed
  <2>2. PICK pc \in PC \ Passes : After(tx[w].pc) = At(pc) /\ (w = "backfill" => pc = "idle")
    BY <2>1, AfterIs
  <2> QED BY <1>2, <2>2, StopRestarts DEF RollBackPass
<1>3. ASSUME NEW w \in Writers, Fail(w) PROVE Restart(w)
  <2>1. CASE tx' = [tx EXCEPT ![w] = At("idle")]
    <3>1. "idle" \in PC \ Passes
      BY DEF PC, Passes
    <3> QED BY <1>3, <2>1, <3>1, StopRestarts DEF Fail
  <2>2. CASE tx[w].pc \in Passes /\ tx' = [tx EXCEPT ![w] = After(tx[w].pc)]
    <3>1. PICK pc \in PC \ Passes : After(tx[w].pc) = At(pc) /\ (w = "backfill" => pc = "idle")
      BY <2>2, AfterIs
    <3> QED BY <1>3, <2>2, <3>1, StopRestarts DEF Fail
  <2>3. CASE tx[w].pc = "ask" /\ tx' = [tx EXCEPT ![w] = At("flag")]
    <3>1. "flag" \in PC \ Passes /\ w # "backfill"
      BY <2>3 DEF PC, Passes, ResultsInv, Placed
    <3> QED BY <1>3, <2>3, <3>1, StopRestarts DEF Fail
  <2> QED BY <1>3, <2>1, <2>2, <2>3 DEF Fail
<1>4. CASE FetchHkjc
  <2> DEFINE todo == Answered("hkjc", HkjcLookback)
  <2>1. /\ todo \in SUBSET Match /\ SourceOf("hkjc") = "hkjc"
        /\ \A m \in todo : published["hkjc"][m] # None
        /\ "hkjc" \in Passes
    BY DEF Answered, SourceOf, Passes
  <2>2. /\ tx' = [tx EXCEPT !["settle"] = Begin("hkjc", published["hkjc"], todo)]
        /\ UNCHANGED <<world, row>>
    BY <1>4 DEF FetchHkjc
  <2> HIDE DEF todo
  <2> QED BY <1>w, <2>1, <2>2, AnswerRestarts
<1>5. CASE FetchFallback
  <2> DEFINE todo == tx["settle"].todo \cap Answered("football_data", FallbackLookback)
  <2>1. /\ todo \in SUBSET Match /\ SourceOf("fallback") = "football_data"
        /\ \A m \in todo : published["football_data"][m] # None
        /\ "fallback" \in Passes
    BY DEF Answered, SourceOf, Passes
  <2>2. /\ tx' = [tx EXCEPT !["settle"] = Begin("fallback", published["football_data"], todo)]
        /\ UNCHANGED <<world, row>>
    BY <1>5 DEF FetchFallback
  <2> HIDE DEF todo
  <2> QED BY <1>w, <2>1, <2>2, AnswerRestarts
<1>6. CASE FetchSeason
  <2> DEFINE todo == {m \in Match : published["football_data"][m] # None}
  <2>1. /\ todo \in SUBSET Match /\ SourceOf("backfill") = "football_data"
        /\ \A m \in todo : published["football_data"][m] # None
        /\ "backfill" \in Passes
    BY DEF SourceOf, Passes
  <2> QED BY <1>w, <1>6, <2>1, AnswerRestarts DEF FetchSeason
<1>7. CASE FlagUnresolved
  <2>1. "idle" \in PC \ Passes
    BY DEF PC, Passes
  <2> QED BY <1>w, <1>7, <2>1, StopRestarts DEF FlagUnresolved
<1>8. CASE SelectCandidates
  <2>1. "flag" \in PC \ Passes /\ "ask" \in PC \ Passes
    BY DEF PC, Passes
  <2>2. CASE Candidates = {}
    BY <1>w, <1>8, <2>1, <2>2, StopRestarts DEF SelectCandidates
  <2>3. CASE Candidates # {}
    <3>1. NoRecords \in [Match -> Scores \cup {None}] /\ Candidates \in SUBSET Match
      BY DEF NoRecords, Candidates
    <3> QED BY <1>w, <1>8, <2>1, <2>3, <3>1 DEF SelectCandidates, Restart
  <2> QED BY <2>2, <2>3
<1> QED BY <1>w, <1>1, <1>2, <1>3, <1>4, <1>5, <1>6, <1>7, <1>8 DEF Next, SettleResults, Upsert

\* A SELECT leaves the match to the writer, with the row it saw; or skips it.
LEMMA ReadDoes ==
  ASSUME ResultsInv, NEW w \in Writers, NEW m \in Match, ReadRow(w, m)
  PROVE  /\ tx' \in [Writers -> Writing] /\ \A v \in Writers : v # w => tx'[v] = tx[v]
         /\ tx[w].pc \in Passes /\ m \in tx[w].todo
         /\ tx'[w].pc = tx[w].pc /\ tx'[w].records = tx[w].records
         /\ tx'[w].wrote = tx[w].wrote /\ tx'[w].todo = tx[w].todo \ {m}
         /\ \/ tx'[w].at = None
            \/ tx'[w].at = m /\ tx'[w].read = row[m] /\ ~Skips(tx[w].pc, row[m])
         /\ UNCHANGED <<world, row>>
<1>0. TypeOK /\ tx[w] \in Writing /\ row[m] \in Row \cup {None}
  BY TxType DEF ResultsInv, TypeOK
<1>1. CASE Skips(tx[w].pc, row[m])
  <2> DEFINE new == [tx[w] EXCEPT !.todo = tx[w].todo \ {m}]
  <2>1. new \in Writing
    BY <1>0 DEF Writing
  <2>2. tx' = [tx EXCEPT ![w] = new]
    BY <1>1 DEF ReadRow
  <2>3. /\ new.pc = tx[w].pc /\ new.records = tx[w].records /\ new.at = tx[w].at
        /\ new.wrote = tx[w].wrote /\ new.todo = tx[w].todo \ {m}
    BY <1>0 DEF Writing
  <2> HIDE DEF new
  <2> QED BY <1>0, <2>1, <2>2, <2>3, OneSteps DEF ReadRow
<1>2. CASE ~Skips(tx[w].pc, row[m])
  <2> DEFINE new == [tx[w] EXCEPT !.todo = tx[w].todo \ {m}, !.at = m, !.read = row[m]]
  <2>1. new \in Writing
    BY <1>0 DEF Writing
  <2>2. tx' = [tx EXCEPT ![w] = new]
    BY <1>2 DEF ReadRow
  <2>3. /\ new.pc = tx[w].pc /\ new.records = tx[w].records /\ new.at = m /\ new.read = row[m]
        /\ new.wrote = tx[w].wrote /\ new.todo = tx[w].todo \ {m}
    BY <1>0 DEF Writing
  <2> HIDE DEF new
  <2> QED BY <1>0, <1>2, <2>1, <2>2, <2>3, OneSteps DEF ReadRow
<1> QED BY <1>1, <1>2

\* What a flush puts into the row.
Written(w) ==
  LET new == NewRow(tx[w].pc, tx[w].records[tx[w].at])
  IN  IF tx[w].read = None THEN new ELSE Patch(row[tx[w].at], tx[w].read, new)

\* A flush is of a row nobody else has written; what it writes keeps what others
\* rely on.
LEMMA WriteDoes ==
  ASSUME ResultsInv, NEW w \in Writers, WriteRow(w)
  PROVE  LET m == tx[w].at
         IN  /\ tx' \in [Writers -> Writing] /\ \A v \in Writers : v # w => tx'[v] = tx[v]
             /\ tx[w].pc \in Passes /\ m \in Match
             /\ tx'[w].pc = tx[w].pc /\ tx'[w].records = tx[w].records
             /\ tx'[w].todo = tx[w].todo /\ tx'[w].at = None
             /\ tx'[w].wrote = [tx[w].wrote EXCEPT ![m] = Written(w)]
             /\ \A v \in Writers \ {w} : tx[v].wrote[m] = None
             /\ UNCHANGED <<world, row>>
<1> DEFINE m == tx[w].at
           new == [tx[w] EXCEPT !.at = None, !.read = None,
                                !.wrote = [tx[w].wrote EXCEPT ![m] = Written(w)]]
<1>0. TypeOK /\ tx[w] \in Writing /\ tx[w].wrote \in [Match -> Row \cup {None}] /\ m \in Match
  BY TxType DEF ResultsInv, WriteRow
<1>1. tx[w].pc \in Passes
  BY <1>0, ResultsAssumption DEF ResultsInv, Placed, WriteRow
<1>2. Written(w) \in Row
  <2>1. NewRow(tx[w].pc, tx[w].records[m]) \in Row
    <3>1. tx[w].records[m] \in Scores
      BY <1>0, <1>1, TxType DEF ResultsInv, RecordsAreShown
    <3> QED BY <1>1, <3>1, NewRowIs
  <2>2. tx[w].read \in Row \cup {None} /\ (tx[w].read # None => row[m] \in Row)
    BY <1>0, TxType, ResultsAssumption
       DEF ResultsInv, TransactionsHold, ReadHolds, TypeOK, Writing
  <2> QED BY <2>1, <2>2, PatchIs DEF Written
<1>3. new \in Writing
  BY <1>0, <1>2 DEF Writing
<1>4. tx' = [tx EXCEPT ![w] = new]
  BY DEF WriteRow, Written
<1>5. /\ new.pc = tx[w].pc /\ new.records = tx[w].records /\ new.todo = tx[w].todo
      /\ new.at = None /\ new.wrote = [tx[w].wrote EXCEPT ![m] = Written(w)]
  BY <1>0 DEF Writing
<1>6. \A v \in Writers \ {w} : tx[v].wrote[m] = None
  BY DEF WriteRow, Locked
<1>7. UNCHANGED <<world, row>>
  BY DEF WriteRow
<1> HIDE DEF new
<1> QED BY <1>0, <1>1, <1>3, <1>4, <1>5, <1>6, <1>7, OneSteps

\* A commit puts what was written into the table, and the writer restarts.
LEMMA CommitDoes ==
  ASSUME ResultsInv, NEW w \in Writers, CommitPass(w)
  PROVE  /\ tx' \in [Writers -> Writing] /\ \A v \in Writers : v # w => tx'[v] = tx[v]
         /\ tx[w].pc \in Passes
         /\ tx'[w].pc \in PC \ Passes /\ (w = "backfill" => tx'[w].pc = "idle")
         /\ tx'[w].at = None /\ tx'[w].wrote = NoRecords
         /\ row' = [m \in Match |-> IF tx[w].wrote[m] # None THEN tx[w].wrote[m] ELSE row[m]]
         /\ UNCHANGED world
<1>0. TypeOK /\ tx[w].pc \in Passes
  BY DEF ResultsInv, CommitPass
<1>1. PICK pc \in PC \ Passes : After(tx[w].pc) = At(pc) /\ (w = "backfill" => pc = "idle")
  BY <1>0, AfterIs
<1>2. /\ At(pc) \in Writing /\ At(pc).pc = pc /\ At(pc).at = None /\ At(pc).wrote = NoRecords
  <2>1. NoRecords \in [Match -> Scores \cup {None}] /\ {} \in SUBSET Match
    BY DEF NoRecords
  <2> QED BY <2>1, BeginType DEF At
<1>3. tx' = [tx EXCEPT ![w] = At(pc)]
  BY <1>1 DEF CommitPass
<1> HIDE DEF CommitPass
<1> QED BY <1>0, <1>1, <1>2, <1>3, OneSteps DEF CommitPass

\* So does a writer that restarts.
LEMMA RestartDoes ==
  ASSUME ResultsInv, NEW w \in Writers, Restart(w)
  PROVE  /\ tx' \in [Writers -> Writing] /\ \A v \in Writers : v # w => tx'[v] = tx[v]
         /\ IF w = "backfill" THEN tx'[w].pc \in {"idle", "backfill"} ELSE tx'[w].pc # "backfill"
         /\ tx'[w].at = None /\ tx'[w].wrote = NoRecords
         /\ tx'[w].pc \in Passes => \A m \in tx'[w].todo :
              /\ tx'[w].records[m] # None
              /\ tx'[w].records[m] \in history[SourceOf(tx'[w].pc)][m]
         /\ UNCHANGED <<world, row>>
<1>1. PICK pc \in PC, records \in [Match -> Scores \cup {None}], todo \in SUBSET Match :
    /\ tx' = [tx EXCEPT ![w] = Begin(pc, records, todo)]
    /\ UNCHANGED <<world, row>>
    /\ IF w = "backfill" THEN pc \in {"idle", "backfill"} ELSE pc # "backfill"
    /\ pc \in Passes => \A m \in todo : /\ records[m] # None
                                        /\ records[m] \in history[SourceOf(pc)][m]
  BY DEF Restart
<1>2. /\ Begin(pc, records, todo) \in Writing
      /\ Begin(pc, records, todo).pc = pc /\ Begin(pc, records, todo).at = None
      /\ Begin(pc, records, todo).wrote = NoRecords
      /\ Begin(pc, records, todo).records = records /\ Begin(pc, records, todo).todo = todo
  BY BeginType
<1>3. TypeOK
  BY DEF ResultsInv
<1> QED BY <1>1, <1>2, <1>3, OneSteps

\* A source is never silent about what it has shown.
LEMMA HistoryGrows ==
  ASSUME ResultsInv, [Next]_vars
  PROVE  /\ \A s \in Sources, m \in Match : history[s][m] \subseteq history'[s][m]
         /\ \A m \in Match : Steady(m)' => Steady(m)
<1>0. history \in [Sources -> [Match -> SUBSET Scores]]
  BY DEF ResultsInv, TypeOK
<1>1. ASSUME NEW s \in Sources, NEW m \in Match, NEW score \in ScoresOf[s], Publish(s, m, score)
      PROVE  \A z \in Sources, n \in Match : history[z][n] \subseteq history'[z][n]
  BY <1>0, <1>1 DEF Publish
<1>2. \A s \in Sources, m \in Match : history[s][m] \subseteq history'[s][m]
  <2>1. CASE history' = history
    BY <2>1
  <2> QED BY <1>1, <2>1, StepKinds, ReadDoes, WriteDoes, CommitDoes, RestartDoes DEF world
<1> QED BY <1>2 DEF Steady, Sources

-----------------------------------------------------------------------------
(* The parts of the invariant.                                             *)

\* The types are kept.
LEMMA TypeStep == ResultsInv /\ [Next]_vars => TypeOK'
<1> SUFFICES ASSUME ResultsInv, [Next]_vars PROVE TypeOK'
  OBVIOUS
<1>0. TypeOK
  BY DEF ResultsInv
<1>1. tx' \in [Writers -> Writing]
  <2>1. CASE tx' = tx
    BY <1>0, <2>1 DEF TypeOK
  <2> QED BY <2>1, StepKinds, ReadDoes, WriteDoes, CommitDoes, RestartDoes DEF Publish
<1>2. row' \in [Match -> Row \cup {None}]
  <2>1. CASE row' = row
    BY <1>0, <2>1 DEF TypeOK
  <2>2. ASSUME NEW w \in Writers, CommitPass(w) PROVE row' \in [Match -> Row \cup {None}]
    <3>1. tx[w].wrote \in [Match -> Row \cup {None}]
      BY <1>0, TxType
    <3> QED BY <1>0, <2>2, <3>1, CommitDoes DEF TypeOK
  <2> QED BY <2>1, <2>2, StepKinds, ReadDoes, WriteDoes, RestartDoes DEF Publish
<1>3. /\ published' \in [Sources -> [Match -> Scores \cup {None}]]
      /\ history' \in [Sources -> [Match -> SUBSET Scores]]
  <2>1. CASE UNCHANGED <<published, history>>
    BY <1>0, <2>1 DEF TypeOK
  <2>2. ASSUME NEW s \in Sources, NEW m \in Match, NEW score \in ScoresOf[s], Publish(s, m, score)
        PROVE  /\ published' \in [Sources -> [Match -> Scores \cup {None}]]
               /\ history' \in [Sources -> [Match -> SUBSET Scores]]
    <3>1. score \in Scores
      BY DEF Scores
    <3>2. [published[s] EXCEPT ![m] = score] \in [Match -> Scores \cup {None}]
      BY <1>0, <3>1 DEF TypeOK
    <3>3. [history[s] EXCEPT ![m] = history[s][m] \cup {score}] \in [Match -> SUBSET Scores]
      BY <1>0, <3>1 DEF TypeOK
    <3> QED BY <1>0, <2>2, <3>2, <3>3 DEF TypeOK, Publish
  <2> QED BY <2>1, <2>2, StepKinds, ReadDoes, WriteDoes, CommitDoes, RestartDoes DEF world
<1>4. /\ clock' \in Time /\ kickoff' \in [Match -> Kickoffs] /\ calledOff' \subseteq Match
      /\ flagged' \subseteq Match
      /\ corrections' \in 0 .. MaxCorrections /\ backfills' \in 0 .. MaxBackfills
      /\ failures' \in 0 .. MaxFailures
  <2> DEFINE Rest == UNCHANGED <<clock, kickoff, calledOff, flagged, corrections, backfills, failures>>
             Goal == /\ clock' \in Time /\ kickoff' \in [Match -> Kickoffs] /\ calledOff' \subseteq Match
                     /\ flagged' \subseteq Match
                     /\ corrections' \in 0 .. MaxCorrections /\ backfills' \in 0 .. MaxBackfills
                     /\ failures' \in 0 .. MaxFailures
  <2>1. Rest => Goal
    BY <1>0 DEF TypeOK
  <2>2. ASSUME Tick PROVE Goal
    BY <1>0, <2>2, ResultsAssumption DEF Tick, TypeOK, Time
  <2>3. ASSUME NEW m \in Match, CallOff(m) PROVE Goal
    BY <1>0, <2>3 DEF CallOff, TypeOK
  <2>4. ASSUME NEW s \in Sources, NEW m \in Match, NEW score \in ScoresOf[s], Publish(s, m, score)
        PROVE  Goal
    <3>1. corrections' \in 0 .. MaxCorrections
      BY <1>0, <2>4, ResultsAssumption DEF Publish, TypeOK
    <3> QED BY <1>0, <2>4, <3>1 DEF Publish, TypeOK
  <2>5. ASSUME FlagUnresolved PROVE Goal
    BY <1>0, <2>5 DEF FlagUnresolved, NewFlag, Unresolved, TypeOK, world
  <2>6. ASSUME FetchSeason PROVE Goal
    BY <1>0, <2>6, ResultsAssumption DEF FetchSeason, TypeOK, world
  <2>7. ASSUME NEW w \in Writers, Fail(w) PROVE Goal
    BY <1>0, <2>7, ResultsAssumption DEF Fail, TypeOK, world
  <2>8. ASSUME FetchHkjc \/ SelectCandidates \/ FetchFallback \/ UNCHANGED vars PROVE Goal
    <3>1. Rest
      BY <2>8 DEF FetchHkjc, SelectCandidates, FetchFallback, vars, world
    <3> QED BY <2>1, <3>1
  <2>9. ASSUME NEW w, Upsert(w) PROVE Goal
    <3>1. Rest
      BY <2>9 DEF Upsert, ReadRow, WriteRow, CommitPass, RollBackPass, world
    <3> QED BY <2>1, <3>1
  <2> HIDE DEF Rest, Goal
  <2>10. Goal
    BY <2>2, <2>3, <2>4, <2>5, <2>6, <2>7, <2>8, <2>9 DEF Next, SettleResults
  <2> QED BY <2>10 DEF Goal
<1> QED BY <1>1, <1>2, <1>3, <1>4 DEF TypeOK

\* Writers stay where they belong, and never write the same row.
LEMMA PlacedStep == ResultsInv /\ [Next]_vars => Placed'
<1> SUFFICES ASSUME ResultsInv, [Next]_vars PROVE Placed'
  OBVIOUS
<1>0. TypeOK /\ Placed /\ Writers = {"settle", "backfill"}
  BY DEF ResultsInv, Writers
<1>1. CASE tx' = tx
  BY <1>0, <1>1 DEF Placed
<1>2. ASSUME NEW w \in Writers,
             \A v \in Writers : v # w => tx'[v] = tx[v],
             IF w = "backfill" THEN tx'[w].pc \in {"idle", "backfill"} ELSE tx'[w].pc # "backfill",
             tx'[w].pc \notin Passes => tx'[w].at = None /\ tx'[w].wrote = NoRecords,
             \A m \in Match : tx'[w].wrote[m] = None \/ \A v \in Writers \ {w} : tx[v].wrote[m] = None
      PROVE  Placed'
  <2>1. ASSUME NEW m \in Match PROVE \E v \in Writers : tx'[v].wrote[m] = None
    <3>1. PICK v \in Writers : v # w
      BY <1>0
    <3> QED BY <1>2, <3>1
  <2> QED BY <1>0, <1>2, <2>1 DEF Placed
<1>3. ASSUME NEW w \in Writers, NEW m \in Match, ReadRow(w, m) PROVE Placed'
  <2>1. \A n \in Match : tx'[w].wrote[n] = None \/ \A v \in Writers \ {w} : tx[v].wrote[n] = None
    BY <1>0, <1>3, ReadDoes DEF Placed
  <2> QED BY <1>0, <1>2, <1>3, <2>1, ReadDoes DEF Placed
<1>4. ASSUME NEW w \in Writers, WriteRow(w) PROVE Placed'
  <2>1. ASSUME NEW n \in Match
        PROVE  tx'[w].wrote[n] = None \/ \A v \in Writers \ {w} : tx[v].wrote[n] = None
    <3>1. CASE n = tx[w].at
      BY <1>4, <3>1, WriteDoes
    <3>2. CASE n # tx[w].at
      <4>1. tx'[w].wrote[n] = tx[w].wrote[n]
        BY <1>0, <1>4, <3>2, WriteDoes, TxType
      <4> QED BY <1>0, <4>1 DEF Placed
    <3> QED BY <3>1, <3>2
  <2> QED BY <1>0, <1>2, <1>4, <2>1, WriteDoes DEF Placed
<1>5. ASSUME NEW w \in Writers, CommitPass(w) PROVE Placed'
  <2>1. \A n \in Match : tx'[w].wrote[n] = None
    BY <1>5, CommitDoes DEF NoRecords
  <2>2. tx'[w].pc # "backfill"
    BY <1>5, CommitDoes DEF Passes
  <2> QED BY <1>2, <1>5, <2>1, <2>2, CommitDoes
<1>6. ASSUME NEW w \in Writers, Restart(w) PROVE Placed'
  <2>1. \A n \in Match : tx'[w].wrote[n] = None
    BY <1>6, RestartDoes DEF NoRecords
  <2> QED BY <1>2, <1>6, <2>1, RestartDoes
<1> QED BY <1>1, <1>3, <1>4, <1>5, <1>6, StepKinds DEF Publish

\* A pass stores what its source has shown, whatever it shows by then.
LEMMA RecordsStep == ResultsInv /\ [Next]_vars => RecordsAreShown'
<1> SUFFICES ASSUME ResultsInv, [Next]_vars PROVE RecordsAreShown'
  OBVIOUS
<1>0. TypeOK /\ RecordsAreShown
  BY DEF ResultsInv
<1>1. \A s \in Sources, m \in Match : published'[s][m] # None => published'[s][m] \in history'[s][m]
  <2>1. CASE UNCHANGED <<published, history>>
    BY <1>0, <2>1 DEF RecordsAreShown
  <2>2. ASSUME NEW s \in Sources, NEW m \in Match, NEW score \in ScoresOf[s], Publish(s, m, score),
               NEW z \in Sources, NEW n \in Match, published'[z][n] # None
        PROVE  published'[z][n] \in history'[z][n]
    <3>1. /\ published' = [published EXCEPT ![s][m] = score]
          /\ history' = [history EXCEPT ![s][m] = history[s][m] \cup {score}]
          /\ published \in [Sources -> [Match -> Scores \cup {None}]]
          /\ history \in [Sources -> [Match -> SUBSET Scores]]
      BY <1>0, <2>2 DEF Publish, TypeOK
    <3>2. CASE z = s /\ n = m
      BY <3>1, <3>2
    <3>3. CASE ~(z = s /\ n = m)
      <4>1. published'[z][n] = published[z][n] /\ history'[z][n] = history[z][n]
        BY <3>1, <3>3
      <4> QED BY <1>0, <2>2, <4>1 DEF RecordsAreShown
    <3> QED BY <3>2, <3>3
  <2> QED BY <2>1, <2>2, StepKinds, ReadDoes, WriteDoes, CommitDoes, RestartDoes DEF world
<1>s. \A pc : SourceOf(pc) \in Sources
  BY DEF SourceOf, Sources
<1>2. ASSUME NEW v \in Writers, tx'[v].pc \in Passes, NEW m \in Match,
             m \in tx'[v].todo \/ m = tx'[v].at
      PROVE  tx'[v].records[m] # None /\ tx'[v].records[m] \in history'[SourceOf(tx'[v].pc)][m]
  <2>1. ASSUME tx'[v].pc = tx[v].pc, tx'[v].records = tx[v].records,
               m \in tx[v].todo \/ m = tx[v].at
        PROVE  tx'[v].records[m] # None /\ tx'[v].records[m] \in history'[SourceOf(tx'[v].pc)][m]
    BY <1>0, <1>s, <1>2, <2>1, HistoryGrows DEF RecordsAreShown
  <2>n. None \notin Match
    BY ResultsAssumption
  <2>2. CASE tx'[v] = tx[v]
    BY <1>2, <2>1, <2>2
  <2>3. ASSUME NEW w \in Writers, NEW n \in Match, ReadRow(w, n), w = v
        PROVE  tx'[v].records[m] # None /\ tx'[v].records[m] \in history'[SourceOf(tx'[v].pc)][m]
    BY <1>2, <2>1, <2>n, <2>3, ReadDoes
  <2>4. ASSUME NEW w \in Writers, WriteRow(w), w = v
        PROVE  tx'[v].records[m] # None /\ tx'[v].records[m] \in history'[SourceOf(tx'[v].pc)][m]
    BY <1>2, <2>1, <2>n, <2>4, WriteDoes
  <2>5. ASSUME NEW w \in Writers, CommitPass(w) PROVE w # v
    BY <1>2, <2>5, CommitDoes
  <2>6. ASSUME NEW w \in Writers, Restart(w), w = v
        PROVE  tx'[v].records[m] # None /\ tx'[v].records[m] \in history'[SourceOf(tx'[v].pc)][m]
    BY <1>2, <2>n, <2>6, RestartDoes DEF world
  <2> QED BY <2>2, <2>3, <2>4, <2>5, <2>6, StepKinds, ReadDoes, WriteDoes, CommitDoes, RestartDoes
          DEF Publish
<1> QED BY <1>1, <1>2 DEF RecordsAreShown

\* A row only changes when a writer commits it.
LEMMA RowMoves ==
  ASSUME ResultsInv, [Next]_vars, NEW m \in Match
  PROVE  \/ row'[m] = row[m]
         \/ \E w \in Writers : CommitPass(w) /\ tx[w].wrote[m] # None /\ row'[m] = tx[w].wrote[m]
<1>1. ASSUME NEW w \in Writers, CommitPass(w)
      PROVE  row'[m] = row[m] \/ (tx[w].wrote[m] # None /\ row'[m] = tx[w].wrote[m])
  BY <1>1, CommitDoes
<1> QED BY <1>1, StepKinds, ReadDoes, WriteDoes, RestartDoes DEF Publish

\* Rows stay sound.
LEMMA RowsStep == ResultsInv /\ [Next]_vars => RowsAreSound'
<1> SUFFICES ASSUME ResultsInv, [Next]_vars, NEW m \in Match, row'[m] # None
             PROVE  /\ row'[m].source = "hkjc" => row'[m].confirmed
                    /\ Steady(m)' => Score(row'[m]) \in history'[row'[m].source][m]
  BY DEF RowsAreSound, Score
<1>0. TypeOK /\ RowsAreSound
  BY DEF ResultsInv
<1>1. CASE row'[m] = row[m]
  <2>1. row[m].source \in Sources
    BY <1>0, <1>1 DEF TypeOK, Row
  <2> QED BY <1>0, <1>1, <2>1, HistoryGrows DEF RowsAreSound
<1>2. ASSUME NEW w \in Writers, CommitPass(w), tx[w].wrote[m] # None, row'[m] = tx[w].wrote[m]
      PROVE  /\ row'[m].source = "hkjc" => row'[m].confirmed
             /\ Steady(m)' => Score(row'[m]) \in history'[row'[m].source][m]
  <2>1. WriteHolds(w, m) /\ history' = history
    BY <1>2, CommitDoes DEF ResultsInv, TransactionsHold, world
  <2> QED BY <1>2, <2>1, HistoryGrows DEF WriteHolds
<1> QED BY <1>1, <1>2, RowMoves

\* What a flush writes keeps what the other writer relies on.
LEMMA WrittenHolds ==
  ASSUME ResultsInv, NEW w \in Writers, WriteRow(w)
  PROVE  LET m   == tx[w].at
             new == Written(w)
         IN  /\ new.source = "hkjc" => new.confirmed
             /\ tx[w].pc = "hkjc" => new.source = "hkjc"
             /\ tx[w].pc # "hkjc" =>
                  new.source = IF row[m] = None THEN "football_data" ELSE row[m].source
             /\ Steady(m) => Score(new) \in history[new.source][m]
             /\ w = "backfill" /\ row[m] # None =>
                  /\ row[m].confirmed => new.confirmed
                  /\ Steady(m) => Score(new) = Score(row[m])
<1> DEFINE m    == tx[w].at
           read == tx[w].read
           new  == NewRow(tx[w].pc, tx[w].records[m])
<1>0. TypeOK /\ m \in Match /\ m # None /\ tx[w].pc \in Passes
  BY WriteDoes, ResultsAssumption DEF ResultsInv
<1>1. /\ tx[w].records[m] \in Scores /\ tx[w].records[m] \in history[SourceOf(tx[w].pc)][m]
  BY <1>0, TxType DEF ResultsInv, RecordsAreShown
<1>2. /\ new \in Row /\ Score(new) = tx[w].records[m]
      /\ new.source = SourceOf(tx[w].pc) /\ new.confirmed = (tx[w].pc # "fallback")
  BY <1>0, <1>1, NewRowIs
<1>w. /\ w = "backfill" <=> tx[w].pc = "backfill"
      /\ w = "settle" <=> tx[w].pc # "backfill"
  BY <1>0 DEF ResultsInv, Placed, Passes, Writers
<1>3. CASE read = None
  <2>1. row[m] = None
    BY <1>3 DEF WriteRow, Collides
  <2>2. Written(w) = new
    BY <1>3 DEF Written
  <2> QED BY <1>0, <1>1, <1>2, <2>1, <2>2 DEF SourceOf
<1>4. CASE read # None
  <2>1. ReadHolds(w) /\ read \in Row
    BY <1>4, TxType DEF ResultsInv, TransactionsHold
  <2>2. row[m] # None /\ row[m] \in Row
    BY <1>0, <1>4, <2>1 DEF ReadHolds, TypeOK
  <2> DEFINE patched == Patch(row[m], read, new)
  <2>3. Written(w) = patched
    BY <1>4 DEF Written
  <2>4. /\ patched.source = IF new.source # read.source THEN new.source ELSE row[m].source
        /\ patched.confirmed = IF new.confirmed # read.confirmed THEN new.confirmed
                               ELSE row[m].confirmed
        /\ Score(read) = Score(new) => Score(patched) = Score(row[m])
        /\ Score(read) = Score(row[m]) => Score(patched) = Score(new)
    BY <1>2, <2>1, <2>2, PatchIs
  <2>5. RowsAreSound /\ read.confirmed \in BOOLEAN /\ row[m].confirmed \in BOOLEAN
    BY <2>1, <2>2 DEF ResultsInv, Row
  <2> HIDE DEF patched, new
  <2>6. CASE tx[w].pc = "hkjc"
    <3>1. /\ row[m].source = read.source /\ (Steady(m) => Score(row[m]) = Score(read))
          /\ read.confirmed => row[m].confirmed
      BY <1>0, <1>4, <1>w, <2>1, <2>6 DEF ReadHolds
    <3>2. new.source = "hkjc" /\ new.confirmed
      BY <1>2, <2>6 DEF SourceOf
    <3>3. patched.source = "hkjc" /\ patched.confirmed
      BY <2>4, <2>5, <3>1, <3>2
    <3>4. Steady(m) => Score(patched) \in history["hkjc"][m]
      BY <1>1, <1>2, <2>4, <2>6, <3>1 DEF SourceOf
    <3> QED BY <1>w, <2>3, <2>6, <3>3, <3>4
  <2>7. CASE tx[w].pc = "fallback"
    <3>1. /\ row[m].source = "football_data" /\ read.source = "football_data"
          /\ Steady(m) => Score(row[m]) = Score(read)
      BY <1>0, <1>4, <1>w, <2>1, <2>7 DEF ReadHolds
    <3>2. patched.source = "football_data"
      BY <1>2, <2>4, <2>7, <3>1 DEF SourceOf
    <3>3. Steady(m) => Score(patched) \in history["football_data"][m]
      BY <1>1, <1>2, <2>4, <2>7, <3>1 DEF SourceOf
    <3> QED BY <1>w, <2>2, <2>3, <2>7, <3>1, <3>2, <3>3
  <2>8. CASE tx[w].pc = "backfill"
    <3>1. /\ read.source = "football_data"
          /\ Steady(m) => Score(read) \in history["football_data"][m]
      BY <1>0, <1>4, <1>w, <2>1, <2>8 DEF ReadHolds
    <3>2. patched.source = row[m].source /\ new.confirmed
      BY <1>2, <2>4, <2>8, <3>1 DEF SourceOf
    <3>3. Steady(m) => Score(patched) = Score(row[m])
      <4>1. Steady(m) => Score(read) = Score(new)
        BY <1>1, <1>2, <2>8, <3>1 DEF SourceOf, Steady
      <4> QED BY <2>4, <4>1
    <3>4. row[m].confirmed => patched.confirmed
      BY <2>4, <2>5, <3>2
    <3>5. /\ row[m].source = "hkjc" => row[m].confirmed
          /\ Steady(m) => Score(row[m]) \in history[row[m].source][m]
      BY <1>0, <2>2, <2>5 DEF RowsAreSound
    <3>6. patched.source = "hkjc" => patched.confirmed
      BY <3>2, <3>4, <3>5
    <3>7. Steady(m) => Score(patched) \in history[patched.source][m]
      BY <3>2, <3>3, <3>5
    <3> QED BY <1>w, <2>2, <2>3, <2>8, <3>2, <3>3, <3>4, <3>6, <3>7
  <2> QED BY <1>0, <2>6, <2>7, <2>8 DEF Passes
<1> QED BY <1>3, <1>4

\* What a writer has written of a row, nobody changes beneath it.
LEMMA WritesStep ==
  ASSUME ResultsInv, [Next]_vars, NEW v \in Writers, NEW m \in Match, tx'[v].wrote[m] # None
  PROVE  WriteHolds(v, m)'
<1>0. TypeOK /\ history' \in [Sources -> [Match -> SUBSET Scores]]
  BY TypeStep DEF ResultsInv, TypeOK
<1>1. ASSUME tx'[v].wrote[m] = tx[v].wrote[m], tx'[v].pc = tx[v].pc
      PROVE  WriteHolds(v, m)'
  <2>1. WriteHolds(v, m)
    BY <1>1 DEF ResultsInv, TransactionsHold
  <2>2. row'[m] = row[m]
    <3>1. ASSUME NEW w \in Writers, CommitPass(w), tx[w].wrote[m] # None PROVE FALSE
      <4>1. w # v
        BY <3>1, CommitDoes DEF NoRecords
      <4> QED BY <1>1, <3>1, <4>1 DEF ResultsInv, Placed, Writers
    <3> QED BY <3>1, RowMoves
  <2>3. tx[v].wrote[m].source \in Sources
    BY <1>0, <1>1, TxType DEF Row
  <2> QED BY <1>1, <2>1, <2>2, <2>3, HistoryGrows DEF WriteHolds, Score
<1>2. CASE tx'[v] = tx[v]
  BY <1>1, <1>2
<1>3. ASSUME NEW n \in Match, ReadRow(v, n) PROVE WriteHolds(v, m)'
  BY <1>1, <1>3, ReadDoes
<1>4. ASSUME WriteRow(v) PROVE WriteHolds(v, m)'
  <2>1. tx'[v].wrote[m] = IF m = tx[v].at THEN Written(v) ELSE tx[v].wrote[m]
    BY <1>0, <1>4, WriteDoes, TxType
  <2>2. tx'[v].pc = tx[v].pc /\ UNCHANGED <<row, history>>
    BY <1>4, WriteDoes DEF world
  <2>3. CASE m = tx[v].at
    <3>1. tx'[v].wrote[m] = Written(v)
      BY <2>1, <2>3
    <3> QED BY <1>4, <2>2, <2>3, <3>1, WrittenHolds DEF WriteHolds, Score, Steady
  <2>4. CASE m # tx[v].at
    BY <1>1, <2>1, <2>2, <2>4
  <2> QED BY <2>3, <2>4
<1>5. ASSUME CommitPass(v) \/ Restart(v) PROVE FALSE
  BY <1>5, CommitDoes, RestartDoes DEF NoRecords
<1>6. ASSUME NEW w \in Writers, w # v,
             (\E n \in Match : ReadRow(w, n)) \/ WriteRow(w) \/ CommitPass(w) \/ Restart(w)
      PROVE  tx'[v] = tx[v]
  BY <1>6, ReadDoes, WriteDoes, CommitDoes, RestartDoes
<1>7. (\E s \in Sources, n \in Match : \E score \in ScoresOf[s] : Publish(s, n, score)) => tx' = tx
  BY DEF Publish
<1> QED BY <1>2, <1>3, <1>4, <1>5, <1>6, <1>7, StepKinds

\* What a writer has read of a row, a commit of the other does not belie.
LEMMA ReadsStep ==
  ASSUME ResultsInv, [Next]_vars, NEW v \in Writers
  PROVE  ReadHolds(v)'
<1> SUFFICES ASSUME NEW m, m = tx'[v].at, m # None,
                    NEW read, read = tx'[v].read, read # None
             PROVE  /\ row'[m] # None
                    /\ tx'[v].pc # "hkjc" => read.source = "football_data"
                    /\ v = "settle" => /\ row'[m].source = read.source
                                       /\ Steady(m)' => Score(row'[m]) = Score(read)
                    /\ tx'[v].pc = "hkjc" /\ read.confirmed => row'[m].confirmed
                    /\ v = "backfill" /\ Steady(m)' => Score(read) \in history'["football_data"][m]
  BY DEF ReadHolds, Score, Steady
<1>0. /\ TypeOK /\ m \in Match /\ "football_data" \in Sources
      /\ Steady(m)' => Steady(m)
      /\ history["football_data"][m] \subseteq history'["football_data"][m]
  <2>1. m \in Match
    BY TypeStep DEF TypeOK, Writing
  <2> QED BY <2>1, HistoryGrows DEF ResultsInv, Sources
<1>1. ASSUME tx'[v] = tx[v]
      PROVE  /\ row'[m] # None
             /\ tx'[v].pc # "hkjc" => read.source = "football_data"
             /\ v = "settle" => /\ row'[m].source = read.source
                                /\ Steady(m)' => Score(row'[m]) = Score(read)
             /\ tx'[v].pc = "hkjc" /\ read.confirmed => row'[m].confirmed
             /\ v = "backfill" /\ Steady(m)' => Score(read) \in history'["football_data"][m]
  <2>1. /\ row[m] # None
        /\ tx[v].pc # "hkjc" => read.source = "football_data"
        /\ v = "settle" => /\ row[m].source = read.source
                           /\ Steady(m) => Score(row[m]) = Score(read)
        /\ tx[v].pc = "hkjc" /\ read.confirmed => row[m].confirmed
        /\ v = "backfill" /\ Steady(m) => Score(read) \in history["football_data"][m]
    <3>1. ReadHolds(v)
      BY DEF ResultsInv, TransactionsHold
    <3> QED BY <1>1, <3>1 DEF ReadHolds
  <2>2. CASE row'[m] = row[m]
    BY <1>0, <1>1, <2>1, <2>2
  <2>3. ASSUME NEW w \in Writers, CommitPass(w), tx[w].wrote[m] # None, row'[m] = tx[w].wrote[m]
        PROVE  /\ row'[m] # None
               /\ v = "settle" => /\ row'[m].source = read.source
                                  /\ Steady(m)' => Score(row'[m]) = Score(read)
               /\ tx[v].pc = "hkjc" /\ read.confirmed => row'[m].confirmed
    <3>1. w # v /\ tx[w].pc \in Passes
      BY <1>1, <2>3, CommitDoes
    <3>2. /\ v = "settle" => w = "backfill" /\ tx[w].pc = "backfill"
          /\ v = "backfill" => tx[v].pc # "hkjc"
      BY <3>1 DEF ResultsInv, Placed, Writers, Passes
    <3>3. WriteHolds(w, m)
      BY <1>0, <2>3 DEF ResultsInv, TransactionsHold
    <3> QED BY <1>0, <2>1, <2>3, <3>2, <3>3 DEF WriteHolds, Writers
  <2> QED BY <1>0, <1>1, <2>1, <2>2, <2>3, RowMoves
<1>2. ASSUME NEW n \in Match, ReadRow(v, n)
      PROVE  /\ row'[m] # None
             /\ tx'[v].pc # "hkjc" => read.source = "football_data"
             /\ v = "settle" => /\ row'[m].source = read.source
                                /\ Steady(m)' => Score(row'[m]) = Score(read)
             /\ tx'[v].pc = "hkjc" /\ read.confirmed => row'[m].confirmed
             /\ v = "backfill" /\ Steady(m)' => Score(read) \in history'["football_data"][m]
  <2>1. /\ m = n /\ read = row[m] /\ row' = row /\ ~Skips(tx[v].pc, row[m])
        /\ tx'[v].pc = tx[v].pc /\ tx[v].pc \in Passes
    BY <1>2, ReadDoes
  <2>2. row[m] \in Row /\ RowsAreSound
    BY <1>0, <2>1 DEF TypeOK, ResultsInv
  <2>3. tx[v].pc # "hkjc" => row[m].source = "football_data"
    BY <2>1, <2>2 DEF Skips, Row, Sources
  <2>4. v = "backfill" => tx[v].pc # "hkjc"
    BY DEF ResultsInv, Placed
  <2> QED BY <1>0, <2>1, <2>2, <2>3, <2>4 DEF RowsAreSound
<1>3. ASSUME WriteRow(v) \/ CommitPass(v) \/ Restart(v) PROVE FALSE
  BY <1>3, WriteDoes, CommitDoes, RestartDoes
<1>4. ASSUME NEW w \in Writers, w # v,
             (\E n \in Match : ReadRow(w, n)) \/ WriteRow(w) \/ CommitPass(w) \/ Restart(w)
      PROVE  tx'[v] = tx[v]
  BY <1>4, ReadDoes, WriteDoes, CommitDoes, RestartDoes
<1>5. (\E s \in Sources, n \in Match : \E score \in ScoresOf[s] : Publish(s, n, score)) => tx' = tx
  BY DEF Publish
<1> QED BY <1>1, <1>2, <1>3, <1>4, <1>5, StepKinds

\* Nothing is stored or being stored.
LEMMA InvInit == Init => ResultsInv
<1> SUFFICES ASSUME Init PROVE ResultsInv
  OBVIOUS
<1>w. /\ "idle" \in PC /\ "idle" \notin Passes
      /\ NoRecords \in [Match -> Scores \cup {None}] /\ NoRecords \in [Match -> Row \cup {None}]
  BY DEF PC, Passes, NoRecords
<1>1. /\ At("idle") \in Writing /\ At("idle").pc = "idle" /\ At("idle").at = None
      /\ At("idle").wrote = NoRecords
  BY <1>w, BeginType DEF At
<1>2. \A w \in Writers : /\ tx[w] = At("idle") /\ tx[w].pc = "idle" /\ tx[w].at = None
                         /\ tx[w].wrote = NoRecords
  BY <1>1 DEF Init
<1>3. TypeOK
  <2>1. /\ clock \in Time /\ corrections \in 0 .. MaxCorrections
        /\ backfills \in 0 .. MaxBackfills /\ failures \in 0 .. MaxFailures
    BY ResultsAssumption DEF Init, Time
  <2>2. row \in [Match -> Row \cup {None}] /\ tx \in [Writers -> Writing]
    BY <1>w, <1>1 DEF Init
  <2>3. published \in [Sources -> [Match -> Scores \cup {None}]]
    BY <1>w DEF Init
  <2> QED BY <2>1, <2>2, <2>3 DEF Init, TypeOK
<1>4. \A m \in Match : /\ row[m] = None /\ \A w \in Writers : tx[w].wrote[m] = None
                       /\ \A s \in Sources : published[s][m] = None
  BY <1>2 DEF Init, NoRecords
<1>5. Placed
  BY <1>w, <1>2, <1>4 DEF Placed, Writers
<1> QED BY <1>w, <1>2, <1>3, <1>4, <1>5
        DEF ResultsInv, HkjcScoreIsHkjcs, Owned, RecordsAreShown, RowsAreSound, TransactionsHold,
            ReadHolds

-----------------------------------------------------------------------------
\* What every state of the table satisfies, whatever the sources correct: rows of
\* HKJC's are confirmed and hold a score HKJC has shown, and no writer relies on
\* what the other has changed.
THEOREM ResultsInvariant == Spec => []ResultsInv
<1>1. ResultsInv /\ [Next]_vars => ResultsInv'
  <2>1. (RowsAreSound => HkjcScoreIsHkjcs)'
    BY DEF RowsAreSound, HkjcScoreIsHkjcs, Owned
  <2>2. ResultsInv /\ [Next]_vars => TransactionsHold'
    BY WritesStep, ReadsStep DEF TransactionsHold
  <2> QED BY <2>1, <2>2, TypeStep, PlacedStep, RecordsStep, RowsStep DEF ResultsInv
<1> QED BY InvInit, <1>1, PTL DEF Spec

\* A row of HKJC's keeps its source and its confirmation, whatever the other
\* writer read before it was HKJC's.
THEOREM HkjcKeepsRows == Spec => HkjcRowStays
<1> DEFINE Kept == \A m \in Match : Owned(m) => (Owned(m)' /\ row'[m].confirmed)
<1>1. ResultsInv /\ [Next]_vars => [Kept]_vars
  <2> SUFFICES ASSUME ResultsInv, [Next]_vars, NEW m \in Match, Owned(m)
               PROVE  Owned(m)' /\ row'[m].confirmed
    OBVIOUS
  <2>1. CASE row'[m] = row[m]
    BY <2>1 DEF ResultsInv, RowsAreSound, Owned
  <2>2. ASSUME NEW w \in Writers, CommitPass(w), tx[w].wrote[m] # None, row'[m] = tx[w].wrote[m]
        PROVE  Owned(m)' /\ row'[m].confirmed
    <3>1. WriteHolds(w, m)
      BY <2>2 DEF ResultsInv, TransactionsHold
    <3> QED BY <2>2, <3>1 DEF WriteHolds, Owned
  <2> QED BY <2>1, <2>2, RowMoves
<1> QED BY ResultsInvariant, <1>1, PTL DEF Spec, HkjcRowStays
=============================================================================

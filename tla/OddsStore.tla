----------------------------- MODULE OddsStore -----------------------------
(***************************************************************************)
(* The table odds_snapshots of one match and one odds type: what the odds  *)
(* sync, the daily compaction and pruning and the historical backfill do   *)
(* to it (app/services/odds.py, app/cli.py), and what the readers of the   *)
(* market prior and of the closing line take from it (app/ml/dataset.py).  *)
(*                                                                         *)
(* The sync stamps captured_at before it asks the provider and stores the  *)
(* answer later; compaction and pruning choose ids in one transaction and  *)
(* delete them in another.  Each half is an action of its own here.        *)
(***************************************************************************)
EXTENDS Integers, FiniteSets

CONSTANTS MaxTime,        \* the bound on the clock
          Kickoffs,       \* the kickoff times the match may be given
          Inplays,        \* pool-level in-play flags, a subset of BOOLEAN
          Width,          \* sync_odds_interval
          Lead,           \* ml_prior_lead_hours
          Keep,           \* COMPACT_KEEP_PER_GROUP
          Age,            \* COMPACT_MIN_AGE_HOURS
          Retention,      \* odds_retention_days
          Period,         \* the daily job is fired when the clock is a multiple of it
          MaxFlight,      \* the longest a fetch or a run of the job takes
          MaxLate,        \* the longest a match is unplayed after its kickoff time
          MaxStores, MaxMoves, MaxFailures,   \* bounds on the events of their names
          Backfilled,     \* whether the match is in the football-data history (HAD)
          None

Time == 0 .. MaxTime

\* A row; answered is when the provider quoted its payload, None for the
\* closing odds of football-data.
Snapshot == [inplay : BOOLEAN, bucket : Time, captured : Time,
             answered : Time \cup {None}, source : {"hkjc", "football_data"}]

ASSUME OddsStoreAssumption ==
  /\ MaxTime \in Nat /\ Kickoffs \subseteq Time /\ Inplays \subseteq BOOLEAN
  /\ Width \in Nat \ {0} /\ Lead \in Nat /\ Keep \in Nat
  /\ Age \in Nat /\ Retention \in Nat /\ Period \in Nat \ {0} /\ MaxFlight \in Nat /\ MaxLate \in Nat
  /\ MaxStores \in Nat /\ MaxMoves \in Nat /\ MaxFailures \in Nat
  /\ Backfilled \in BOOLEAN
  /\ None \notin Snapshot /\ None \notin Time
  \* Minutes against hours: what is in flight when the match is compacted was
  \* captured buckets after kickoff; and the lead outlasts a fetch.
  /\ Width + MaxFlight <= Age /\ MaxFlight <= Lead
  \* COMPACT_KEEP_PER_GROUP is the number of anchors; a match is over and compacted
  \* within the retention of its first capture.
  /\ Keep >= 3
  /\ \A k \in Kickoffs : k + MaxLate + Age + 2 * MaxFlight <= Retention

VARIABLES clock, kickoff,
          finished,   \* the match has been played to its end
          rows,       \* the snapshots of the match and odds type
          fetch,      \* captured_at of the sync in flight, or None
          job,        \* the daily job; compacted: this run's compaction committed
          stores, moves, failures

vars == <<clock, kickoff, finished, rows, fetch, job, stores, moves, failures>>

\* A row is known by its key, as the id the job holds is by the upsert.
Key(r) == <<r.inplay, r.bucket>>
JobIdle == [pc |-> "idle", doomed |-> {}, asOf |-> 0, since |-> 0, compacted |-> FALSE]

Run == [pc : {"idle", "compact", "prune", "pruning"}, doomed : SUBSET (BOOLEAN \X Time),
        asOf : Kickoffs \cup {0}, since : Time, compacted : BOOLEAN]

TypeOK ==
  /\ clock \in Time /\ kickoff \in Kickoffs /\ finished \in BOOLEAN
  /\ rows \subseteq Snapshot /\ IsFiniteSet(rows)
  /\ \A r, s \in rows : Key(r) = Key(s) => r = s      \* uq_odds_snapshots_natural
  /\ fetch \in Time \cup {None}
  /\ job \in Run
  /\ stores \in 0 .. MaxStores /\ moves \in 0 .. MaxMoves
  /\ failures \in 0 .. MaxFailures

Init ==
  /\ clock = 0 /\ kickoff \in Kickoffs /\ finished = FALSE
  /\ rows = {} /\ fetch = None /\ job = JobIdle
  /\ stores = 0 /\ moves = 0 /\ failures = 0

-----------------------------------------------------------------------------
(* The readers.                                                            *)

\* The latest of a set of rows captured strictly before a cutoff, as a set.
LatestBefore(set, cutoff) ==
  {r \in set : /\ r.captured < cutoff
               /\ \A s \in set : s.captured < cutoff => s.captured <= r.captured}

Hkjc(set) == {r \in set : r.source = "hkjc"}

\* Mutant: the lead is forgotten.
PriorWithoutLead(set, ko) == LatestBefore(Hkjc(set), ko)

\* _latest_hkjc_snapshots: every in-play flag, with and without the lead.
PriorIn(set, ko) == LatestBefore(Hkjc(set), ko - Lead)
CloseIn(set, ko) == LatestBefore(Hkjc(set), ko)

Prior == PriorIn(rows, kickoff)
Close == CloseIn(rows, kickoff)

-----------------------------------------------------------------------------
(* The sync.                                                               *)

\* HKJC, as the sync relies on it: a match that is over is not on its list.
Quoted == ~finished

\* fetch_odds stamps one captured_at for all its requests, to the microsecond:
\* no two syncs share one.
StartFetch ==
  /\ fetch = None /\ Quoted /\ stores < MaxStores
  /\ \A r \in rows : r.captured # clock
  /\ fetch' = clock
  /\ UNCHANGED <<clock, kickoff, finished, rows, job, stores, moves, failures>>

\* Mutant of the bucket: rounded to the nearest, not down.
BucketNearest(t) == ((t + (Width \div 2)) \div Width) * Width

\* snapshot_bucket
Bucket(t) == t - (t % Width)

\* _upsert_snapshots: one row per bucket; a second capture takes the row over,
\* its source column excepted.
Upsert(set, f, captured, answered) ==
  LET old == {r \in set : Key(r) = <<f, Bucket(captured)>>}
  IN  IF old = {}
      THEN set \cup {[inplay |-> f, bucket |-> Bucket(captured), captured |-> captured,
                      answered |-> answered, source |-> "hkjc"]}
      ELSE (set \ old) \cup {[r EXCEPT !.captured = captured, !.answered = answered] : r \in old}

StoreOdds(f) ==
  /\ fetch # None
  /\ rows' = Upsert(rows, f, fetch, clock)
  /\ fetch' = None
  /\ stores' = stores + 1
  /\ UNCHANGED <<clock, kickoff, finished, job, moves, failures>>

\* The provider gives up, or the process stops: nothing of the run is stored.
FetchFails ==
  /\ fetch # None /\ failures < MaxFailures
  /\ fetch' = None /\ failures' = failures + 1
  /\ UNCHANGED <<clock, kickoff, finished, rows, job, stores, moves>>

\* Time passes; what is in flight ends within MaxFlight, and the match is over,
\* or moved, within MaxLate.
Tick ==
  /\ clock < MaxTime
  /\ fetch # None => clock - fetch < MaxFlight
  /\ job.pc # "idle" => clock - job.since < MaxFlight
  /\ finished \/ clock < kickoff + MaxLate
  /\ clock' = clock + 1
  /\ UNCHANGED <<kickoff, finished, rows, fetch, job, stores, moves, failures>>

\* A later fixture sync brings another kickoff: late, early or long after.
Move(k) ==
  /\ ~finished /\ moves < MaxMoves /\ k # kickoff
  /\ kickoff' = k /\ moves' = moves + 1
  /\ UNCHANGED <<clock, finished, rows, fetch, job, stores, failures>>

FinalWhistle ==
  /\ ~finished /\ kickoff < clock
  /\ finished' = TRUE
  /\ UNCHANGED <<clock, kickoff, rows, fetch, job, stores, moves, failures>>

\* The backfill of the season the match belongs to (HAD, not in-play): it
\* inserts the row of the kickoff's bucket, or replaces its payload.
Backfill ==
  /\ Backfilled /\ finished
  /\ LET old == {r \in rows : Key(r) = <<FALSE, kickoff>>}
     IN  rows' = IF old = {}
                 THEN rows \cup {[inplay |-> FALSE, bucket |-> kickoff, captured |-> kickoff,
                                  answered |-> None, source |-> "football_data"]}
                 ELSE (rows \ old) \cup {[r EXCEPT !.answered = None] : r \in old}
  /\ rows' # rows
  /\ UNCHANGED <<clock, kickoff, finished, fetch, job, stores, moves, failures>>

-----------------------------------------------------------------------------
(* The daily job: compact, then prune.                                     *)

\* Mutant of the raw groups: one row too many is tolerated.
RawRowsFrom(set) == {r \in set : Cardinality({q \in set : q.inplay = r.inplay}) > Keep + 1}

\* _raw_groups: the in-play flags whose group still holds a raw stream.
Group(set, f)  == {r \in set : r.inplay = f}
RawRows(set)   == {r \in set : Cardinality(Group(set, r.inplay)) > Keep}

\* Mutant: no anchor for the prior.
AnchorsWithoutPrior(group, ko) ==
  {r \in group : \A s \in group : r.captured <= s.captured} \cup LatestBefore(group, ko)

\* What compaction keeps of one group: entry, prior and close.
Anchors(group, ko) ==
  {r \in group : \A s \in group : r.captured <= s.captured}
    \cup LatestBefore(group, ko - Lead) \cup LatestBefore(group, ko)

Doomed(set, ko) ==
  {r \in Hkjc(RawRows(set)) : r \notin Anchors(Group(Hkjc(set), r.inplay), ko)}

\* compact_odds_snapshots, its SELECT: by the age of the kickoff alone.
CompactSelect ==
  /\ job.pc = "idle" /\ clock % Period = 0
  /\ job' = [pc |-> "compact", asOf |-> kickoff, since |-> clock, compacted |-> FALSE,
             doomed |-> IF kickoff < clock - Age
                        THEN {Key(r) : r \in Doomed(rows, kickoff)} ELSE {}]
  /\ UNCHANGED <<clock, kickoff, finished, rows, fetch, stores, moves, failures>>

\* _delete_ids, in a transaction of its own.
DeleteDoomed == rows' = {r \in rows : Key(r) \notin job.doomed}

CompactDelete ==
  /\ job.pc = "compact"
  /\ DeleteDoomed
  /\ job' = [job EXCEPT !.pc = "prune", !.doomed = {}, !.compacted = TRUE]
  /\ UNCHANGED <<clock, kickoff, finished, fetch, stores, moves, failures>>

\* Mutant: the restriction to raw groups is dropped.
PrunableByAge == {r \in rows : r.captured < clock - Retention /\ r.source # "football_data"}

\* prune_odds_snapshots, its SELECT.
Prunable == {r \in RawRows(rows) : r.captured < clock - Retention /\ r.source # "football_data"}

PruneSelect ==
  /\ job.pc = "prune"
  /\ job' = [job EXCEPT !.pc = "pruning", !.doomed = {Key(r) : r \in Prunable}]
  /\ UNCHANGED <<clock, kickoff, finished, rows, fetch, stores, moves, failures>>

PruneDelete ==
  /\ job.pc = "pruning"
  /\ DeleteDoomed
  /\ job' = JobIdle
  /\ UNCHANGED <<clock, kickoff, finished, fetch, stores, moves, failures>>

\* An exception is logged and the next pass runs: a failed compaction is
\* followed by the prune.
JobFails ==
  /\ job.pc # "idle" /\ failures < MaxFailures
  /\ job' = IF job.pc = "compact" THEN [job EXCEPT !.pc = "prune", !.doomed = {}]
            ELSE JobIdle
  /\ failures' = failures + 1
  /\ UNCHANGED <<clock, kickoff, finished, rows, fetch, stores, moves>>

Job == CompactSelect \/ CompactDelete \/ PruneSelect \/ PruneDelete

Next ==
  \/ StartFetch \/ FetchFails \/ Tick \/ FinalWhistle \/ Backfill \/ Job \/ JobFails
  \/ \E f \in Inplays : StoreOdds(f)
  \/ \E k \in Kickoffs : Move(k)

Spec == Init /\ [][Next]_vars

\* The scheduler fires the job every day and a fired job runs to its end;
\* a request times out after a bounded number of attempts, so a fetch ends; the
\* match is played one day.
FetchEnds == FetchFails \/ \E f \in Inplays : StoreOdds(f)

FairSpec ==
  /\ Spec
  /\ WF_vars(Job) /\ WF_vars(Tick) /\ WF_vars(FetchEnds) /\ WF_vars(FinalWhistle)

-----------------------------------------------------------------------------
(* What holds of the table, the sync and the job.                          *)

\* The market prior holds odds that were quoted before kickoff, although only
\* captured_at is compared with the cutoff and the answer comes later: the
\* lead outlasts every fetch.
PriorIsPreMatch ==
  \A r \in Prior : r.answered # None /\ r.answered < kickoff

\* A row is stamped in its bucket and answered in flight; of the backfill's only
\* those of the kickoff's bucket.
RowsAreStamped ==
  \A r \in rows :
    /\ r.bucket <= r.captured /\ r.captured < r.bucket + Width /\ r.captured <= clock
    /\ r.source = "hkjc" =>
         /\ r.bucket = Bucket(r.captured)
         /\ IF r.answered = None THEN finished /\ r.bucket = kickoff
            ELSE r.answered <= r.captured + MaxFlight

\* What is in flight is recent, and newer than what is stored; nothing is captured
\* of a match that is over.
InFlight ==
  /\ fetch # None =>
       /\ stores < MaxStores /\ fetch <= clock /\ clock <= fetch + MaxFlight
       /\ \A r \in Hkjc(rows) : r.captured < fetch
       /\ \E k \in Kickoffs : fetch <= k + MaxLate
  /\ job.since <= clock /\ (job.pc # "idle" => clock <= job.since + MaxFlight)
  /\ IF finished THEN kickoff < clock ELSE \E k \in Kickoffs : clock <= k + MaxLate

\* Between the transactions of compaction: a row that is to be deleted and that
\* was captured before a cutoff is followed by another one before it.
DoomedAreFollowed ==
  job.pc = "compact" =>
    /\ job.doomed # {} => job.asOf < job.since - Age
    /\ \A r \in Hkjc(rows), cutoff \in {job.asOf - Lead, job.asOf} :
         Key(r) \in job.doomed /\ r.captured < cutoff =>
           \E s \in Hkjc(rows) : r.captured < s.captured /\ s.captured < cutoff

\* The run started when every kickoff, its match and its last capture were over.
RunIsLate == \A k \in Kickoffs : k + MaxLate + Age + MaxFlight < job.since

\* From compaction to pruning no in-play flag has more rows of the sync than anchors,
\* so, football-data's rows apart, there is nothing to prune.
Survivors(f) == {r \in Group(Hkjc(rows), f) : Key(r) \notin job.doomed}
PruningIsIdle ==
  /\ job.pc = "compact" /\ RunIsLate => \A f \in BOOLEAN : Cardinality(Survivors(f)) <= Keep
  /\ job.compacted /\ RunIsLate =>
       \A f \in BOOLEAN : Cardinality(Group(Hkjc(rows), f)) <= Keep
  /\ job.pc = "pruning" /\ job.compacted /\ rows = Hkjc(rows) => job.doomed = {}

\* Between the transactions of compaction a doomed row is preceded by one of its in-play
\* flag that stays; between those of pruning it is past the retention.
DoomedArePreceded ==
  job.pc = "compact" =>
    /\ job.doomed \subseteq {Key(r) : r \in rows}
    /\ \A r \in Hkjc(rows) : Key(r) \in job.doomed =>
         \E e \in Hkjc(rows) : /\ e.inplay = r.inplay /\ e.captured < r.captured
                               /\ Key(e) \notin job.doomed
DoomedAreExpired ==
  job.pc = "pruning" =>
    /\ \A key \in job.doomed : key[2] < clock - Retention
    /\ \A r \in Hkjc(rows) : Key(r) \in job.doomed => r.captured < clock - Retention

\* What every state of the table satisfies; TypeOK holds one row to a bucket.
OddsInv ==
  /\ TypeOK /\ PriorIsPreMatch /\ RowsAreStamped /\ InFlight /\ DoomedAreFollowed
  /\ PruningIsIdle /\ DoomedArePreceded /\ DoomedAreExpired

-----------------------------------------------------------------------------
(* Properties.                                                             *)

\* Pruning is a safety net behind the compaction: this run's has committed, and
\* no group counts a row of football-data among its raw rows.
SafeToPrune == job.compacted /\ rows = Hkjc(rows)

\* compact_odds_snapshots keeps "the anchors the readers need": with the
\* kickoff it selected by, the prior and the closing line are the same rows
\* before and after the deletion, over all in-play groups together and
\* whatever the sync stored in between.  prune_odds_snapshots after it: "the
\* compaction anchors survive indefinitely".  (Of a group that football-data's
\* row makes a group of four they do not; see SafeToPrune.)
DeletionsSpareAnchors ==
  [][/\ (CompactDelete /\ kickoff = job.asOf) => (Prior' = Prior /\ Close' = Close)
     /\ (PruneDelete /\ SafeToPrune) =>
          \A f \in BOOLEAN : Anchors(Group(Hkjc(rows), f), kickoff) \subseteq rows']_vars

\* Of the rows the readers use, a deletion takes only those past the retention.
OnlyExpiredGo == \A r \in Prior \cup Close : r \in rows' \/ r.captured < clock - Retention

\* Whatever kickoff the match has or is given later, its readers find a row if they
\* found one before.
NoKickoffLosesItsRow ==
  \A k \in Kickoffs : /\ PriorIn(rows, k) # {} => PriorIn(rows', k) # {}
                      /\ CloseIn(rows, k) # {} => CloseIn(rows', k) # {}

\* Once a match is over and nothing of it is in flight, the prior its predictions were
\* made on and the close its CLV is measured against stay the rows they are, through
\* compaction, backfill and the prune behind a compaction.  A prune that finds a raw
\* stream, because this run's compaction failed or football-data's row makes the anchors
\* a group of four, takes of them what is past the retention, and nothing younger.  A
\* compaction whose match was moved between its two transactions spared the anchors of
\* the kickoff it read: it leaves the readers of every other kickoff a row, if an older
\* one.
FinalLookupsFrozen ==
  [][/\ (finished /\ fetch = None /\ (job.pc = "compact" => job.asOf = kickoff)) =>
          \/ Prior' = Prior /\ Close' = Close
          \/ PruneDelete /\ ~SafeToPrune /\ OnlyExpiredGo
     /\ CompactDelete => NoKickoffLosesItsRow]_vars

\* A capture never makes the prior or the close older: the row it takes over
\* was not the one a reader needs, unless the reader's cutoff splits the bucket.
\* (A capture after a kickoff at 19:45 takes over the last one before it, of the
\* bucket from 19:40.)
Splits(cutoff) == Bucket(fetch) < cutoff /\ cutoff <= fetch
CaptureNeverLosesClose ==
  [][\A f \in BOOLEAN : StoreOdds(f) =>
       /\ ~Splits(kickoff) =>
            \A r \in Close : \E s \in CloseIn(rows', kickoff) : s.captured >= r.captured
       /\ ~Splits(kickoff - Lead) =>
            \A r \in Prior : \E s \in PriorIn(rows', kickoff) : s.captured >= r.captured]_vars

\* Every match that is over is compacted to its anchors, through failed runs.
EventuallyCompacted ==
  finished ~> \A f \in BOOLEAN : Cardinality(Group(Hkjc(rows), f)) <= Keep
=============================================================================

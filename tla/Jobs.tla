------------------------------- MODULE Jobs -------------------------------
(***************************************************************************)
(* The two scheduled jobs that talk to HKJC (app/scheduler.py), the client *)
(* they share (HkjcClient) and the ingestion_runs rows track_run keeps of  *)
(* them (app/services/runs.py), beside a reset of the paper tables that    *)
(* deletes those rows and a process that stops.                            *)
(*                                                                         *)
(* track_run is three transactions: the row is inserted "running", the     *)
(* work is done and committed, the row is finished.  What the work does to *)
(* its own tables is in the modules of the components.                     *)
(***************************************************************************)
EXTENDS HkjcClient

CONSTANTS MaxFires,      \* bound on the runs of jobs
          MaxMishaps,    \* bound on failed transactions of track_run itself, stops
                         \* and resets together
          Gone           \* a row that has been deleted

\* The stages of a job: a request to HKJC; a track_run, under its key; the
\* manual review.
Stage == {"ask", "sync_fixtures", "sync_odds", "settle_results_hkjc",
          "settle_results_fallback", "flag"}
Keys == Stage \ {"ask", "flag"}

\* OddsSync.run and ResultReconciler.run with its passes.  The odds are asked for
\* in two batches, the results page by page and day by day: one question stands
\* for each.
Program ==
  [sync_odds |-> <<"ask", "sync_fixtures", "ask", "sync_odds">>,
   settle_results |-> <<"ask", "settle_results_hkjc", "settle_results_fallback", "flag">>]

Job == DOMAIN Program
Over(j) == Len(Program[j]) + 1

\* Where a job goes on after an exception: sync_odds ends, settle_results logs
\* it and turns to its next pass.
Rescue(j, stage) ==
  IF j = "settle_results" /\ stage < 3 THEN 3
  ELSE IF j = "settle_results" /\ stage = 3 THEN 4
  ELSE Over(j)

Status == {"running", "success", "failed", "flagged"}
RunRow == [key : Keys \cup {"flag"}, status : Status]

ASSUME JobsAssumption ==
  /\ Caller = Job
  /\ MaxFires \in Nat /\ MaxMishaps \in Nat
  /\ Gone \notin RunRow

VARIABLES stage,     \* the stage each job is at; 0 between two runs of it
          run,       \* the track_run each job is in; ok: its work did not raise
          rows,      \* ingestion_runs, by id
          doomed,    \* the ids an open reset has deleted
          committed, \* the ids whose work was committed
          lost,      \* the ids whose track_run was cut short
          fires, mishaps

bounds  == <<fires, mishaps>>
jobVars == <<stage, run, rows, doomed, committed, lost, bounds>>
vars    == <<clientVars, jobVars>>

NoRun == [pc |-> "none", id |-> 0, ok |-> FALSE]

JobsTypeOK ==
  /\ stage \in [Job -> 0 .. 4]
  /\ run \in [Job -> [pc : {"none", "begun", "worked", "closing"}, id : Nat, ok : BOOLEAN]]
  /\ rows \in Seq(RunRow \cup {Gone})
  /\ \A set \in {doomed, committed, lost} : set \subseteq DOMAIN rows
  /\ fires \in 0 .. MaxFires /\ mishaps \in 0 .. MaxMishaps

Init ==
  /\ ClientInit
  /\ stage = [j \in Job |-> 0] /\ run = [j \in Job |-> NoRun]
  /\ rows = <<>> /\ doomed = {} /\ committed = {} /\ lost = {}
  /\ fires = 0 /\ mishaps = 0

-----------------------------------------------------------------------------
(* A job and its requests.                                                 *)

At(j) == IF stage[j] \in DOMAIN Program[j] THEN Program[j][stage[j]] ELSE "none"

\* A job past its last stage is between two runs again.
GoTo(j, n) == stage' = [stage EXCEPT ![j] = IF n = Over(j) THEN 0 ELSE n]

\* The stages that may follow: without a fixture to ask for, fetch_odds sends
\* no request.
Onward(j) == {stage[j] + 1} \cup (IF At(j) = "sync_fixtures" THEN {4} ELSE {})

\* The scheduler fires a job that is not running (max_instances=1).
Fire(j) ==
  /\ stage[j] = 0 /\ fires < MaxFires
  /\ stage' = [stage EXCEPT ![j] = 1]
  /\ fires' = fires + 1
  /\ UNCHANGED <<clientVars, run, rows, doomed, committed, lost, mishaps>>

Ask(j) ==
  /\ At(j) = "ask" /\ Execute(j)
  /\ UNCHANGED jobVars

\* The answer is back, or the exception, which is outside track_run: no row
\* tells of it.
Asked(j) ==
  /\ Return(j)
  /\ GoTo(j, IF call[j].pc = "answered" THEN stage[j] + 1 ELSE Rescue(j, stage[j]))
  /\ UNCHANGED <<run, rows, doomed, committed, lost, bounds>>

\* The fallback has no candidates, or football-data does not answer; there is
\* nothing to review.
PassSkipped(j) ==
  /\ At(j) \in {"settle_results_fallback", "flag"} /\ run[j] = NoRun
  /\ GoTo(j, stage[j] + 1)
  /\ UNCHANGED <<clientVars, run, rows, doomed, committed, lost, bounds>>

-----------------------------------------------------------------------------
(* track_run.                                                              *)

BeginRun(j) ==
  /\ At(j) \in Keys /\ run[j] = NoRun
  /\ rows' = Append(rows, [key |-> At(j), status |-> "running"])
  /\ run' = [run EXCEPT ![j] = [pc |-> "begun", id |-> Len(rows) + 1, ok |-> FALSE]]
  /\ UNCHANGED <<clientVars, stage, doomed, committed, lost, bounds>>

\* The work commits, or raises and is rolled back.
Work(j) ==
  /\ run[j].pc = "begun"
  /\ \E ok \in BOOLEAN :
       /\ run' = [run EXCEPT ![j].pc = "worked", ![j].ok = ok]
       /\ committed' = IF ok THEN committed \cup {run[j].id} ELSE committed
  /\ UNCHANGED <<clientVars, stage, rows, doomed, lost, bounds>>

\* The stage is over; ok: without an exception.
Leave(j, ok) ==
  /\ run' = [run EXCEPT ![j] = NoRun]
  /\ \E n \in (IF ok THEN Onward(j) ELSE {Rescue(j, stage[j])}) : GoTo(j, n)

\* The row is fetched to be finished; a reset may have deleted it.
FetchRow(j) ==
  /\ run[j].pc = "worked"
  /\ IF rows[run[j].id] = Gone
     THEN Leave(j, run[j].ok)
     ELSE run' = [run EXCEPT ![j].pc = "closing"] /\ UNCHANGED stage
  /\ UNCHANGED <<clientVars, rows, doomed, committed, lost, bounds>>

\* Mutant of FinalStatus: a "finally" instead of the two branches.
FinalStatusAlways(ok) == "success"

FinalStatus(ok) == IF ok THEN "success" ELSE "failed"

\* The UPDATE, which waits for a reset that has deleted the row.
FinishRow(j) ==
  /\ run[j].pc = "closing" /\ run[j].id \notin doomed
  /\ rows[run[j].id] # Gone
  /\ rows' = [rows EXCEPT ![run[j].id].status = FinalStatus(run[j].ok)]
  /\ Leave(j, run[j].ok)
  /\ UNCHANGED <<clientVars, doomed, committed, lost, bounds>>

\* It waited in vain: no row matches, and the session raises StaleDataError.
StaleRow(j) ==
  /\ run[j].pc = "closing" /\ rows[run[j].id] = Gone
  /\ Leave(j, FALSE)
  /\ UNCHANGED <<clientVars, rows, doomed, committed, lost, bounds>>

\* flag_manual_review: one transaction, a row that is finished from the start.
Flag(j) ==
  /\ At(j) = "flag"
  /\ rows' = Append(rows, [key |-> "flag", status |-> "flagged"])
  /\ GoTo(j, stage[j] + 1)
  /\ UNCHANGED <<clientVars, run, doomed, committed, lost, bounds>>

Mishap == mishaps < MaxMishaps /\ mishaps' = mishaps + 1

\* A transaction of track_run's own, or of the review, fails: the exception
\* leaves a row that was inserted as it is.
BookkeepingFails(j) ==
  /\ Mishap
  /\ \/ At(j) \in Keys \cup {"flag"} /\ run[j] = NoRun
     \/ run[j].pc \in {"worked", "closing"}
  /\ lost' = IF run[j] = NoRun THEN lost ELSE lost \cup {run[j].id}
  /\ Leave(j, FALSE)
  /\ UNCHANGED <<clientVars, rows, doomed, committed, fires>>

-----------------------------------------------------------------------------
(* Around the jobs.                                                        *)

\* The process dies or is shut down, which cancels the jobs: "except Exception"
\* sees neither.
Stop ==
  /\ Mishap /\ \E j \in Job : stage[j] # 0
  /\ Rebuild
  /\ stage' = [j \in Job |-> 0] /\ run' = [j \in Job |-> NoRun]
  /\ lost' = lost \cup {run[j].id : j \in {k \in Job : run[k] # NoRun}}
  /\ UNCHANGED <<rows, doomed, committed, fires>>

\* reset-paper --include-runs, a process of its own: the DELETE, then the end of
\* its transaction, with a commit or without.
ResetRuns ==
  /\ doomed = {} /\ Mishap
  /\ doomed' = {id \in DOMAIN rows : rows[id] # Gone} /\ doomed' # {}
  /\ UNCHANGED <<clientVars, stage, run, rows, committed, lost, fires>>

EndReset ==
  /\ doomed # {}
  /\ \/ rows' = [id \in DOMAIN rows |-> IF id \in doomed THEN Gone ELSE rows[id]]
     \/ UNCHANGED rows
  /\ doomed' = {}
  /\ UNCHANGED <<clientVars, stage, run, committed, lost, bounds>>

JobStep(j) ==
  \/ Ask(j) \/ Asked(j) \/ (Request(j) /\ UNCHANGED jobVars) \/ PassSkipped(j)
  \/ BeginRun(j) \/ Work(j) \/ FetchRow(j) \/ FinishRow(j) \/ StaleRow(j) \/ Flag(j)

Tick == ClientTick /\ UNCHANGED jobVars

Next ==
  \/ Tick \/ Stop \/ ResetRuns \/ EndReset
  \/ \E j \in Job : Fire(j) \/ JobStep(j) \/ BookkeepingFails(j)

Spec == Init /\ [][Next]_vars

\* Sleeps end, a request is answered or times out (httpx, 30 s), and a
\* transaction that waits for nobody ends; a job is one coroutine.
FairSpec ==
  Spec /\ WF_vars(Tick) /\ WF_vars(EndReset) /\ \A j \in Job : WF_vars(JobStep(j))

-----------------------------------------------------------------------------
(* Properties.                                                             *)

\* A track_run that is at work on a row.
AtWork(id) == \E j \in Job : run[j].id = id /\ At(j) = rows[id].key

\* What an operator reads in /ops/runs is so, whatever fails, stops or is reset
\* around it: a run that succeeded was committed, one that failed was not, and
\* one that is "running" is being worked on and the newest of its key, or it was
\* cut short.
RowHolds(id) ==
  rows[id] # Gone =>
    /\ rows[id].status = "success" => id \in committed
    /\ rows[id].status = "failed" => id \notin committed
    /\ rows[id].status = "running" =>
         \/ id \in lost
         \/ /\ AtWork(id)
            /\ \A later \in id + 1 .. Len(rows) :
                 rows[later] # Gone => rows[later].key # rows[id].key

RowsTellTheTruth == \A id \in DOMAIN rows : RowHolds(id)

\* A run at work is of its job's stage and of no other job's, its row, if still
\* there, is "running", and its work is committed once it did not raise.
RunHolds(j) ==
  IF run[j].pc = "none" THEN run[j] = NoRun
  ELSE /\ At(j) \in Keys /\ run[j].id \in DOMAIN rows
       /\ rows[run[j].id] \in {Gone, [key |-> At(j), status |-> "running"]}
       /\ run[j].id \in committed <=> run[j].ok
       /\ run[j].pc = "begun" => ~run[j].ok
       /\ \A i \in Job : run[i].id = run[j].id => i = j

\* And a job asks between two runs.
RunsHold == \A j \in Job : RunHolds(j) /\ (call[j].pc # "idle" => At(j) = "ask")

\* The lock of the client, the coroutines at it and the rows of the runs.
JobsInv == JobsTypeOK /\ ClientInv /\ RunsHold /\ RowsTellTheTruth

\* A job that was fired ends, whatever HKJC answers and however long the other
\* job keeps the client busy: attempts are bounded and the lock is fair.
JobsEnd == \A j \in Job : stage[j] # 0 ~> stage[j] = 0
=============================================================================

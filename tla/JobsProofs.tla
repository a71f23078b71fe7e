----------------------------- MODULE JobsProofs -----------------------------
(***************************************************************************)
(* The throttle holds for any number of coroutines, any settings and any   *)
(* answers (ClientSpec), and so it does in the process that runs the two   *)
(* jobs, whose every step is a step of the client or none (Jobs).          *)
(***************************************************************************)
EXTENDS Jobs, SequenceTheorems, TLAPS

\* Who joins the queue is in it once, if it was not in it.
LEMMA EnqueueKeeps ==
  ASSUME NEW q \in Seq(Caller), NEW c \in Caller, Once(q), ~In(c, q)
  PROVE  /\ Append(q, c) \in Seq(Caller) /\ Once(Append(q, c))
         /\ \A d \in Caller : In(d, Append(q, c)) <=> In(d, q) \/ d = c
<1>1. /\ Append(q, c) \in Seq(Caller)
      /\ Len(Append(q, c)) = Len(q) + 1 /\ Append(q, c)[Len(q) + 1] = c
      /\ \A i \in 1 .. Len(q) : Append(q, c)[i] = q[i]
      /\ Len(q) \in Nat /\ DOMAIN q = 1 .. Len(q)
      /\ DOMAIN Append(q, c) = 1 .. Len(q) + 1
  OBVIOUS
<1> QED BY <1>1 DEF Once, In

\* Who leaves the head of the queue is in it no more; nobody else is disturbed.
LEMMA DequeueKeeps ==
  ASSUME NEW q \in Seq(Caller), q # <<>>, Once(q)
  PROVE  /\ Tail(q) \in Seq(Caller) /\ Once(Tail(q))
         /\ \A d \in Caller : In(d, Tail(q)) <=> In(d, q) /\ d # Head(q)
<1>1. /\ Tail(q) \in Seq(Caller) /\ Len(q) \in Nat /\ Len(q) >= 1
      /\ DOMAIN q = 1 .. Len(q) /\ DOMAIN Tail(q) = 1 .. Len(q) - 1
      /\ \A i \in 1 .. Len(q) - 1 : Tail(q)[i] = q[i + 1]
      /\ Head(q) = q[1]
  OBVIOUS
<1>2. Once(Tail(q))
  BY <1>1 DEF Once
<1>3. ASSUME NEW d \in Caller PROVE In(d, Tail(q)) => In(d, q) /\ d # Head(q)
  BY <1>1 DEF Once, In
<1>4. ASSUME NEW d \in Caller, In(d, q), d # Head(q) PROVE In(d, Tail(q))
  <2>1. PICK i \in 1 .. Len(q) : q[i] = d
    BY <1>1, <1>4 DEF In
  <2>2. i - 1 \in 1 .. Len(q) - 1 /\ Tail(q)[i - 1] = d
    BY <1>1, <1>4, <2>1
  <2> QED BY <1>1, <2>2 DEF In
<1> QED BY <1>1, <1>2, <1>3, <1>4

\* The arithmetic of a tick: what is left of a sleep still covers the throttle.
LEMMA TickCovers ==
  ASSUME NEW s \in 0 .. Throttle, NEW n \in Nat
  PROVE  /\ Least(s + 1, Throttle) \in 0 .. Throttle
         /\ Rest(n) \in Nat
         /\ n >= Throttle - s => Rest(n) >= Throttle - Least(s + 1, Throttle)
BY ClientAssumption DEF Least, Rest

\* Nobody is in execute when the process starts, nor when it starts again.
LEMMA ClientInvStart == (ClientInit => ClientInv) /\ (Rebuild => ClientInv')
<1>1. /\ [c \in Caller |-> NoCall] \in [Caller -> [pc : CallStates, attempt : 0 .. MaxRetries, sleep : Nat]]
      /\ Throttle \in 0 .. Throttle /\ <<>> \in Seq(Caller)
  BY ClientAssumption DEF NoCall, CallStates
<1>2. Once(<<>>) /\ \A c \in Caller : ~In(c, <<>>)
  BY DEF Once, In
<1>3. NoCall.pc = "idle" /\ NoOwner \notin Caller
  BY ClientAssumption DEF NoCall
<1>4. ASSUME ClientInit PROVE ClientInv
  BY <1>1, <1>2, <1>3, <1>4 DEF ClientInit, ClientInv, ClientTypeOK
<1>5. ASSUME Rebuild PROVE ClientInv'
  BY <1>1, <1>2, <1>3, <1>5 DEF Rebuild, ClientInv, ClientTypeOK
<1> QED BY <1>4, <1>5

\* A tick takes as much from a sleep as from what the throttle asks; a request
\* starts the count again with the lock free; the queue is joined by who has begun
\* to wait and left by who is handed the lock.
LEMMA ClientInvStep == ClientInv /\ [ClientNext]_clientVars => ClientInv'
<1> SUFFICES ASSUME ClientInv, [ClientNext]_clientVars PROVE ClientInv'
  OBVIOUS
<1> USE DEF ClientInv, ClientTypeOK
<1>1. CASE ClientTick
  BY <1>1, TickCovers DEF ClientTick
<1>2. CASE Rebuild
  BY <1>2, ClientInvStart
<1>3. ASSUME NEW c \in Caller, Execute(c) \/ Retry(c) PROVE ClientInv'
  <2>1. ~In(c, queue) /\ owner # c
    BY <1>3 DEF Execute, Retry
  <2>2. /\ queue' = Append(queue, c) /\ since' = since /\ owner' = owner
        /\ call' \in [Caller -> [pc : CallStates, attempt : 0 .. MaxRetries, sleep : Nat]]
        /\ call'[c].pc = "waiting" /\ \A d \in Caller \ {c} : call'[d] = call[d]
    <3>1. CASE Execute(c)
      <4>1. NoCall \in [pc : {"idle"}, attempt : 0 .. MaxRetries, sleep : Nat]
        BY ClientAssumption DEF NoCall
      <4>2. [NoCall EXCEPT !.pc = "waiting"]
              \in [pc : {"waiting"}, attempt : 0 .. MaxRetries, sleep : Nat]
        BY <4>1
      <4> QED BY <3>1, <4>2 DEF Execute, CallStates
    <3>2. CASE Retry(c)
      <4>1. call[c].attempt + 1 \in 0 .. MaxRetries
        BY <3>2, ClientAssumption DEF Retry, NextAttempt
      <4> QED BY <3>2, <4>1 DEF Retry, NextAttempt, CallStates
    <3> QED BY <1>3, <3>1, <3>2
  <2>3. /\ queue' \in Seq(Caller) /\ Once(queue')
        /\ \A d \in Caller : In(d, queue') <=> In(d, queue) \/ d = c
    BY <2>1, <2>2, EnqueueKeeps
  <2> QED BY <2>1, <2>2, <2>3
<1>4. ASSUME NEW c \in Caller, Acquire(c) PROVE ClientInv'
  <2>1. owner = NoOwner /\ Head(queue) = c /\ queue # <<>> /\ call[c].pc = "waiting"
    BY <1>4 DEF Acquire, LockFree
  <2>2. Throttle - since \in Nat
    BY ClientAssumption
  <2>3. /\ queue' = Tail(queue) /\ since' = since /\ owner' = c
        /\ call' \in [Caller -> [pc : CallStates, attempt : 0 .. MaxRetries, sleep : Nat]]
        /\ call'[c].pc = "throttled" /\ call'[c].sleep = Throttle - since
        /\ \A d \in Caller \ {c} : call'[d] = call[d]
    BY <1>4, <2>2 DEF Acquire, CallStates
  <2>4. /\ queue' \in Seq(Caller) /\ Once(queue')
        /\ \A d \in Caller : In(d, queue') <=> In(d, queue) /\ d # c
    BY <2>1, <2>3, DequeueKeeps
  <2>5. ClientTypeOK'
    BY <2>3, <2>4
  <2>6. ASSUME NEW d \in Caller
        PROVE  /\ owner' = d <=> call'[d].pc = "throttled"
               /\ owner' = d => call'[d].sleep >= Throttle - since'
               /\ call'[d].pc = "waiting" <=> In(d, queue')
    <3>1. CASE d = c
      BY <2>2, <2>3, <2>4, <3>1
    <3>2. CASE d # c
      BY <2>1, <2>3, <2>4, <3>2, ClientAssumption
    <3> QED BY <3>1, <3>2
  <2> QED BY <2>4, <2>5, <2>6
<1>5. ASSUME NEW c \in Caller, Post(c) PROVE ClientInv'
  <2>1. /\ since' = 0 /\ owner' = NoOwner /\ queue' = queue /\ owner = c
        /\ call' \in [Caller -> [pc : CallStates, attempt : 0 .. MaxRetries, sleep : Nat]]
        /\ call'[c].pc = "posted" /\ \A d \in Caller \ {c} : call'[d] = call[d]
    BY <1>5 DEF Post, CallStates
  <2>2. ClientTypeOK'
    BY <2>1, ClientAssumption
  <2>3. ASSUME NEW d \in Caller
        PROVE  /\ owner' = d <=> call'[d].pc = "throttled"
               /\ owner' = d => call'[d].sleep >= Throttle - since'
               /\ call'[d].pc = "waiting" <=> In(d, queue')
    <3>1. owner' # d
      BY <2>1, ClientAssumption
    <3>2. CASE d = c
      BY <1>5, <2>1, <3>1, <3>2 DEF Post
    <3>3. CASE d # c
      BY <2>1, <3>1, <3>3
    <3> QED BY <3>2, <3>3
  <2> QED BY <2>1, <2>2, <2>3
<1>6. ASSUME NEW c \in Caller, Answer(c) \/ GiveUp(c) \/ Return(c) PROVE ClientInv'
  <2>1. CASE Answer(c)
    BY <2>1 DEF Answer, CallStates
  <2>2. CASE GiveUp(c)
    BY <2>2 DEF GiveUp, CallStates
  <2>3. CASE Return(c)
    <3>1. NoCall \in [pc : {"idle"}, attempt : 0 .. MaxRetries, sleep : Nat]
      BY ClientAssumption DEF NoCall
    <3> QED BY <2>3, <3>1 DEF Return, CallStates
  <2> QED BY <1>6, <2>1, <2>2, <2>3
<1>7. ASSUME NEW c \in Caller, Retriable(c) PROVE ClientInv'
  <2>1. Backoff(call[c].attempt) \in Nat
    BY ClientAssumption DEF Backoff, Least
  <2> QED BY <1>7, <2>1 DEF Retriable, CallStates
<1>8. CASE UNCHANGED clientVars
  BY <1>8 DEF clientVars
<1> QED BY <1>1, <1>2, <1>3, <1>4, <1>5, <1>6, <1>7, <1>8 DEF ClientNext, Request

\* The lock, its queue and the sleeps under it are sound for any number of
\* coroutines, any settings and any answers, restarts included.
THEOREM ClientInvariant == ClientSpec => []ClientInv
BY ClientInvStart, ClientInvStep, PTL DEF ClientSpec

\* A request that is sent finds the throttle over: its sender has slept it off.
LEMMA PostIsSpaced ==
  ClientInv => [\A c \in Caller : Post(c) => since >= Throttle]_clientVars
BY ClientAssumption DEF ClientInv, ClientTypeOK, Post

\* "Throttles to at most one request per throttle_seconds", in client.py: for any
\* number of coroutines, any settings, any answers, restarts included.
THEOREM RequestsAreSpaced == ClientSpec => Throttled
BY ClientInvariant, PostIsSpaced, PTL DEF Throttled

-----------------------------------------------------------------------------
\* The two jobs only ever use the client through its own operations.
LEMMA JobStepIsClients == [Next]_vars => [ClientNext]_clientVars
<1> SUFFICES ASSUME [Next]_vars PROVE [ClientNext]_clientVars
  OBVIOUS
<1> USE DEF ClientNext
<1>1. CASE Tick \/ Stop
  BY <1>1 DEF Tick, Stop
<1>2. CASE ResetRuns \/ EndReset
  BY <1>2 DEF ResetRuns, EndReset
<1>3. ASSUME NEW j \in Job, JobStep(j) PROVE [ClientNext]_clientVars
  <2>1. j \in Caller
    BY JobsAssumption
  <2>2. CASE Ask(j) \/ Asked(j) \/ Request(j)
    BY <2>1, <2>2 DEF Ask, Asked
  <2>3. CASE PassSkipped(j) \/ BeginRun(j) \/ Work(j) \/ Flag(j)
    BY <2>3 DEF PassSkipped, BeginRun, Work, Flag
  <2>4. CASE FetchRow(j) \/ FinishRow(j) \/ StaleRow(j)
    BY <2>4 DEF FetchRow, FinishRow, StaleRow
  <2> QED BY <1>3, <2>2, <2>3, <2>4 DEF JobStep
<1>4. ASSUME NEW j \in Job, Fire(j) \/ BookkeepingFails(j) PROVE [ClientNext]_clientVars
  BY <1>4 DEF Fire, BookkeepingFails
<1>5. CASE UNCHANGED vars
  BY <1>5 DEF vars
<1> QED BY <1>1, <1>2, <1>3, <1>4, <1>5 DEF Next

\* The jobs implement the client's specification: whatever they run into, and
\* whatever is stopped or reset around them, the client sees calls of execute.
THEOREM JobsUseTheClient == Spec => ClientSpec
<1>1. Init => ClientInit
  BY DEF Init
<1> QED BY <1>1, JobStepIsClients, PTL DEF Spec, ClientSpec

\* And so their requests are spaced.
THEOREM JobsAreThrottled == Spec => Throttled
BY JobsUseTheClient, RequestsAreSpaced

-----------------------------------------------------------------------------
(* The rows of the runs.                                                   *)

\* The program of each job: it has four stages, and no key is at two of them, of
\* one job or of both.
LEMMA Programs ==
  /\ Job = {"sync_odds", "settle_results"}
  /\ \A j \in Job : Over(j) = 5 /\ DOMAIN Program[j] = 1 .. 4
  /\ Program["sync_odds"] = <<"ask", "sync_fixtures", "ask", "sync_odds">>
  /\ Program["settle_results"] = <<"ask", "settle_results_hkjc", "settle_results_fallback", "flag">>
<1>1. Job = {"sync_odds", "settle_results"}
  BY DEF Job, Program
<1>2. /\ Program["sync_odds"] = <<"ask", "sync_fixtures", "ask", "sync_odds">>
      /\ Program["settle_results"]
           = <<"ask", "settle_results_hkjc", "settle_results_fallback", "flag">>
  BY DEF Program
<1>3. Over("sync_odds") = 5 /\ DOMAIN Program["sync_odds"] = 1 .. 4
  BY <1>2 DEF Over
<1>4. Over("settle_results") = 5 /\ DOMAIN Program["settle_results"] = 1 .. 4
  BY <1>2 DEF Over
<1> QED BY <1>1, <1>2, <1>3, <1>4

\* Where a job is, it is alone: two jobs are never at the same key.
LEMMA KeysAreApart ==
  ASSUME stage \in [Job -> 0 .. 4], NEW i \in Job, NEW j \in Job, At(i) = At(j), At(i) \in Keys
  PROVE  i = j
<1>1. ASSUME NEW k \in Job
      PROVE  \/ At(k) = "none"
             \/ k = "sync_odds" /\ At(k) \in {"ask", "sync_fixtures", "sync_odds"}
             \/ k = "settle_results"
                  /\ At(k) \in {"ask", "settle_results_hkjc", "settle_results_fallback", "flag"}
  BY Programs DEF At
<1> QED BY <1>1 DEF Keys, Stage

\* Where a job goes on to is a stage, or none; the other job stays where it is.
LEMMA GoToMoves ==
  ASSUME stage \in [Job -> 0 .. 4], NEW j \in Job, NEW n \in 0 .. 5, GoTo(j, n)
  PROVE  stage' \in [Job -> 0 .. 4] /\ \A i \in Job \ {j} : stage'[i] = stage[i]
BY Programs DEF GoTo

\* And so it is where a stage ends, which leaves the job without a run.
LEMMA LeaveMoves ==
  ASSUME JobsTypeOK, NEW j \in Job, NEW ok \in BOOLEAN, Leave(j, ok)
  PROVE  /\ stage' \in [Job -> 0 .. 4]
         /\ run' \in [Job -> [pc : {"none", "begun", "worked", "closing"}, id : Nat, ok : BOOLEAN]]
         /\ run'[j] = NoRun
         /\ \A i \in Job \ {j} : stage'[i] = stage[i] /\ run'[i] = run[i]
<1>1. PICK n \in (IF ok THEN Onward(j) ELSE {Rescue(j, stage[j])}) : GoTo(j, n)
  BY DEF Leave
<1>2. n \in 0 .. 5
  BY Programs DEF Onward, Rescue, JobsTypeOK
<1>3. /\ stage' \in [Job -> 0 .. 4]
      /\ \A i \in Job \ {j} : stage'[i] = stage[i]
  BY <1>1, <1>2, GoToMoves DEF JobsTypeOK
<1> QED BY <1>3 DEF Leave, JobsTypeOK, NoRun

\* The ids count up from 1.
LEMMA Ids == JobsTypeOK => /\ DOMAIN rows = 1 .. Len(rows) /\ Len(rows) \in Nat
                           /\ \A id \in DOMAIN rows : id # 0
<1> SUFFICES ASSUME JobsTypeOK
             PROVE  DOMAIN rows = 1 .. Len(rows) /\ Len(rows) \in Nat
  OBVIOUS
<1>1. PICK R : rows \in Seq(R)
  BY DEF JobsTypeOK
<1> QED BY <1>1

\* Between two runs there is no id; within one it is that of a row.
LEMMA Runs ==
  RunsHold => \A i \in Job : IF run[i].pc = "none" THEN run[i] = NoRun /\ run[i].id = 0
                             ELSE run[i] # NoRun /\ run[i].id \in DOMAIN rows
<1>1. NoRun.id = 0 /\ NoRun.pc = "none"
  BY DEF NoRun
<1> QED BY <1>1 DEF RunsHold, RunHolds

\* A row that is being worked on is that of a run.
LEMMA AtWorkIsRun ==
  ASSUME JobsTypeOK, RunsHold, NEW id \in DOMAIN rows, AtWork(id)
  PROVE  \E i \in Job : /\ run[i].id = id /\ run[i].pc # "none"
                        /\ At(i) = rows[id].key /\ At(i) \in Keys
<1>1. PICK i \in Job : run[i].id = id /\ At(i) = rows[id].key
  BY DEF AtWork
<1>2. id # 0
  BY Ids
<1>3. run[i].pc # "none"
  BY <1>1, <1>2, Runs
<1> QED BY <1>1, <1>3 DEF RunsHold, RunHolds

\* A step that leaves the rows and what is committed alone, and that ends a run or
\* keeps it where its job is, keeps the runs sound.
LEMMA RunsKeep ==
  ASSUME JobsTypeOK, RunsHold, rows' = rows, committed' = committed,
         \A i \in Job : \/ run'[i] = NoRun
                        \/ /\ run'[i].id = run[i].id /\ run'[i].ok = run[i].ok
                           /\ run'[i].pc \in {run[i].pc, "closing"} /\ run[i].pc # "none"
                           /\ stage'[i] = stage[i]
  PROVE  \A i \in Job : RunHolds(i)'
<1> SUFFICES ASSUME NEW i \in Job PROVE RunHolds(i)'
  OBVIOUS
<1>1. CASE run'[i] = NoRun
  BY <1>1 DEF RunHolds, NoRun
<1>2. CASE run'[i] # NoRun
  <2>1. /\ run'[i].id = run[i].id /\ run'[i].ok = run[i].ok
        /\ run'[i].pc \in {run[i].pc, "closing"} /\ run[i].pc # "none" /\ stage'[i] = stage[i]
    BY <1>2
  <2>2. At(i)' = At(i)
    BY <2>1 DEF At
  <2>3. run[i].id \in DOMAIN rows /\ run[i].id # 0
    BY <2>1, Ids DEF RunsHold, RunHolds
  <2>4. ASSUME NEW k \in Job, run'[k].id = run'[i].id PROVE k = i
    <3>1. run[k].id = run[i].id
      BY <2>1, <2>3, <2>4 DEF NoRun
    <3> QED BY <2>1, <3>1 DEF RunsHold, RunHolds
  <2> QED BY <2>1, <2>2, <2>4 DEF RunsHold, RunHolds
<1> QED BY <1>1, <1>2

\* And so the rows, if a run it ends was cut short or has lost its row.
LEMMA RowsKeep ==
  ASSUME JobsTypeOK, RunsHold, RowsTellTheTruth,
         rows' = rows, committed' = committed, lost \subseteq lost',
         \A i \in Job : run[i].pc # "none" =>
            \/ run'[i].id = run[i].id /\ stage'[i] = stage[i]
            \/ run[i].id \in lost'
            \/ rows[run[i].id] = Gone
  PROVE  RowsTellTheTruth'
<1> SUFFICES ASSUME NEW id \in DOMAIN rows, rows[id] # Gone PROVE RowHolds(id)'
  BY DEF RowsTellTheTruth, RowHolds
<1>1. AtWork(id) => AtWork(id)' \/ id \in lost'
  <2> SUFFICES ASSUME AtWork(id), id \notin lost' PROVE AtWork(id)'
    OBVIOUS
  <2>1. PICK i \in Job : run[i].id = id /\ run[i].pc # "none" /\ At(i) = rows[id].key
    BY AtWorkIsRun
  <2>2. run'[i].id = id /\ stage'[i] = stage[i]
    BY <2>1
  <2> QED BY <2>1, <2>2 DEF AtWork, At
<1> QED BY <1>1 DEF RowsTellTheTruth, RowHolds

-----------------------------------------------------------------------------
(* The steps.                                                              *)

\* The shape of the variables: a row is inserted at the end or has its status set,
\* and what is committed or lost are ids of rows.
LEMMA JobsTypeStep == JobsTypeOK /\ RunsHold /\ [Next]_vars => JobsTypeOK'
<1> SUFFICES ASSUME JobsTypeOK, RunsHold, [Next]_vars PROVE JobsTypeOK'
  OBVIOUS
<1> USE DEF JobsTypeOK
<1>1. CASE Tick
  BY <1>1 DEF Tick, jobVars, bounds
<1>2. CASE Stop
  <2>1. {run[j].id : j \in {k \in Job : run[k] # NoRun}} \subseteq DOMAIN rows
    BY Runs
  <2>2. NoRun \in [pc : {"none", "begun", "worked", "closing"}, id : Nat, ok : BOOLEAN]
    BY DEF NoRun
  <2> QED BY <1>2, <2>1, <2>2, JobsAssumption DEF Stop, Mishap
<1>3. CASE ResetRuns
  BY <1>3, JobsAssumption DEF ResetRuns, Mishap
<1>4. CASE EndReset
  BY <1>4 DEF EndReset, bounds
<1>5. ASSUME NEW j \in Job, Fire(j) PROVE JobsTypeOK'
  BY <1>5, JobsAssumption DEF Fire
<1>6. ASSUME NEW j \in Job, Ask(j) \/ (Request(j) /\ UNCHANGED jobVars) PROVE JobsTypeOK'
  BY <1>6 DEF Ask, jobVars, bounds
<1>7. ASSUME NEW j \in Job, Asked(j) \/ PassSkipped(j) PROVE JobsTypeOK'
  BY <1>7, GoToMoves, Programs DEF Asked, PassSkipped, Rescue, bounds
<1>8. ASSUME NEW j \in Job, BeginRun(j) PROVE JobsTypeOK'
  BY <1>8, Ids DEF BeginRun, RunRow, Status, bounds
<1>9. ASSUME NEW j \in Job, Work(j) PROVE JobsTypeOK'
  <2>1. run[j].id \in DOMAIN rows
    BY <1>9 DEF Work, RunsHold, RunHolds
  <2>2. run' \in [Job -> [pc : {"none", "begun", "worked", "closing"}, id : Nat, ok : BOOLEAN]]
    <3>1. PICK ok \in BOOLEAN : run' = [run EXCEPT ![j].pc = "worked", ![j].ok = ok]
      BY <1>9 DEF Work
    <3> QED BY <3>1
  <2> QED BY <1>9, <2>1, <2>2 DEF Work, bounds
<1>10. ASSUME NEW j \in Job, FetchRow(j) PROVE JobsTypeOK'
  <2>1. CASE rows[run[j].id] = Gone
    <3>1. run[j].ok \in BOOLEAN /\ Leave(j, run[j].ok)
      BY <1>10, <2>1 DEF FetchRow
    <3> QED BY <1>10, <3>1, LeaveMoves DEF FetchRow, bounds
  <2>2. CASE rows[run[j].id] # Gone
    BY <1>10, <2>2 DEF FetchRow, bounds
  <2> QED BY <2>1, <2>2
<1>11. ASSUME NEW j \in Job, FinishRow(j) PROVE JobsTypeOK'
  <2>1. run[j].ok \in BOOLEAN /\ Leave(j, run[j].ok) /\ FinalStatus(run[j].ok) \in Status
    BY <1>11 DEF FinishRow, FinalStatus, Status
  <2>2. rows' \in Seq(RunRow \cup {Gone}) /\ DOMAIN rows' = DOMAIN rows
    <3>1. run[j].id \in 1 .. Len(rows) /\ rows[run[j].id] \in RunRow
      BY <1>11, Ids, Runs DEF FinishRow
    <3> DEFINE row == [rows[run[j].id] EXCEPT !.status = FinalStatus(run[j].ok)]
    <3>2. row \in RunRow
      BY <2>1, <3>1 DEF RunRow
    <3>3. rows' = [rows EXCEPT ![run[j].id] = row]
      BY <1>11 DEF FinishRow
    <3> HIDE DEF row
    <3> QED BY <3>1, <3>2, <3>3, ExceptSeq
  <2> QED BY <1>11, <2>1, <2>2, LeaveMoves DEF FinishRow, bounds
<1>12. ASSUME NEW j \in Job, StaleRow(j) PROVE JobsTypeOK'
  BY <1>12, LeaveMoves DEF StaleRow, bounds
<1>13. ASSUME NEW j \in Job, Flag(j) PROVE JobsTypeOK'
  <2>1. /\ rows' \in Seq(RunRow \cup {Gone}) /\ DOMAIN rows \subseteq DOMAIN rows'
    BY <1>13, Ids DEF Flag, RunRow, Status
  <2>2. stage' \in [Job -> 0 .. 4]
    BY <1>13, GoToMoves, Programs DEF Flag
  <2> QED BY <1>13, <2>1, <2>2 DEF Flag, bounds
<1>14. ASSUME NEW j \in Job, BookkeepingFails(j) PROVE JobsTypeOK'
  <2>1. lost' \subseteq DOMAIN rows
    BY <1>14, Runs DEF BookkeepingFails
  <2>2. Leave(j, FALSE) /\ Mishap /\ UNCHANGED <<rows, doomed, committed, fires>>
    BY <1>14 DEF BookkeepingFails
  <2>3. mishaps' \in 0 .. MaxMishaps
    BY <2>2, JobsAssumption DEF Mishap
  <2> QED BY <2>1, <2>2, <2>3, LeaveMoves
<1>15. CASE UNCHANGED vars
  BY <1>15 DEF vars, jobVars, bounds
<1> QED BY <1>1, <1>2, <1>3, <1>4, <1>5, <1>6, <1>7, <1>8, <1>9, <1>10, <1>11, <1>12,
           <1>13, <1>14, <1>15 DEF Next, JobStep

\* Every step is one of the client's or leaves the client alone, and a job is at a
\* request only while it asks.
LEMMA AsksStep ==
  JobsTypeOK /\ ClientInv /\ RunsHold /\ [Next]_vars
     => \A i \in Job : call'[i].pc # "idle" => At(i)' = "ask"
<1> SUFFICES ASSUME JobsTypeOK, ClientInv, RunsHold, [Next]_vars, NEW i \in Job,
                    call'[i].pc # "idle"
             PROVE  At(i)' = "ask"
  OBVIOUS
<1>1. /\ call \in [Job -> [pc : CallStates, attempt : 0 .. MaxRetries, sleep : Nat]]
      /\ call[i].pc # "idle" => At(i) = "ask"
  BY JobsAssumption DEF ClientInv, ClientTypeOK, RunsHold
<1>2. call[i].pc # "idle" /\ stage' = stage => At(i)' = "ask"
  BY <1>1 DEF At
<1>3. CASE Tick
  BY <1>1, <1>2, <1>3, JobsAssumption DEF Tick, ClientTick, jobVars
<1>4. CASE Stop
  BY <1>4, JobsAssumption DEF Stop, Rebuild, NoCall
<1>5. CASE ResetRuns \/ EndReset \/ UNCHANGED vars
  BY <1>2, <1>5 DEF ResetRuns, EndReset, vars, clientVars, jobVars
<1>6. ASSUME NEW j \in Job, Ask(j) PROVE At(i)' = "ask"
  BY <1>1, <1>2, <1>6 DEF Ask, Execute, jobVars, At
<1>7. ASSUME NEW j \in Job, Request(j), UNCHANGED jobVars PROVE At(i)' = "ask"
  BY <1>1, <1>2, <1>7
     DEF Request, Acquire, Post, Answer, Retriable, Retry, GiveUp, jobVars
<1>8. ASSUME NEW j \in Job, Asked(j) PROVE At(i)' = "ask"
  <2>1. i # j /\ call[i].pc # "idle"
    BY <1>1, <1>8, JobsAssumption DEF Asked, Return, NoCall
  <2>2. stage'[i] = stage[i]
    BY <1>8, <2>1 DEF Asked, GoTo, JobsTypeOK
  <2> QED BY <1>1, <2>1, <2>2 DEF At
<1>9. ASSUME NEW j \in Job, call' = call, At(j) # "ask",
             \A k \in Job \ {j} : stage'[k] = stage[k]
      PROVE  At(i)' = "ask"
  BY <1>1, <1>9 DEF At
<1>10. ASSUME NEW j \in Job, Fire(j) PROVE At(i)' = "ask"
  BY <1>9, <1>10, Programs DEF Fire, clientVars, At, JobsTypeOK
<1>11. ASSUME NEW j \in Job, PassSkipped(j) \/ Flag(j) PROVE At(i)' = "ask"
  BY <1>9, <1>11 DEF PassSkipped, Flag, clientVars, GoTo, JobsTypeOK
<1>12. ASSUME NEW j \in Job, BeginRun(j) \/ Work(j) PROVE At(i)' = "ask"
  BY <1>2, <1>12 DEF BeginRun, Work, clientVars
<1>13. ASSUME NEW j \in Job, FetchRow(j) \/ FinishRow(j) \/ StaleRow(j) \/ BookkeepingFails(j)
       PROVE  At(i)' = "ask"
  <2>1. At(j) # "ask" /\ call' = call
    BY <1>13 DEF FetchRow, FinishRow, StaleRow, BookkeepingFails, RunsHold, RunHolds, NoRun,
                 Keys, clientVars
  <2>2. stage' = stage \/ \E ok \in BOOLEAN : Leave(j, ok)
    BY <1>13 DEF FetchRow, FinishRow, StaleRow, BookkeepingFails, JobsTypeOK
  <2> QED BY <1>2, <1>9, <2>1, <2>2, LeaveMoves
<1> QED BY <1>3, <1>4, <1>5, <1>6, <1>7, <1>8, <1>10, <1>11, <1>12, <1>13 DEF Next, JobStep

\* A job does not leave its stage, nor ask, while it is in a run.
LEMMA StaysAtWork ==
  ASSUME RunsHold, NEW j \in Job,
         Fire(j) \/ Ask(j) \/ Asked(j) \/ (Request(j) /\ UNCHANGED jobVars) \/ PassSkipped(j)
  PROVE  run[j] = NoRun \/ stage' = stage
<1> SUFFICES ASSUME run[j] # NoRun PROVE stage' = stage
  OBVIOUS
<1>1. At(j) \in Keys /\ run[j].pc # "none"
  BY DEF RunsHold, RunHolds
<1>2. call[j].pc = "idle"
  BY <1>1 DEF RunsHold, Keys
<1>3. ~Fire(j) /\ ~Ask(j) /\ ~PassSkipped(j)
  BY <1>1, Programs DEF Fire, Ask, PassSkipped, Keys, Stage, At
<1>4. ~Asked(j)
  BY <1>2 DEF Asked, Return
<1> QED BY <1>3, <1>4 DEF jobVars

\* A run begins under an id of its own, with the key of the stage its job is at; it
\* is committed once, and its row is finished in the step that ends it.
LEMMA RunsStep == JobsTypeOK /\ RunsHold /\ [Next]_vars => \A i \in Job : RunHolds(i)'
<1> SUFFICES ASSUME JobsTypeOK, RunsHold, [Next]_vars, NEW i \in Job PROVE RunHolds(i)'
  OBVIOUS
<1>1. CASE Tick \/ Stop \/ ResetRuns \/ UNCHANGED vars
  BY <1>1, RunsKeep, Runs DEF Tick, Stop, ResetRuns, vars, jobVars
<1>2. CASE EndReset
  <2>1. /\ run' = run /\ stage' = stage /\ committed' = committed
        /\ DOMAIN rows' = DOMAIN rows
        /\ \A id \in DOMAIN rows : rows'[id] \in {rows[id], Gone}
    BY <1>2 DEF EndReset
  <2>2. At(i)' = At(i)
    BY <2>1 DEF At
  <2> QED BY <2>1, <2>2 DEF RunsHold, RunHolds
<1>3. ASSUME NEW j \in Job,
             Fire(j) \/ Ask(j) \/ Asked(j) \/ (Request(j) /\ UNCHANGED jobVars) \/ PassSkipped(j)
      PROVE  RunHolds(i)'
  <2>1. rows' = rows /\ committed' = committed /\ run' = run
    BY <1>3 DEF Fire, Ask, Asked, PassSkipped, jobVars
  <2>2. run[j] = NoRun \/ stage' = stage
    BY <1>3, StaysAtWork
  <2>3. \A k \in Job \ {j} : stage'[k] = stage[k]
    BY <1>3 DEF Fire, Ask, Asked, PassSkipped, jobVars, GoTo, JobsTypeOK
  <2> QED BY <2>1, <2>2, <2>3, RunsKeep, Runs
<1>4. ASSUME NEW j \in Job, BeginRun(j) PROVE RunHolds(i)'
  <2> DEFINE new == Len(rows) + 1
  <2>1. /\ DOMAIN rows' = 1 .. new /\ rows'[new] = [key |-> At(j), status |-> "running"]
        /\ \A id \in DOMAIN rows : rows'[id] = rows[id]
        /\ DOMAIN rows = 1 .. Len(rows) /\ Len(rows) \in Nat
    BY <1>4, Ids DEF BeginRun, JobsTypeOK
  <2>2. /\ run'[j].pc = "begun" /\ run'[j].id = new /\ run'[j].ok = FALSE
        /\ \A k \in Job \ {j} : run'[k] = run[k]
    BY <1>4 DEF BeginRun, JobsTypeOK
  <2>3. /\ At(i)' = At(i) /\ At(j)' = At(j) /\ At(j) \in Keys
        /\ committed' = committed /\ committed \subseteq DOMAIN rows
    BY <1>4 DEF BeginRun, At, JobsTypeOK
  <2>4. \A k \in Job : run[k].id # new
    BY <2>1, Runs
  <2>5. CASE i = j
    BY <2>1, <2>2, <2>3, <2>4, <2>5 DEF RunHolds
  <2>6. CASE i # j
    BY <2>1, <2>2, <2>3, <2>4, <2>6 DEF RunsHold, RunHolds
  <2> QED BY <2>5, <2>6
<1>5. ASSUME NEW j \in Job, Work(j) PROVE RunHolds(i)'
  <2>1. PICK ok \in BOOLEAN :
          /\ run' = [run EXCEPT ![j].pc = "worked", ![j].ok = ok]
          /\ committed' = IF ok THEN committed \cup {run[j].id} ELSE committed
    BY <1>5 DEF Work
  <2>2. /\ run'[j].pc = "worked" /\ run'[j].id = run[j].id /\ run'[j].ok = ok
        /\ \A k \in Job \ {j} : run'[k] = run[k]
    BY <2>1 DEF JobsTypeOK
  <2>3. rows' = rows /\ At(i)' = At(i) /\ run[j].pc = "begun"
    BY <1>5 DEF Work, At
  <2>4. ~run[j].ok
    BY <2>3 DEF RunsHold, RunHolds
  <2>5. \A k \in Job : run'[k].id = run[k].id
    BY <2>2
  <2>6. run[j].id \in committed' <=> ok
    BY <2>1, <2>3, <2>4 DEF RunsHold, RunHolds
  <2>7. CASE i = j
    BY <2>2, <2>3, <2>5, <2>6, <2>7 DEF RunsHold, RunHolds
  <2>8. CASE i # j
    <3>1. run[i].pc # "none" => (run[i].id \in committed' <=> run[i].id \in committed)
      BY <2>1, <2>3, <2>8 DEF RunsHold, RunHolds
    <3>2. run'[i] = run[i]
      BY <2>2, <2>8
    <3> QED BY <2>3, <2>5, <3>1, <3>2 DEF RunsHold, RunHolds
  <2> QED BY <2>7, <2>8
<1>6. ASSUME NEW j \in Job, FetchRow(j) \/ StaleRow(j) \/ BookkeepingFails(j) PROVE RunHolds(i)'
  <2>1. rows' = rows /\ committed' = committed
    BY <1>6 DEF FetchRow, StaleRow, BookkeepingFails
  <2>2. \/ stage' = stage /\ run[j].pc # "none" /\ run' = [run EXCEPT ![j].pc = "closing"]
        \/ \E ok \in BOOLEAN : Leave(j, ok)
    BY <1>6 DEF FetchRow, StaleRow, BookkeepingFails, JobsTypeOK
  <2>3. CASE stage' = stage /\ run[j].pc # "none" /\ run' = [run EXCEPT ![j].pc = "closing"]
    <3>1. /\ run'[j].pc = "closing" /\ run'[j].id = run[j].id /\ run'[j].ok = run[j].ok
          /\ \A k \in Job \ {j} : run'[k] = run[k]
      BY <2>3 DEF JobsTypeOK
    <3> QED BY <2>1, <2>3, <3>1, RunsKeep, Runs
  <2>4. CASE \E ok \in BOOLEAN : Leave(j, ok)
    BY <2>1, <2>4, LeaveMoves, RunsKeep, Runs
  <2> QED BY <2>2, <2>3, <2>4
<1>7. ASSUME NEW j \in Job, FinishRow(j) PROVE RunHolds(i)'
  <2>1. Leave(j, run[j].ok) /\ run[j].ok \in BOOLEAN
    BY <1>7 DEF FinishRow, JobsTypeOK
  <2>2. /\ run'[j] = NoRun
        /\ \A k \in Job \ {j} : stage'[k] = stage[k] /\ run'[k] = run[k]
    BY <2>1, LeaveMoves
  <2>3. /\ DOMAIN rows' = DOMAIN rows /\ committed' = committed
        /\ \A id \in DOMAIN rows \ {run[j].id} : rows'[id] = rows[id]
    BY <1>7, Ids DEF FinishRow
  <2>4. CASE i = j
    BY <2>2, <2>4 DEF RunHolds, NoRun
  <2>5. CASE i # j
    <3>1. At(i)' = At(i) /\ run'[i] = run[i]
      BY <2>2, <2>5 DEF At
    <3>2. run[j].id # 0 /\ NoRun.id = 0
      BY <1>7, Runs, Ids DEF FinishRow, NoRun
    <3>3. run[i].pc # "none" => run[i].id \in DOMAIN rows \ {run[j].id} /\ run[i].id # 0
      BY <2>5, Runs, Ids DEF RunsHold, RunHolds
    <3> QED BY <2>2, <2>3, <3>1, <3>2, <3>3 DEF RunsHold, RunHolds
  <2> QED BY <2>4, <2>5
<1>8. ASSUME NEW j \in Job, Flag(j) PROVE RunHolds(i)'
  <2>1. /\ DOMAIN rows \subseteq DOMAIN rows' /\ \A id \in DOMAIN rows : rows'[id] = rows[id]
        /\ run' = run /\ committed' = committed
    BY <1>8, Ids DEF Flag, JobsTypeOK
  <2>2. run[j].pc = "none"
    BY <1>8 DEF Flag, RunsHold, RunHolds, Keys
  <2>3. i # j => At(i)' = At(i)
    BY <1>8 DEF Flag, GoTo, At, JobsTypeOK
  <2> QED BY <2>1, <2>2, <2>3 DEF RunsHold, RunHolds
<1> QED BY <1>1, <1>2, <1>3, <1>4, <1>5, <1>6, <1>7, <1>8 DEF Next, JobStep

\* A row begins as the newest of its key, with no run of that key at work; its run
\* finishes it as it was committed, and whatever else ends a run leaves its row cut
\* short or gone.
LEMMA RowsStep ==
  JobsTypeOK /\ RunsHold /\ RowsTellTheTruth /\ [Next]_vars => RowsTellTheTruth'
<1> SUFFICES ASSUME JobsTypeOK, RunsHold, RowsTellTheTruth, [Next]_vars
             PROVE  RowsTellTheTruth'
  OBVIOUS
<1>1. CASE Tick \/ Stop \/ ResetRuns \/ UNCHANGED vars
  BY <1>1, RowsKeep, Runs DEF Tick, Stop, ResetRuns, vars, jobVars
<1>2. CASE EndReset
  <2>1. /\ run' = run /\ stage' = stage /\ committed' = committed /\ lost' = lost
        /\ DOMAIN rows' = DOMAIN rows /\ Len(rows') = Len(rows)
        /\ \A id \in DOMAIN rows : rows'[id] \in {rows[id], Gone}
    BY <1>2, Ids DEF EndReset
  <2> SUFFICES ASSUME NEW id \in DOMAIN rows, rows'[id] = rows[id], rows[id] # Gone
               PROVE  RowHolds(id)'
    BY <2>1 DEF RowsTellTheTruth, RowHolds
  <2>2. AtWork(id)' <=> AtWork(id)
    BY <2>1 DEF AtWork, At
  <2>3. \A later \in id + 1 .. Len(rows) : later \in DOMAIN rows
    BY Ids
  <2> QED BY <2>1, <2>2, <2>3 DEF RowsTellTheTruth, RowHolds
<1>3. ASSUME NEW j \in Job,
             Fire(j) \/ Ask(j) \/ Asked(j) \/ (Request(j) /\ UNCHANGED jobVars) \/ PassSkipped(j)
      PROVE  RowsTellTheTruth'
  <2>1. rows' = rows /\ committed' = committed /\ run' = run /\ lost' = lost
    BY <1>3 DEF Fire, Ask, Asked, PassSkipped, jobVars
  <2>2. run[j] = NoRun \/ stage' = stage
    BY <1>3, StaysAtWork
  <2>3. \A k \in Job \ {j} : stage'[k] = stage[k]
    BY <1>3 DEF Fire, Ask, Asked, PassSkipped, jobVars, GoTo, JobsTypeOK
  <2> QED BY <2>1, <2>2, <2>3, RowsKeep, Runs
<1>4. ASSUME NEW j \in Job, BeginRun(j) \/ Flag(j) PROVE RowsTellTheTruth'
  <2> PICK new : new = Len(rows) + 1
    OBVIOUS
  <2>1. /\ DOMAIN rows = 1 .. Len(rows) /\ DOMAIN rows' = 1 .. new /\ Len(rows') = new
        /\ Len(rows) \in Nat /\ \A id \in DOMAIN rows : rows'[id] = rows[id]
        /\ rows'[new] = [key |-> At(j), status |-> IF BeginRun(j) THEN "running" ELSE "flagged"]
    <3>1. PICK row : /\ rows' = Append(rows, row)
                     /\ row = [key |-> At(j),
                               status |-> IF BeginRun(j) THEN "running" ELSE "flagged"]
      BY <1>4 DEF BeginRun, Flag
    <3>2. PICK R : rows \in Seq(R)
      BY DEF JobsTypeOK
    <3> QED BY <3>1, <3>2, Ids
  <2>2. /\ run[j] = NoRun /\ run[j].pc = "none"
        /\ \A k \in Job \ {j} : run'[k] = run[k] /\ stage'[k] = stage[k]
    BY <1>4, Runs DEF BeginRun, Flag, GoTo, JobsTypeOK, RunsHold, RunHolds, Keys
  <2>3. RowHolds(new)'
    <3>1. CASE BeginRun(j)
      <4>1. run'[j].id = new /\ At(j)' = At(j)
        BY <3>1 DEF BeginRun, At, JobsTypeOK
      <4>2. AtWork(new)'
        BY <2>1, <4>1 DEF AtWork
      <4>3. rows'[new].status = "running" /\ new + 1 .. Len(rows') = {}
        BY <2>1, <3>1
      <4> QED BY <4>2, <4>3 DEF RowHolds
    <3>2. CASE ~BeginRun(j)
      <4>1. rows'[new].status = "flagged"
        BY <2>1, <3>2
      <4> QED BY <4>1 DEF RowHolds
    <3> QED BY <3>1, <3>2
  <2>4. ASSUME NEW id \in DOMAIN rows, rows[id] # Gone, AtWork(id)
        PROVE  AtWork(id)' /\ rows[id].key # At(j)
    <3>1. PICK k \in Job : /\ run[k].id = id /\ run[k].pc # "none"
                           /\ At(k) = rows[id].key /\ At(k) \in Keys
      BY <2>4, AtWorkIsRun
    <3>2. k # j /\ run'[k].id = id /\ At(k)' = At(k)
      BY <2>2, <3>1 DEF At
    <3>3. At(k) # At(j)
      BY <3>1, <3>2, KeysAreApart DEF JobsTypeOK
    <3> QED BY <2>1, <3>1, <3>2, <3>3 DEF AtWork
  <2>5. ASSUME NEW id \in DOMAIN rows PROVE RowHolds(id)'
    <3>1. committed' = committed /\ lost' = lost
      BY <1>4 DEF BeginRun, Flag
    <3>2. rows'[new].key = At(j) /\ rows'[id] = rows[id]
      BY <2>1
    <3>3. \A later \in id + 1 .. Len(rows') :
            later = new \/ (later \in id + 1 .. Len(rows) /\ rows'[later] = rows[later])
      BY <2>1
    <3>4. RowHolds(id)
      BY DEF RowsTellTheTruth
    <3> QED BY <2>4, <3>1, <3>2, <3>3, <3>4 DEF RowHolds
  <2> QED BY <2>1, <2>3, <2>5 DEF RowsTellTheTruth
<1>5. ASSUME NEW j \in Job, Work(j) PROVE RowsTellTheTruth'
  <2>1. /\ rows' = rows /\ lost' = lost /\ stage' = stage
        /\ committed' \in {committed, committed \cup {run[j].id}}
        /\ \A k \in Job : run'[k].id = run[k].id
        /\ run[j].pc = "begun"
    <3>1. PICK ok \in BOOLEAN :
            /\ run' = [run EXCEPT ![j].pc = "worked", ![j].ok = ok]
            /\ committed' = IF ok THEN committed \cup {run[j].id} ELSE committed
      BY <1>5 DEF Work
    <3>2. \A k \in Job : run'[k].id = run[k].id
      BY <3>1 DEF JobsTypeOK
    <3> QED BY <1>5, <3>1, <3>2 DEF Work
  <2>2. rows[run[j].id] = Gone \/ rows[run[j].id].status = "running"
    <3>1. RunHolds(j)
      BY DEF RunsHold
    <3> QED BY <2>1, <3>1 DEF RunHolds
  <2>3. \A id \in DOMAIN rows : AtWork(id)' <=> AtWork(id)
    BY <2>1 DEF AtWork, At
  <2> QED BY <2>1, <2>2, <2>3 DEF RowsTellTheTruth, RowHolds
<1>6. ASSUME NEW j \in Job, FetchRow(j) \/ StaleRow(j) \/ BookkeepingFails(j)
      PROVE  RowsTellTheTruth'
  <2>1. rows' = rows /\ committed' = committed /\ lost \subseteq lost'
    BY <1>6 DEF FetchRow, StaleRow, BookkeepingFails
  <2>2. \/ stage' = stage /\ run' = [run EXCEPT ![j].pc = "closing"]
        \/ /\ \E ok \in BOOLEAN : Leave(j, ok)
           /\ run[j] = NoRun \/ run[j].id \in lost' \/ rows[run[j].id] = Gone
    BY <1>6 DEF FetchRow, StaleRow, BookkeepingFails, JobsTypeOK
  <2>3. CASE stage' = stage /\ run' = [run EXCEPT ![j].pc = "closing"]
    <3>1. \A k \in Job : run'[k].id = run[k].id
      BY <2>3 DEF JobsTypeOK
    <3> QED BY <2>1, <2>3, <3>1, RowsKeep
  <2>4. CASE /\ \E ok \in BOOLEAN : Leave(j, ok)
             /\ run[j] = NoRun \/ run[j].id \in lost' \/ rows[run[j].id] = Gone
    BY <2>1, <2>4, LeaveMoves, RowsKeep, Runs
  <2> QED BY <2>2, <2>3, <2>4
<1>7. ASSUME NEW j \in Job, FinishRow(j) PROVE RowsTellTheTruth'
  <2> PICK mine : mine = run[j].id
    OBVIOUS
  <2>1. Leave(j, run[j].ok) /\ run[j].ok \in BOOLEAN /\ run[j].pc # "none"
    BY <1>7 DEF FinishRow, JobsTypeOK
  <2>2. \A k \in Job \ {j} : stage'[k] = stage[k] /\ run'[k] = run[k]
    BY <2>1, LeaveMoves
  <2>3. /\ DOMAIN rows' = DOMAIN rows /\ Len(rows') = Len(rows)
        /\ committed' = committed /\ lost' = lost
        /\ mine \in DOMAIN rows /\ rows[mine] = [key |-> At(j), status |-> "running"]
        /\ rows'[mine] = [key |-> At(j), status |-> FinalStatus(run[j].ok)]
        /\ \A id \in DOMAIN rows \ {mine} : rows'[id] = rows[id]
    <3>1. /\ mine \in DOMAIN rows /\ rows[mine] = [key |-> At(j), status |-> "running"]
      BY <1>7, <2>1 DEF FinishRow, RunsHold, RunHolds
    <3>2. /\ rows' = [rows EXCEPT ![mine] = [rows[mine] EXCEPT !.status = FinalStatus(run[j].ok)]]
          /\ committed' = committed /\ lost' = lost
      BY <1>7 DEF FinishRow
    <3>3. [rows[mine] EXCEPT !.status = FinalStatus(run[j].ok)]
             = [key |-> At(j), status |-> FinalStatus(run[j].ok)]
      BY <3>1
    <3>4. PICK R : rows \in Seq(R)
      BY DEF JobsTypeOK
    <3> QED BY <3>1, <3>2, <3>3, <3>4
  <2>4. RowHolds(mine)'
    <3>1. mine \in committed <=> run[j].ok
      BY <2>1 DEF RunsHold, RunHolds
    <3>2. rows'[mine].status = IF run[j].ok THEN "success" ELSE "failed"
      BY <2>3 DEF FinalStatus
    <3> QED BY <2>3, <3>1, <3>2 DEF RowHolds
  <2>5. ASSUME NEW id \in DOMAIN rows \ {mine} PROVE RowHolds(id)'
    <3>1. AtWork(id) => AtWork(id)'
      BY <2>2, <2>3 DEF AtWork, At
    <3>2. rows[mine] # Gone /\ rows'[mine].key = rows[mine].key
      BY <1>7, <2>3 DEF FinishRow
    <3>3. \A later \in id + 1 .. Len(rows) : later \in DOMAIN rows
      BY Ids
    <3>4. \A later \in id + 1 .. Len(rows) :
            (rows'[later] # Gone => rows[later] # Gone) /\ rows'[later].key = rows[later].key
      BY <2>3, <3>2, <3>3
    <3>5. rows'[id] = rows[id]
      BY <2>3
    <3>6. RowHolds(id)
      BY <2>3 DEF RowsTellTheTruth
    <3> QED BY <2>3, <3>1, <3>4, <3>5, <3>6 DEF RowHolds
  <2> QED BY <2>3, <2>4, <2>5 DEF RowsTellTheTruth
<1> QED BY <1>1, <1>2, <1>3, <1>4, <1>5, <1>6, <1>7 DEF Next, JobStep

\* What /ops/runs shows is so, whatever fails, stops or is reset around the jobs, and
\* the client's lock is sound, for any number of runs.
THEOREM JobsInvariant == Spec => []JobsInv
<1>1. Init => JobsInv
  <2>1. ASSUME Init PROVE JobsTypeOK /\ RowsTellTheTruth
    BY <2>1, JobsAssumption DEF Init, JobsTypeOK, RowsTellTheTruth, NoRun
  <2>2. ASSUME Init PROVE ClientInv
    BY <2>2, ClientInvStart DEF Init
  <2>3. ASSUME Init PROVE RunsHold
    BY <2>3, JobsAssumption DEF Init, ClientInit, RunsHold, RunHolds, NoRun, NoCall
  <2> QED BY <2>1, <2>2, <2>3 DEF JobsInv
<1>2. JobsInv /\ [Next]_vars => JobsInv'
  BY JobStepIsClients, ClientInvStep, JobsTypeStep, AsksStep, RunsStep, RowsStep
     DEF JobsInv, RunsHold
<1> QED BY <1>1, <1>2, PTL DEF Spec
=============================================================================

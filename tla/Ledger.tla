------------------------------- MODULE Ledger -------------------------------
(***************************************************************************)
(* The paper ledger (app/services/ledger.py): the job ledger_update, run   *)
(* hourly by the scheduler and at will by the command `ledger`, settles    *)
(* the open bets whose match has a confirmed result and then places new    *)
(* bets on the value predictions of the current champion, in one           *)
(* transaction.                                                            *)
(*                                                                         *)
(* A run is modelled statement by statement, because Postgres at READ      *)
(* COMMITTED gives every statement a snapshot of its own: between two of   *)
(* them the other jobs commit quotes, results, predictions, promotions and *)
(* rescheduled kickoffs, and a second ledger process may commit its bets.  *)
(* The tables those jobs write are variables here and each of their        *)
(* transactions is one action.                                             *)
(***************************************************************************)
EXTENDS Settlement, Staking, FiniteSets

CONSTANTS Match, Version,
          Proc,                    \* processes that run ledger_update
          Targets,                 \* a subset of {"1x2", "handicap"}
          MaxTime,                 \* the bound on the clock
          Lead, Lookahead,         \* ml_prior_lead_hours, ml_predict_lookahead_hours
          Width,                   \* sync_odds_interval
          Kickoffs,                \* the kickoff times a match may be given
          SyncTimes,               \* the bound on the times an odds sync starts at
          HadBooks, HdcBooks,      \* books HKJC may quote, [line, odds]
          Beliefs1x2, BeliefsHdc,  \* blended probabilities, percent by outcome
          Rows,                    \* the result rows that may be written
          InitialBankroll,         \* dimes
          BankBound,               \* the bound on a derived bankroll, dimes
          MaxMoves, MaxCrashes,    \* the bounds on reschedules and call-offs, and on crashes
          None                     \* NULL

Time == 0 .. MaxTime
Sources == {"hkjc", "football_data"}

Books(target)   == IF target = "handicap" THEN HdcBooks ELSE HadBooks
Book == HadBooks \cup HdcBooks

\* uq_ledger_bets_natural: the table holds at most one bet per selection, so
\* it is a function of the selection.
Selection == {s \in [match : Match, target : Targets, outcome : Outcomes1x2] :
                s.outcome \in OutcomesOf(s.target)}

Bet == [target : Targets, outcome : Outcomes1x2, version : Version,
        line : Int \cup {NoLine}, odds : Nat, stake : Nat, bank : Int,
        placedAt : Time,
        status : {"pending"} \cup FinalStatus, payout : Nat,
        settledAt : Time \cup {None}, source : Sources \cup {None}]

Result == [home : Nat, away : Nat, confirmed : BOOLEAN, source : Sources]
Signal == [prob : Nat, odds : Nat]

PC == {"idle", "settle", "realized", "place", "insert"}

ASSUME LedgerAssumption ==
  /\ Targets \subseteq {"1x2", "handicap"}
  /\ IsFiniteSet(Match)
  /\ MaxTime \in Nat /\ Lead \in Nat /\ Lookahead \in Nat /\ Width \in Nat \ {0}
  /\ Kickoffs \subseteq Nat /\ SyncTimes \subseteq Nat
  /\ HadBooks \subseteq [line : {NoLine}, odds : [Outcomes1x2 -> Nat]]
  /\ HdcBooks \subseteq [line : Int, odds : [OutcomesHandicap -> Nat]]
  /\ Beliefs1x2 \subseteq [Outcomes1x2 -> 0 .. 100]
  /\ BeliefsHdc \subseteq [OutcomesHandicap -> 0 .. 100]
  /\ Rows \subseteq Result
  /\ InitialBankroll \in Nat /\ BankBound \in Nat
  /\ MaxMoves \in Nat /\ MaxCrashes \in Nat
  /\ None \notin Bet /\ None \notin Result /\ None \notin Signal
  /\ None \notin Version /\ None \notin Book
  /\ None \notin Time

VARIABLES
  clock,
  kickoff,     \* matches.kickoff_time
  calledOff,   \* matches whose status is postponed, cancelled or abandoned
  quotes,      \* odds_snapshots: by target, match and capture time
  fetch,       \* captured_at of the odds sync in flight, or None
  shifted,     \* history: matches whose prior may have changed after its cutoff
  signal,      \* predictions with recommended_fraction > 0, by version
  champion,    \* the champion version of each target, or None
  result,      \* results, at most one per match
  seen,        \* history: every confirmed result a match has had
  book,        \* ledger_bets
  tx,          \* the ledger_update run each process is in, uncommitted
  stable,      \* history: no input of a run has changed since the last began
  moves, crashes

fed  == <<kickoff, calledOff, quotes, fetch, shifted, signal, champion, result, seen, moves>>
own  == <<book, tx, crashes>>
vars == <<clock, fed, own, stable>>

Unchanged == [s \in Selection |-> None]     \* no bet written
NoRun == [pc |-> "idle", started |-> 0, settled |-> Unchanged, realized |-> 0,
          bank |-> 0, placed |-> Unchanged]

Run == [pc : PC, started : Time, settled : [Selection -> Bet \cup {None}],
        realized : Int, bank : Int, placed : [Selection -> Bet \cup {None}]]

FedTypeOK ==
  /\ clock \in Time
  /\ kickoff \in [Match -> Kickoffs]
  /\ calledOff \subseteq Match
  /\ quotes \in [Targets -> [Match -> [Time -> Book \cup {None}]]]
  /\ \A t \in Targets : quotes[t] \in [Match -> [Time -> Books(t) \cup {None}]]
  /\ fetch \in Time \cup {None} /\ shifted \subseteq Match
  /\ signal \in [Version -> [Selection -> Signal \cup {None}]]
  /\ champion \in [Targets -> Version \cup {None}]
  /\ result \in [Match -> Result \cup {None}]
  /\ seen \in [Match -> SUBSET Result]
  /\ moves \in 0 .. MaxMoves

OwnTypeOK ==
  /\ book \in [Selection -> Bet \cup {None}]
  /\ tx \in [Proc -> Run]
  /\ stable \in BOOLEAN
  /\ crashes \in 0 .. MaxCrashes

TypeOK == FedTypeOK /\ OwnTypeOK

Init ==
  /\ clock = 0
  /\ kickoff \in [Match -> Kickoffs]
  /\ calledOff = {}
  /\ quotes = [t \in Targets |-> [m \in Match |-> [i \in Time |-> None]]]
  /\ fetch = None /\ shifted = {}
  /\ signal = [v \in Version |-> [s \in Selection |-> None]]
  /\ champion \in [Targets -> Version \cup {None}]
  /\ result = [m \in Match |-> None]
  /\ seen = [m \in Match |-> {}]
  /\ book = [s \in Selection |-> None]
  /\ tx = [p \in Proc |-> NoRun]
  /\ stable = FALSE
  /\ moves = 0 /\ crashes = 0

-----------------------------------------------------------------------------
(* The bankroll, derived from a table of bets.                             *)

Placed(bets)  == {s \in Selection : bets[s] # None}
Open(bets)    == {s \in Placed(bets) : bets[s].status = "pending"}
Settled(bets) == {s \in Placed(bets) : bets[s].status # "pending"}

Realized(bets) ==
  SumFunction([s \in Settled(bets) |-> bets[s].payout - 10 * bets[s].stake])
\* Mutant of OpenStakes: the bankroll forgets the money that is still at stake.
OpenStakesForgotten(bets) == 0
OpenStakes(bets) == SumFunction([s \in Open(bets) |-> 10 * bets[s].stake])

Bankroll(bets) == InitialBankroll + Realized(bets) - OpenStakes(bets)

\* Rows of the table as process p reads it: its own writes over the committed.
View(p) == [s \in Selection |->
              IF tx[p].placed[s] # None THEN tx[p].placed[s]
              ELSE IF tx[p].settled[s] # None THEN tx[p].settled[s] ELSE book[s]]

-----------------------------------------------------------------------------
(* The other jobs, one action per transaction.                             *)

Tick ==
  /\ clock < MaxTime
  /\ clock' = clock + 1
  /\ UNCHANGED <<fed, own, stable>>

\* The odds sync stamps one captured_at for all its requests before it asks, and
\* stores what it was answered later, however much later.
StartFetch ==
  /\ fetch = None /\ clock \in SyncTimes
  /\ fetch' = clock
  /\ UNCHANGED <<clock, kickoff, calledOff, quotes, shifted, signal, champion, result,
                 seen, moves, own, stable>>

\* snapshot_bucket and _upsert_snapshots: one row to a bucket, which a second capture
\* of the bucket takes over.
Bucket(i) == i - (i % Width)
Upsert(line, at, b) ==
  IF b = None THEN line
  ELSE [i \in Time |-> IF i = at THEN b ELSE IF Bucket(i) = Bucket(at) THEN None ELSE line[i]]

\* A capture of m stored when the cutoff of its prior has passed, in a bucket that
\* began before it.
Straddles(m) == Bucket(fetch) < kickoff[m] - Lead /\ kickoff[m] - Lead <= clock

\* shown is what was answered; nothing at all when the fetch failed.
StoreOdds(shown) ==
  /\ fetch # None
  /\ \A t \in Targets, m \in Match : shown[t][m] \in Books(t) \cup {None}
  /\ quotes' = [t \in Targets |-> [m \in Match |-> Upsert(quotes[t][m], fetch, shown[t][m])]]
  /\ shifted' = shifted \cup {m \in Match : Straddles(m) /\ \E t \in Targets : shown[t][m] # None}
  /\ fetch' = None
  /\ stable' = FALSE
  /\ UNCHANGED <<clock, kickoff, calledOff, signal, champion, result, seen, moves, own>>

\* The latest quote captured strictly before a cutoff, or None.
Before(line, cutoff) ==
  LET times == {i \in Time : i < cutoff /\ line[i] # None}
  IN  IF times = {} THEN None
      ELSE line[CHOOSE i \in times : \A j \in times : j <= i]

\* load_market_priors with the lead, and the price of the moment.
Prior(t, m) == Before(quotes[t][m], kickoff[m] - Lead)
Close(t, m) == Before(quotes[t][m], kickoff[m])

Upcoming == {m \in Match : /\ m \notin calledOff
                           /\ clock <= kickoff[m] /\ kickoff[m] <= clock + Lookahead}

\* A handicap row is only written against a usable main line; a 1x2 row always.
Serves(s) ==
  /\ s.match \in Upcoming
  /\ s.target = "handicap" =>
       /\ Prior(s.target, s.match) # None
       /\ IsWholeOrHalf(Prior(s.target, s.match).line)

\* The row predict_upcoming writes: a signal when the bet shows value at the prior.
NewSignal(s, prob) ==
  LET prior == Prior(s.target, s.match)
  IN  IF /\ prior # None
         /\ IsValue(prob, prior.odds, s.outcome)
         /\ ClearsBuffer(prob, prior.odds[s.outcome])
         /\ KellyPositive(prob, prior.odds[s.outcome])
      THEN [prob |-> prob, odds |-> prior.odds[s.outcome]] ELSE None

\* The blended probability of a selection, under a belief about every match.
Prob(belief, s) ==
  IF s.target = "handicap" THEN belief[s.match][2][s.outcome]
  ELSE belief[s.match][1][s.outcome]

\* One pass over every upcoming match; rows it does not rewrite stay behind.
Predicted(belief) ==
  [v \in Version |-> [s \in Selection |->
     IF v = champion[s.target] /\ Serves(s) THEN NewSignal(s, Prob(belief, s))
     ELSE signal[v][s]]]

PredictUpcoming ==
  /\ \E belief \in [Match -> Beliefs1x2 \X BeliefsHdc] : signal' = Predicted(belief)
  /\ stable' = FALSE
  /\ UNCHANGED <<clock, kickoff, calledOff, quotes, fetch, shifted, champion, result, seen, moves, own>>

Promote(t, v) ==
  /\ champion[t] # v
  /\ champion' = [champion EXCEPT ![t] = v]
  /\ stable' = FALSE
  /\ UNCHANGED <<clock, kickoff, calledOff, quotes, fetch, shifted, signal, result, seen, moves, own>>

\* The reconciler or the backfill writes a result of a match that was played.
\* Which write wins when they race is the subject of Results; here any row may
\* replace any other: a correction, a change of source, a loss of confirmation.
PublishResult(m, r) ==
  /\ kickoff[m] < clock /\ m \notin calledOff
  /\ r # result[m]
  /\ result' = [result EXCEPT ![m] = r]
  /\ seen' = [seen EXCEPT ![m] = IF r.confirmed THEN @ \cup {r} ELSE @]
  /\ stable' = FALSE
  /\ UNCHANGED <<clock, kickoff, calledOff, quotes, fetch, shifted, signal, champion, moves, own>>

\* The fixture upsert overwrites kickoff and status of a match not yet played.
Reschedule(m, k) ==
  /\ moves < MaxMoves
  /\ result[m] = None /\ k > clock /\ k # kickoff[m]
  /\ kickoff' = [kickoff EXCEPT ![m] = k]
  /\ calledOff' = calledOff \ {m}
  /\ shifted' = shifted \cup {m}
  /\ moves' = moves + 1
  /\ stable' = FALSE
  /\ UNCHANGED <<clock, quotes, fetch, signal, champion, result, seen, own>>

CallOff(m) ==
  /\ moves < MaxMoves
  /\ result[m] = None /\ m \notin calledOff
  /\ calledOff' = calledOff \cup {m}
  /\ moves' = moves + 1
  /\ stable' = FALSE
  /\ UNCHANGED <<clock, kickoff, quotes, fetch, shifted, signal, champion, result, seen, own>>

Feeds ==
  \/ StartFetch
  \/ \E shown \in [Targets -> [Match -> Book \cup {None}]] : StoreOdds(shown)
  \/ PredictUpcoming
  \/ \E t \in Targets, v \in Version : Promote(t, v)
  \/ \E m \in Match, r \in Rows : PublishResult(m, r)
  \/ \E m \in Match, k \in Kickoffs : Reschedule(m, k)
  \/ \E m \in Match : CallOff(m)

-----------------------------------------------------------------------------
(* ledger_update: settle_bets, then place_bets, then the commit.           *)

\* Mutants of Due: an unconfirmed result settles; the pending filter is lost;
\* only HKJC's results settle.
DueUnconfirmed == {s \in Open(book) : result[s.match] # None}
DueAgain == {s \in Placed(book) : result[s.match] # None /\ result[s.match].confirmed}
DueHkjcOnly == {s \in Open(book) : /\ result[s.match] # None /\ result[s.match].confirmed
                                   /\ result[s.match].source = "hkjc"}

\* Open bets with a confirmed result; a handicap bet without a line waits.
Due == {s \in Open(book) :
          /\ result[s.match] # None /\ result[s.match].confirmed
          /\ ~(s.target = "handicap" /\ book[s].line = NoLine)}

\* Mutant of SettledBet: an onupdate timestamp moves placed_at.
SettledBetRestamped(s, tie) ==
  LET paid == SettleBet(book[s], result[s.match].home, result[s.match].away, tie)
  IN  [book[s] EXCEPT !.status = paid.status, !.payout = paid.payout,
                      !.placedAt = clock, !.settledAt = clock,
                      !.source = result[s.match].source]

SettledBet(s, tie) ==
  LET r    == result[s.match]
      paid == SettleBet([target |-> s.target, outcome |-> s.outcome,
                         line |-> book[s].line, odds |-> book[s].odds,
                         stake |-> book[s].stake], r.home, r.away, tie)
  IN  [book[s] EXCEPT !.status = paid.status, !.payout = paid.payout,
                      !.settledAt = clock, !.source = r.source]

\* The first statement: pending bets joined with confirmed results.  It also
\* fixes now() of the transaction, the placed_at of every bet of this run.
\* (No line place_bets stakes makes half-cents, so tie decides nothing here.)
SettleRead(p) ==
  /\ tx[p].pc = "idle"
  /\ \E tie \in BOOLEAN :
       tx' = [tx EXCEPT ![p] = [NoRun EXCEPT
                !.pc = "settle", !.started = clock,
                !.settled = [s \in Selection |->
                               IF s \in Due THEN SettledBet(s, tie) ELSE None]]]
  /\ stable' = TRUE
  /\ UNCHANGED <<clock, fed, book, crashes>>

\* Rows a run has updated stay locked until it ends.
Locked(q) == IF tx[q].pc \in {"idle", "settle"} THEN {}
             ELSE Placed(tx[q].settled)

\* The UPDATEs, which wait for another run's locks, then the first half of
\* _bankroll_now: the sum of settled profit.
SumRealized(p) ==
  /\ tx[p].pc = "settle"
  /\ \A q \in Proc \ {p} : Locked(q) \cap Placed(tx[p].settled) = {}
  /\ Realized(View(p)) \in -BankBound .. BankBound
  /\ tx' = [tx EXCEPT ![p].pc = "realized", ![p].realized = Realized(View(p))]
  /\ UNCHANGED <<clock, fed, book, crashes, stable>>

\* Mutant of SumOpen: the settlements of the run are not flushed yet.
SumOpenUnflushed(p) ==
  LET bank == InitialBankroll + tx[p].realized - OpenStakes(book)
  IN  /\ tx[p].pc = "realized" /\ bank \in -BankBound .. BankBound
      /\ tx' = [tx EXCEPT ![p].pc = "place", ![p].bank = bank]
      /\ UNCHANGED <<clock, fed, book, crashes, stable>>

\* The second statement of _bankroll_now: the open stakes.
SumOpen(p) ==
  LET bank == InitialBankroll + tx[p].realized - OpenStakes(View(p))
  IN  /\ tx[p].pc = "realized"
      /\ bank \in -BankBound .. BankBound
      /\ tx' = [tx EXCEPT ![p].pc = "place", ![p].bank = bank]
      /\ UNCHANGED <<clock, fed, book, crashes, stable>>

\* Mutant of Offer: the line is read at the execution cutoff, like the 1x2 price.
OfferAtClose(s, sig) ==
  LET close == Close(s.target, s.match)
  IN  IF close = None THEN None
      ELSE IF s.target = "handicap" THEN [line |-> close.line, odds |-> sig.odds]
      ELSE [line |-> NoLine, odds |-> close.odds[s.outcome]]

\* The price a bet would be recorded at: 1x2 the latest quote before kickoff,
\* handicap the odds of the signal on the main line of the prior.
Offer(s, sig) ==
  IF s.target = "handicap"
  THEN LET prior == Prior(s.target, s.match)
       IN  IF prior = None \/ ~IsWholeOrHalf(prior.line) THEN None
           ELSE [line |-> prior.line, odds |-> sig.odds]
  ELSE LET close == Close(s.target, s.match)
       IN  IF close = None THEN None
           ELSE [line |-> NoLine, odds |-> close.odds[s.outcome]]

\* The current champion's signals on matches that have not kicked off.
Candidates ==
  {s \in Selection : /\ kickoff[s.match] > clock
                     /\ champion[s.target] # None
                     /\ signal[champion[s.target]][s] # None}

\* The bet place_bets writes for a candidate, or None when it is skipped.
Slip(s, bank, now) ==
  LET sig   == signal[champion[s.target]][s]
      offer == Offer(s, sig)
  IN  IF offer = None \/ ~WorthPlacing(bank, sig.prob, offer.odds) THEN None
      ELSE [target |-> s.target, outcome |-> s.outcome,
            version |-> champion[s.target], line |-> offer.line,
            odds |-> offer.odds, stake |-> SizeStake(bank, sig.prob, offer.odds),
            bank |-> bank, placedAt |-> now, status |-> "pending", payout |-> 0,
            settledAt |-> None, source |-> None]

Slips(bets, bank, now) ==
  [s \in Selection |-> IF s \in Candidates /\ bets[s] = None
                       THEN Slip(s, bank, now) ELSE None]

\* Candidates, existing bets and prices are read; every slip is sized from
\* the one bankroll of the batch.
PlaceRead(p) ==
  /\ tx[p].pc = "place"
  /\ tx' = [tx EXCEPT ![p].pc = "insert",
                      ![p].placed = Slips(View(p), tx[p].bank, tx[p].started)]
  /\ UNCHANGED <<clock, fed, book, crashes, stable>>

\* Selections another run committed a bet on since p looked.
Conflicts(p) == Placed(tx[p].placed) \cap Placed(book)

\* Mutant of Commit: the new bets are not part of the session.
CommitSettled(p) ==
  /\ tx[p].pc = "insert" /\ Conflicts(p) = {}
  /\ book' = [s \in Selection |-> IF tx[p].settled[s] # None THEN tx[p].settled[s] ELSE book[s]]
  /\ tx' = [tx EXCEPT ![p] = NoRun]
  /\ UNCHANGED <<clock, fed, crashes, stable>>

\* The INSERTs and the commit.
Commit(p) ==
  /\ tx[p].pc = "insert" /\ Conflicts(p) = {}
  /\ book' = View(p)
  /\ tx' = [tx EXCEPT ![p] = NoRun]
  /\ UNCHANGED <<clock, fed, crashes, stable>>

\* uq_ledger_bets_natural rejects an INSERT: the whole run is rolled back,
\* settlements included, and recorded as failed.
IntegrityError(p) ==
  /\ tx[p].pc = "insert" /\ Conflicts(p) # {}
  /\ tx' = [tx EXCEPT ![p] = NoRun]
  /\ stable' = FALSE
  /\ UNCHANGED <<clock, fed, book, crashes>>

\* The process dies, or the database fails, anywhere inside a run.
Crash(p) ==
  /\ tx[p].pc # "idle" /\ crashes < MaxCrashes
  /\ tx' = [tx EXCEPT ![p] = NoRun]
  /\ crashes' = crashes + 1
  /\ stable' = FALSE
  /\ UNCHANGED <<clock, fed, book>>

-----------------------------------------------------------------------------
(* The reports read from the table.                                        *)

\* The point equity_curve draws for the settlements at time t: profit settled
\* by then, less the stakes placed by then and not settled by then.
EquityPoint(bets, t) ==
  InitialBankroll
    + Realized([s \in Selection |->
                  IF s \in Settled(bets) /\ bets[s].settledAt <= t THEN bets[s] ELSE None])
    - SumFunction([s \in {x \in Placed(bets) :
                            /\ bets[x].placedAt <= t
                            /\ bets[x].settledAt = None \/ bets[x].settledAt > t}
                   |-> 10 * bets[s].stake])

-----------------------------------------------------------------------------
LedgerUpdate(p) ==
  \/ SettleRead(p) \/ SumRealized(p) \/ SumOpen(p) \/ PlaceRead(p)
  \/ Commit(p) \/ IntegrityError(p)

Next == Tick \/ Feeds \/ \E p \in Proc : LedgerUpdate(p) \/ Crash(p)

Spec == Init /\ [][Next]_vars

\* The scheduler keeps starting the job, and a started run keeps executing.
FairSpec == Spec /\ \A p \in Proc : WF_vars(LedgerUpdate(p))
=============================================================================

---------------------------- MODULE LedgerProps ----------------------------
(* What the paper ledger promises, stated of Ledger.                       *)
EXTENDS Ledger

\* The status, payout and source of b are those of one of these results.
PaidByTheRules(results, s, b) ==
  \E r \in results, tie \in BOOLEAN :
    LET paid == SettleBet([target |-> s.target, outcome |-> s.outcome, line |-> b.line,
                           odds |-> b.odds, stake |-> b.stake], r.home, r.away, tie)
    IN  b.status = paid.status /\ b.payout = paid.payout /\ b.source = r.source

\* A settled bet carries the status and payout that the betting rules give it
\* on a confirmed result the match really had, and names that result's source:
\* an unconfirmed score never pays, and a bet is never paid on a mixture of a
\* result and its correction.
SettledByConfirmedResult == \A s \in Settled(book) : PaidByTheRules(seen[s.match], s, book[s])

WithinLimits(b) == b.stake >= MinStake /\ b.stake <= Cap(b.bank)

\* Every bet on the book was worth placing and fits under the cap, both taken
\* of the bankroll recorded with it: no stake is below the minimum, raised to
\* it, or above ledger_max_stake_fraction of its batch's bankroll.
StakeWithinLimits == \A s \in Placed(book) : WithinLimits(book[s])

\* What was agreed when a bet was placed: never rewritten afterwards.
Terms(b) == [target |-> b.target, outcome |-> b.outcome, version |-> b.version,
             line |-> b.line, odds |-> b.odds, stake |-> b.stake,
             bank |-> b.bank, placedAt |-> b.placedAt]

\* A selection is bet on once, forever: no later run, of any process, of any
\* champion, replaces or removes the bet or rewrites its terms.
OneBetForever ==
  [][\A s \in Placed(book) : /\ book'[s] # None
                             /\ Terms(book'[s]) = Terms(book[s])]_vars

\* settle_bets: "settled bets are never touched again", whatever corrected result
\* arrives later.  A settled bet that no run at work has read as pending is never taken
\* up again, nor written.  (A run that read it while it was pending, before another
\* process settled it, settles it a second time.)
HeldByNone(s) == \A p \in Proc : tx[p].settled[s] = None
SettledNeverTouched ==
  [][\A s \in Settled(book) : HeldByNone(s) => book'[s] = book[s] /\ HeldByNone(s)']_vars

\* The bankroll a batch is sized from is the bankroll of the table that batch
\* is added to, although its two sums are separate statements and the table
\* is read again after them.
BatchSizedFromTheTable ==
  \A p \in Proc :
    tx[p].pc \in {"place", "insert"} =>
      tx[p].bank = Bankroll([s \in Selection |->
                      IF tx[p].settled[s] # None THEN tx[p].settled[s] ELSE book[s]])

\* The cash left when every stake is paid on placement and every payout is
\* received on settlement.
Purse ==
  InitialBankroll - SumFunction([s \in Placed(book) |-> 10 * book[s].stake])
                  + SumFunction([s \in Settled(book) |-> book[s].payout])

\* While a batch has no more candidates than the cap fraction allows for, the
\* ledger never stakes money it does not have, across batches, settlements
\* and whatever order results arrive in.
Solvent == Purse >= 0

\* "Both passes are idempotent": with no input changed since it began, a run
\* that ended leaves nothing for the next one, which sizes from a bankroll
\* the first one changed.  Stated for a single ledger process.
IdempotentWhenQuiet ==
  (stable /\ \A p \in Proc : tx[p].pc = "idle") =>
    /\ Due = {}
    /\ Placed(Slips(book, Bankroll(book), clock)) = {}

\* A handicap bet's line and odds come from one quote: they are a price HKJC
\* offered.  The odds are the signal's and the line is read again at placement.
\* (Excepted is a match whose prior may have changed in between: its kickoff moved,
\* or a capture stamped before the prior's cutoff, or in a bucket the cutoff splits,
\* was stored after it.)
HandicapTermsFromOneQuote ==
  \A s \in Placed(book) :
    (s.target = "handicap" /\ s.match \notin shifted) =>
      \E i \in Time : LET b == quotes["handicap"][s.match][i]
                      IN  /\ b # None
                          /\ b.line = book[s].line /\ b.odds[s.outcome] = book[s].odds

\* What a batch is placed on is real: the bankroll is the table's, and a handicap
\* bet's line and odds were quoted together.  Stated for a single process.
BatchTermsAreReal == BatchSizedFromTheTable /\ HandicapTermsFromOneQuote

\* A step keeps the points of the settlements that no run at work is older than.
PastPointsKept ==
  book' # book =>
    \A s \in Settled(book) :
      (\A p \in Proc : tx[p].pc # "idle" => tx[p].started > book[s].settledAt) =>
        EquityPoint(book', book[s].settledAt) = EquityPoint(book, book[s].settledAt)

\* equity_curve: the point of a past settlement is final.  No later run, started
\* after it, changes what the chart showed: settlements carry the time they were
\* made at and bets the time they were placed at.  Stated for a single process.
EquityCurveIsFinal == [][PastPointsKept]_vars

\* The ledger implements the betting book: one slip per selection, and the
\* bankroll derived from the table is the purse of a cash account.
AbstractSlip(s) ==
  IF book[s] = None THEN [state |-> "blank", stake |-> 0, payout |-> 0]
  ELSE [state |-> IF book[s].status = "pending" THEN "open" ELSE "closed",
        stake |-> 10 * book[s].stake, payout |-> book[s].payout]

BB == INSTANCE BettingBook WITH slip <- [s \in Selection |-> AbstractSlip(s)],
                                purse <- Bankroll(book)
ImplementsBettingBook == BB!Spec

-----------------------------------------------------------------------------
(* The inductive invariant.  What a run has written but not committed obeys *)
(* the same rules as the table it will be written to, and an update only   *)
(* ever settles a bet that exists, on the terms it was placed at.          *)

SeenInv == \A m \in Match :
             (result[m] # None /\ result[m].confirmed) => result[m] \in seen[m]

UpdateInv(p) ==
  \A s \in Placed(tx[p].settled) :
    /\ tx[p].pc # "idle"
    /\ book[s] # None /\ Terms(tx[p].settled[s]) = Terms(book[s])
    /\ tx[p].settled[s].status # "pending"
    /\ PaidByTheRules(seen[s.match], s, tx[p].settled[s])

InsertInv(p) ==
  \A s \in Placed(tx[p].placed) :
    /\ tx[p].pc = "insert"
    /\ tx[p].settled[s] = None
    /\ tx[p].placed[s].status = "pending" /\ WithinLimits(tx[p].placed[s])

LedgerInv == /\ TypeOK /\ SeenInv
             /\ StakeWithinLimits /\ SettledByConfirmedResult
             /\ \A p \in Proc : UpdateInv(p) /\ InsertInv(p)

\* With a single ledger process nothing changes the table under a run.
SingleWriterInv ==
  \A p \in Proc : /\ \A s \in Placed(tx[p].settled) : s \in Open(book)
                  /\ Conflicts(p) = {}

-----------------------------------------------------------------------------
\* A bet whose match has a confirmed result is settled, through crashed and
\* failed runs, as long as the scheduler keeps starting the job, unless the
\* result loses its confirmation before a run reads it.
ConfirmedBetsSettle ==
  \A s \in Selection :
    LET Confirmed == result[s.match] # None /\ result[s.match].confirmed
    IN  (s \in Open(book) /\ Confirmed) ~> (s \in Settled(book) \/ ~Confirmed)

\* A lost race loses no bet: a value prediction that is worth placing at the bankroll
\* of the table is placed in the end, through runs that crash or are rolled back by
\* uq_ledger_bets_natural, unless it stops being one first.
WorthPlacingNow(s) == s \in Candidates /\ Slip(s, Bankroll(book), clock) # None
ValueBetsArePlaced ==
  \A s \in Selection :
    (book[s] = None /\ WorthPlacingNow(s)) ~> (book[s] # None \/ ~WorthPlacingNow(s))
=============================================================================

------------------------------ MODULE Fixtures ------------------------------
(***************************************************************************)
(* How matches and teams come into the database: the fixture part of the   *)
(* odds sync (app/services/fixtures.py), which knows a match by HKJC's id, *)
(* and the backfill of football-data's history (app/cli.py), which knows   *)
(* it by season, teams and kickoff.  Each is one transaction.              *)
(*                                                                         *)
(* Time is counted in slots, Slots to a day.  One whitelisted league and   *)
(* one season: a league only filters, and the season follows from the      *)
(* kickoff.  A team row is known by the name it was inserted with and the  *)
(* writer that inserted it, a match row by HKJC's id, or by its natural    *)
(* key when it has none.                                                   *)
(***************************************************************************)
EXTENDS Integers, FiniteSets

CONSTANTS Match,        \* the matches played
          Home, Away,   \* their clubs
          Slots,        \* slots to a day, of UTC
          Zone,         \* how many slots Hong Kong is ahead of UTC
          Days, Ahead,  \* the last day; how many days ahead the sync asks for
          Kickoffs,     \* the kickoffs a match may have
          MaxMoves, MaxFailures, MaxBackfills,   \* bounds on the events of their names
          SeasonRow,    \* the season's row
          None

Club  == {Home[m] : m \in Match} \cup {Away[m] : m \in Match}
Time  == 0 .. Slots * (Days + 1) - 1
Day(t) == t \div Slots

\* matchDate, as HKJC lists a match: the date of its kickoff in Hong Kong.
MatchDate(t) == (t + Zone) \div Slots

Writer == {"sync", "backfill"}

\* A club is what TeamMatcher takes for one: its key, the alias map and the
\* fuzzy ratio tell which names are of the same club.
TeamId  == [club : Club, by : Writer]
TeamRow == [id : TeamId, hkjc : Club \cup {None}]
MatchRow == [hkjc : Match \cup {None}, home : TeamId, away : TeamId, kickoff : Kickoffs]

ASSUME FixturesAssumption ==
  /\ Home \in [Match -> Club] /\ Away \in [Match -> Club]
  /\ \A m \in Match : Home[m] # Away[m]
  /\ \A m, n \in Match : Home[m] = Home[n] /\ Away[m] = Away[n] => m = n
  /\ Slots \in Nat \ {0} /\ Zone \in Nat /\ Days \in Nat /\ Ahead \in Nat
  /\ Kickoffs \subseteq Time
  /\ MaxMoves \in Nat /\ MaxFailures \in Nat /\ MaxBackfills \in Nat
  /\ None \notin Club /\ None \notin Match /\ None \notin Time /\ None \notin MatchRow /\ None # SeasonRow

VARIABLES now,
          kickoff,    \* HKJC's kickoff of each match
          shown,      \* football-data's kickoff of a match that was played, or None
          teams, matches,   \* the tables, as committed
          season,     \* the season's row is there
          tx,         \* the transaction of each writer
          raced,      \* both writers have had a transaction open at one time
          moves, failures, backfills

vars == <<now, kickoff, shown, teams, matches, season, tx, raced,
          moves, failures, backfills>>

\* todo: what is left of the list; season: it inserted the season's row; blocked:
\* the match row, or the season's, whose write waits for the other transaction.
NoTx == [open |-> FALSE, todo |-> {}, teams |-> {}, matches |-> {}, season |-> FALSE,
         blocked |-> None]

Item == [match : Match, kickoff : Kickoffs]
Transaction == [open : BOOLEAN, todo : SUBSET Item, teams : SUBSET TeamRow,
                matches : SUBSET MatchRow, season : BOOLEAN,
                blocked : MatchRow \cup {None, SeasonRow}]

TypeOK ==
  /\ now \in Time /\ kickoff \in [Match -> Kickoffs] /\ shown \in [Match -> Kickoffs \cup {None}]
  /\ teams \subseteq TeamRow /\ matches \subseteq MatchRow /\ season \in BOOLEAN
  /\ tx \in [Writer -> Transaction]
  /\ raced \in BOOLEAN
  /\ moves \in 0 .. MaxMoves /\ failures \in 0 .. MaxFailures /\ backfills \in 0 .. MaxBackfills

\* The system is started at some time of the first day.
Init ==
  /\ now \in 0 .. Slots - 1 /\ kickoff \in [Match -> Kickoffs] /\ shown = [m \in Match |-> None]
  /\ teams = {} /\ matches = {} /\ season = FALSE
  /\ tx = [w \in Writer |-> NoTx] /\ raced = FALSE
  /\ moves = 0 /\ failures = 0 /\ backfills = 0

-----------------------------------------------------------------------------
(* The world.                                                              *)

Today == Day(now)

\* A sync, from its list to its end, stays within a slot.
Tick ==
  /\ now + 1 \in Time
  /\ ~tx["sync"].open
  /\ now' = now + 1
  /\ UNCHANGED <<kickoff, shown, teams, matches, season, tx, raced, moves, failures, backfills>>

\* HKJC changes a kickoff: on its day, or to a later one.
Move(m, k) ==
  /\ shown[m] = None /\ k # kickoff[m] /\ moves < MaxMoves
  /\ now <= k /\ Day(kickoff[m]) <= Day(k)
  /\ kickoff' = [kickoff EXCEPT ![m] = k]
  /\ moves' = moves + 1
  /\ UNCHANGED <<now, shown, teams, matches, season, tx, raced, failures, backfills>>

\* football-data has the match, with the kickoff it knows.
Show(m, k) ==
  /\ shown[m] = None /\ kickoff[m] <= now /\ Day(k) = Day(kickoff[m])
  /\ shown' = [shown EXCEPT ![m] = k]
  /\ UNCHANGED <<now, kickoff, teams, matches, season, tx, raced, moves, failures, backfills>>

-----------------------------------------------------------------------------
(* What a transaction sees and writes.                                     *)

Other(w) == IF w = "sync" THEN "backfill" ELSE "sync"
Becomes(w, next) == tx' = [tx EXCEPT ![w] = next]
SeesTeams(w) == tx[w].teams \cup {t \in teams : \A u \in tx[w].teams : u.id # t.id}
SameRow(r, s) == r.hkjc = s.hkjc /\ (r.hkjc = None => r = s)
SeesMatches(w) ==
  tx[w].matches \cup {r \in matches : \A s \in tx[w].matches : ~SameRow(r, s)}

\* uq_matches_natural
SameKey(r, s) == <<r.home, r.away, r.kickoff>> = <<s.home, s.away, s.kickoff>>
Clashes(set, row) == \E r \in set : SameKey(r, row) /\ ~SameRow(r, row)

\* Mutant of NameMatches: the sync looks at teams of its own only.
NameMatchesOwn(w, club) == {t \in SeesTeams(w) : t.id.club = club /\ t.id.by = w}

\* TeamMatcher.match: any of the rows of the name; there should be one.
NameMatches(w, club) == {t \in SeesTeams(w) : t.id.club = club}

\* A row matched by its name is given HKJC's id for it, once.
Adopt(t, club) == IF t.hkjc = None THEN [t EXCEPT !.hkjc = club] ELSE t

\* Mutant of ById: the lookup by id is left out.
ByIdNever(w, club) == {}

ById(w, club) == {t \in SeesTeams(w) : t.hkjc = club}

\* _resolve_team: by HKJC's id, by name, or a new row.  The backfill knows no ids.
TeamOf(w, club) ==
  LET known == IF w = "sync" THEN ById(w, club) ELSE {}
      named == NameMatches(w, club)
      id    == [club |-> club, by |-> w]
  IN  IF known # {} THEN known
      ELSE IF named # {} THEN IF w = "sync" THEN {Adopt(t, club) : t \in named} ELSE named
      ELSE {[id |-> id, hkjc |-> IF w = "sync" THEN club ELSE None]}

-----------------------------------------------------------------------------
(* The sync.                                                               *)

\* Mutant of Fetched: the window begins the day before.
FetchedSinceYesterday == {m \in Match : MatchDate(kickoff[m]) \in Today - 1 .. Today + Ahead}

\* fetch_fixtures keeps what HKJC lists for today, by UTC, and the days ahead: a match of
\* this evening is listed for tomorrow.
Fetched == {m \in Match : MatchDate(kickoff[m]) \in Today .. Today + Ahead}

\* (Who waits for a transaction goes on before the next one begins.)
Begin(w, list) ==
  /\ ~tx[w].open /\ tx[Other(w)].blocked = None
  /\ Becomes(w, [NoTx EXCEPT !.open = TRUE, !.todo = list])
  /\ raced' = (raced \/ tx[Other(w)].open)

BeginSync ==
  /\ Begin("sync", {[match |-> m, kickoff |-> kickoff[m]] : m \in Fetched})
  /\ UNCHANGED <<now, kickoff, shown, teams, matches, season, moves, failures, backfills>>

\* HKJC does not answer, or the process stops.
SyncFails ==
  /\ tx["sync"].open /\ failures < MaxFailures
  /\ failures' = failures + 1
  /\ Becomes("sync", NoTx)
  /\ UNCHANGED <<now, kickoff, shown, teams, matches, season, raced, moves, backfills>>

\* The row _upsert_match inserts or updates, and the one _upsert_history
\* inserts when there is none of its natural key.
RowOf(w, item, home, away) ==
  [hkjc |-> IF w = "sync" THEN item.match ELSE None,
   home |-> home.id, away |-> away.id, kickoff |-> item.kickoff]

Writes(w, row) ==
  IF w = "sync" THEN row \notin SeesMatches(w)
  ELSE \A r \in SeesMatches(w) : ~SameKey(r, row)

Pending(w, row) == Clashes(tx[Other(w)].matches, row)
Fails(w) == Becomes(w, NoTx)
Put(set, row) == {r \in set : ~SameRow(r, row)} \cup {row}

\* Whether the season's row is there for this transaction, and for nobody else.
SeasonSeen(w) == season \/ tx[w].season
SeasonPending(w) == ~SeasonSeen(w) /\ tx[Other(w)].season

\* With its teams at hand, the match: the row is inserted, updated or left.
Records(w, item, home, away) ==
  LET row   == RowOf(w, item, home, away)
      after == [tx[w] EXCEPT
                  !.todo = @ \ {item}, !.season = @ \/ ~season,
                  !.teams = {t \in @ : t.id \notin {home.id, away.id}} \cup ({home, away} \ teams)]
  IN  IF ~Writes(w, row) THEN Becomes(w, after)
      ELSE /\ ~Clashes(SeesMatches(w), row)
           /\ Becomes(w, IF Pending(w, row) THEN [after EXCEPT !.blocked = row]
                         ELSE [after EXCEPT !.matches = Put(@, row)])

\* One fixture or record: season, teams, match.  A write the other transaction
\* is in the way of waits for its end.
Upsert(w, item) ==
  /\ tx[w].open /\ tx[w].blocked = None
  /\ IF SeasonPending(w) THEN Becomes(w, [tx[w] EXCEPT !.blocked = SeasonRow])
     ELSE \E home \in TeamOf(w, Home[item.match]), away \in TeamOf(w, Away[item.match]) :
            Records(w, item, home, away)
  /\ UNCHANGED <<now, kickoff, shown, teams, matches, season, raced,
                 moves, failures, backfills>>

\* The natural key is another row's already: the sync fails as a whole, and
\* fails again until the fixture is out of the window.
Collides(item) ==
  LET w == "sync"
  IN  /\ tx[w].open /\ tx[w].blocked = None /\ ~SeasonPending(w)
      /\ \E home \in TeamOf(w, Home[item.match]), away \in TeamOf(w, Away[item.match]) :
           Clashes(SeesMatches(w), RowOf(w, item, home, away))
      /\ Fails(w)
      /\ UNCHANGED <<now, kickoff, shown, teams, matches, season, raced,
                     moves, failures, backfills>>

\* The other transaction is over: the write goes through, or meets its row.
Wakes(w) ==
  LET row == tx[w].blocked
  IN  /\ row # None /\ ~tx[Other(w)].open
      /\ IF row = SeasonRow
         THEN IF season THEN Fails(w)
              ELSE Becomes(w, [tx[w] EXCEPT !.blocked = None, !.season = TRUE])
         ELSE IF Clashes(SeesMatches(w), row) THEN Fails(w)
              ELSE Becomes(w, [tx[w] EXCEPT !.blocked = None, !.matches = Put(@, row)])
      /\ UNCHANGED <<now, kickoff, shown, teams, matches, season, raced,
                     moves, failures, backfills>>

\* Each waits for the other: the database ends one of them.
Deadlock(w) ==
  /\ \A v \in Writer : tx[v].blocked # None
  /\ Fails(w)
  /\ UNCHANGED <<now, kickoff, shown, teams, matches, season, raced,
                 moves, failures, backfills>>

Commit(w) ==
  /\ tx[w].open /\ tx[w].todo = {} /\ tx[w].blocked = None
  /\ teams' = SeesTeams(w) /\ matches' = SeesMatches(w)
  /\ season' = SeasonSeen(w)
  /\ Becomes(w, NoTx)
  /\ UNCHANGED <<now, kickoff, shown, raced, moves, failures, backfills>>

\* The command `backfill`, for the season's file as it is.
BeginBackfill ==
  /\ backfills < MaxBackfills
  /\ backfills' = backfills + 1
  /\ Begin("backfill", {[match |-> m, kickoff |-> shown[m]] :
                          m \in {n \in Match : shown[n] # None}})
  /\ UNCHANGED <<now, kickoff, shown, teams, matches, season, moves, failures>>

Step(w) ==
  \/ Wakes(w) \/ Deadlock(w) \/ Commit(w)
  \/ \E item \in tx[w].todo : Upsert(w, item) \/ (w = "sync" /\ Collides(item))

Next ==
  \/ Tick \/ BeginSync \/ SyncFails \/ BeginBackfill
  \/ \E w \in Writer : Step(w)
  \/ \E m \in Match, k \in Kickoffs : Move(m, k) \/ Show(m, k)

Spec == Init /\ [][Next]_vars

-----------------------------------------------------------------------------
(* What holds of the tables and of the writers.                            *)

\* A club has one row, whoever saw it first, unless both writers were at work
\* at one time; HKJC's id is on one row at most.
OneRow(set) ==
  \A t, u \in set :
    \/ t = u
    \/ /\ t.id.club = u.id.club => raced
       /\ t.hkjc # None => t.hkjc # u.hkjc
OneRowPerTeam == OneRow(teams)

\* A match row is of the two clubs HKJC's id stands for.
RowsAreTheirMatch ==
  \A r \in matches : r.hkjc # None =>
    r.home.club = Home[r.hkjc] /\ r.away.club = Away[r.hkjc]

\* Team rows of their id: HKJC's id, if any, is of the row's club, and the sync makes no
\* row without.
IdsAreKeys(set) == \A t, u \in set : t.id = u.id => t = u
TeamsAreSound ==
  /\ IdsAreKeys(teams)
  /\ \A t \in teams : t.hkjc \in {t.id.club, None} /\ (t.id.by = "sync" => t.hkjc # None)

\* A match row of HKJC's hangs on the team rows with HKJC's ids; one of the backfill on
\* rows of the clubs of a match as football-data shows it.
Rooted(r, set) ==
  IF r.hkjc # None
  THEN /\ \E t \in set : t.id = r.home /\ t.hkjc = Home[r.hkjc]
       /\ \E t \in set : t.id = r.away /\ t.hkjc = Away[r.hkjc]
  ELSE \E m \in Match : /\ shown[m] = r.kickoff
                        /\ r.home.club = Home[m] /\ r.away.club = Away[m]
RowsAreDistinct(set) == \A r, s \in set : SameRow(r, s) => r = s
MatchesAreSound == RowsAreDistinct(matches) /\ \A r \in matches : Rooted(r, teams)

\* What a writer has written and nobody else has: the sync gives rows HKJC's id, new ones
\* and committed ones of the backfill's; the backfill makes rows without.
Written(w, t) ==
  IF w = "sync"
  THEN /\ t.hkjc = t.id.club
       /\ t.id.by = "sync" => \A u \in teams : u.id # t.id
       /\ t.id.by = "backfill" => \E u \in teams : u.id = t.id /\ u.hkjc = None
  ELSE t.hkjc = None /\ t.id.by = "backfill" /\ \A u \in teams : u.id # t.id
TeamsWritten(w) ==
  /\ IdsAreKeys(tx[w].teams) /\ OneRow(SeesTeams(w))
  /\ \A t \in tx[w].teams : Written(w, t)
MatchesWritten(w) ==
  /\ RowsAreDistinct(tx[w].matches)
  /\ \A r \in tx[w].matches \cup ({tx[w].blocked} \ {None, SeasonRow}) :
       Rooted(r, SeesTeams(w)) /\ (r.hkjc # None <=> w = "sync")

\* The list of the sync is not of the past, and the backfill's is what is shown.
ListHolds(w) ==
  \A item \in tx[w].todo :
    IF w = "sync" THEN Today <= MatchDate(item.kickoff) ELSE shown[item.match] = item.kickoff

TransactionsHold ==
  /\ \A w \in Writer : /\ TeamsWritten(w) /\ MatchesWritten(w) /\ ListHolds(w)
                       /\ ~tx[w].open => tx[w] = NoTx
  /\ tx["sync"].open /\ tx["backfill"].open => raced
  /\ \A m \in Match : shown[m] # None => Day(shown[m]) <= Today

\* What every state of the tables satisfies.
FixturesInv ==
  /\ TypeOK /\ OneRowPerTeam /\ RowsAreTheirMatch /\ TeamsAreSound /\ MatchesAreSound
  /\ TransactionsHold

-----------------------------------------------------------------------------
(* Properties.                                                             *)

\* The features of a match, its history with them, hang on its team rows: no
\* later sync gives a match other teams, not even when a race of the writers has
\* left a club with two rows.
TeamsStay ==
  [][\A r \in matches, s \in matches' :
       (r.hkjc # None /\ SameRow(r, s)) => s.home = r.home /\ s.away = r.away]_vars

\* A fixture that collides with a row of the backfill fails every sync it is
\* in, and the fixtures and odds of all other matches with it.  It is one that
\* was played, and it does so for a day and the hours Hong Kong is ahead: a match of
\* an evening (UTC) until the end of the next day, any other until the end of its own.
CollisionsEndNextDay ==
  [][\A item \in tx["sync"].todo : Collides(item) =>
       /\ shown[item.match] # None /\ Day(item.kickoff) <= Today
       /\ now < item.kickoff + Slots + Zone]_vars
=============================================================================

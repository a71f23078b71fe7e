---------------------------- MODULE FixturesProofs ----------------------------
(***************************************************************************)
(* A match keeps its teams: for any fixture list, any kickoffs that move   *)
(* and any interleaving of the sync with the backfill, the rows one        *)
(* transaction finds by HKJC's id are the rows every other one found.      *)
(***************************************************************************)
EXTENDS Fixtures, TLAPS

\* Rows, as records.
LEMMA TeamRowIs ==
  ASSUME NEW t \in TeamRow
  PROVE  /\ t.id \in TeamId /\ t.hkjc \in Club \cup {None}
         /\ t.id.club \in Club /\ t.id.by \in Writer /\ None \notin Club
         /\ t.id = [club |-> t.id.club, by |-> t.id.by]
<1>1. t.id \in TeamId /\ t.hkjc \in Club \cup {None}
  BY DEF TeamRow
<1> QED BY <1>1, FixturesAssumption DEF TeamId

\* What the transactions are.
LEMMA TransactionIs ==
  ASSUME TypeOK, NEW w \in Writer
  PROVE  /\ tx[w] \in Transaction
         /\ tx[w].open \in BOOLEAN /\ tx[w].todo \in SUBSET Item
         /\ tx[w].teams \in SUBSET TeamRow /\ tx[w].matches \in SUBSET MatchRow
         /\ tx[w].season \in BOOLEAN /\ tx[w].blocked \in MatchRow \cup {None, SeasonRow}
<1>1. tx[w] \in Transaction
  BY DEF TypeOK
<1> QED BY <1>1 DEF Transaction

\* One writer's transaction becomes another; the other writer's stays.
LEMMA OneBecomes ==
  ASSUME TypeOK, NEW w \in Writer, NEW next \in Transaction, Becomes(w, next)
  PROVE  /\ tx' \in [Writer -> Transaction] /\ tx'[w] = next
         /\ \A v \in Writer : v # w => tx'[v] = tx[v]
BY DEF TypeOK, Becomes

\* No transaction, as a transaction.
LEMMA NoTxIs ==
  /\ NoTx \in Transaction
  /\ NoTx.open = FALSE /\ NoTx.todo = {} /\ NoTx.teams = {} /\ NoTx.matches = {}
  /\ NoTx.season = FALSE /\ NoTx.blocked = None
BY DEF NoTx, Transaction

\* The clubs of a match.
LEMMA ClubsOf ==
  ASSUME NEW m \in Match
  PROVE  Home[m] \in Club /\ Away[m] \in Club /\ Home[m] # Away[m]
BY FixturesAssumption DEF Club

-----------------------------------------------------------------------------
(* What a writer sees.                                                     *)

\* Rows seen are rows.
LEMMA SeenRows ==
  ASSUME TypeOK, NEW w \in Writer
  PROVE  SeesTeams(w) \subseteq TeamRow /\ SeesMatches(w) \subseteq MatchRow
<1>1. tx[w].teams \in SUBSET TeamRow /\ tx[w].matches \in SUBSET MatchRow
  BY TransactionIs
<1> QED BY <1>1 DEF SeesTeams, SeesMatches, TypeOK

\* A writer sees a row by its id once, and HKJC's id on rows of its club.
LEMMA SeenTeams ==
  ASSUME TypeOK, NEW w \in Writer, TeamsAreSound, TeamsWritten(w)
  PROVE  /\ IdsAreKeys(SeesTeams(w))
         /\ \A t \in SeesTeams(w) : /\ t.hkjc \in {t.id.club, None}
                                    /\ t.id.by = "sync" => t.hkjc # None
         /\ \A t \in teams : t.hkjc # None => t \in SeesTeams(w)
         /\ w = "backfill" => teams \subseteq SeesTeams(w)
<1>1. IdsAreKeys(SeesTeams(w))
  BY DEF IdsAreKeys, SeesTeams, TeamsAreSound, TeamsWritten
<1>2. \A t \in tx[w].teams : t \in TeamRow
  BY TransactionIs
<1>3. \A t \in SeesTeams(w) : t.hkjc \in {t.id.club, None} /\ (t.id.by = "sync" => t.hkjc # None)
  <2>1. ASSUME NEW t \in tx[w].teams
        PROVE  t.hkjc \in {t.id.club, None} /\ (t.id.by = "sync" => t.hkjc # None)
    <3>1. Written(w, t) /\ t.id.club # None
      BY <1>2, TeamRowIs DEF TeamsWritten
    <3> QED BY <3>1 DEF Written
  <2>2. \A t \in teams : t.hkjc \in {t.id.club, None} /\ (t.id.by = "sync" => t.hkjc # None)
    BY DEF TeamsAreSound
  <2> QED BY <2>1, <2>2 DEF SeesTeams
<1>4. ASSUME NEW t \in teams, t.hkjc # None \/ w = "backfill"
      PROVE  t \in SeesTeams(w)
  <2>1. SUFFICES ASSUME NEW u \in tx[w].teams, u.id = t.id PROVE FALSE
    BY DEF SeesTeams
  <2>2. Written(w, u) /\ u.id.by \in Writer
    BY <1>2, <2>1, TeamRowIs DEF TeamsWritten
  <2> QED BY <1>4, <2>1, <2>2 DEF Written, Writer, TeamsAreSound, IdsAreKeys
<1> QED BY <1>1, <1>3, <1>4

\* _resolve_team finds a row of the club, the one with HKJC's id when there is one.
LEMMA TeamOfFinds ==
  ASSUME TypeOK, NEW w \in Writer, TeamsAreSound, TeamsWritten(w),
         NEW club \in Club, NEW h \in TeamOf(w, club)
  PROVE  /\ h \in TeamRow /\ h.id.club = club /\ h.hkjc \in {club, None}
         /\ w = "sync" => h.hkjc = club
         /\ h.id.by = "sync" => h.hkjc # None
         /\ \A t \in SeesTeams(w) : t.id = h.id /\ t.hkjc # None => h = t
         /\ \A t \in SeesTeams(w) :
              t.id # h.id /\ t.id.club = club => raced /\ (t.hkjc = None \/ h.hkjc = None)
         /\ h \notin teams => Written(w, h)
<1> DEFINE Goal == /\ h \in TeamRow /\ h.id.club = club /\ h.hkjc \in {club, None}
                   /\ w = "sync" => h.hkjc = club
                   /\ h.id.by = "sync" => h.hkjc # None
                   /\ \A t \in SeesTeams(w) : t.id = h.id /\ t.hkjc # None => h = t
                   /\ \A t \in SeesTeams(w) :
                        t.id # h.id /\ t.id.club = club => raced /\ (t.hkjc = None \/ h.hkjc = None)
                   /\ h \notin teams => Written(w, h)
<1>0. /\ None \notin Club /\ SeesTeams(w) \subseteq TeamRow /\ IdsAreKeys(SeesTeams(w))
      /\ OneRow(SeesTeams(w))
      /\ \A t \in SeesTeams(w) : t.hkjc \in {t.id.club, None} /\ (t.id.by = "sync" => t.hkjc # None)
  BY SeenRows, SeenTeams, FixturesAssumption DEF TeamsWritten
<1>1. ASSUME h \in SeesTeams(w), h.id.club = club, w = "sync" => h.hkjc = club
      PROVE  Goal
  <2>1. \A t \in SeesTeams(w) : t.id = h.id => h = t
    BY <1>0, <1>1 DEF IdsAreKeys
  <2>2. \A t \in SeesTeams(w) :
          t.id # h.id /\ t.id.club = club => raced /\ (t.hkjc = None \/ h.hkjc = None)
    BY <1>0, <1>1 DEF OneRow
  <2>3. h \notin teams => Written(w, h)
    BY <1>1 DEF SeesTeams, TeamsWritten
  <2> QED BY <1>0, <1>1, <2>1, <2>2, <2>3
<1>2. ASSUME NEW t0 \in NameMatches(w, club), h = Adopt(t0, club), w = "sync",
             ById(w, club) = {}
      PROVE  Goal
  <2>1. t0 \in SeesTeams(w) /\ t0.id.club = club /\ t0 \in TeamRow
    BY <1>0 DEF NameMatches
  <2>2. \A t \in SeesTeams(w) : t.hkjc # club
    BY <1>2 DEF ById
  <2>3. t0.hkjc = None /\ t0.id.by = "backfill"
    BY <1>0, <2>1, <2>2, TeamRowIs DEF Writer
  <2>4. h \in TeamRow /\ h.id = t0.id /\ h.hkjc = club
    <3>1. h = [t0 EXCEPT !.hkjc = club]
      BY <1>2, <2>3 DEF Adopt
    <3> QED BY <2>1, <3>1 DEF TeamRow
  <2>5. \A t \in SeesTeams(w) : t.id = h.id => t = t0
    BY <1>0, <2>1, <2>4 DEF IdsAreKeys
  <2>6. \A t \in SeesTeams(w) : t.id # h.id /\ t.id.club = club => raced /\ t.hkjc = None
    BY <1>0, <2>1, <2>2, <2>4 DEF OneRow
  <2>7. Written(w, h)
    <3>1. t0 \in teams
      BY <1>0, <1>2, <2>1, <2>3 DEF SeesTeams, TeamsWritten, Written
    <3> QED BY <1>2, <2>1, <2>3, <2>4, <3>1 DEF Written
  <2> QED BY <1>0, <2>1, <2>3, <2>4, <2>5, <2>6, <2>7
<1>3. ASSUME NameMatches(w, club) = {},
             h = [id |-> [club |-> club, by |-> w], hkjc |-> IF w = "sync" THEN club ELSE None]
      PROVE  Goal
  <2>1. \A t \in SeesTeams(w) : t.id.club # club
    BY <1>3 DEF NameMatches
  <2>2. /\ h \in TeamRow /\ h.id.club = club /\ h.id.by = w
        /\ h.hkjc = IF w = "sync" THEN club ELSE None
    BY <1>3 DEF TeamRow, TeamId
  <2>3. \A u \in teams : u.id # h.id
    <3>1. SUFFICES ASSUME NEW u \in teams, u.id = h.id PROVE FALSE
      OBVIOUS
    <3>2. u.hkjc # None \/ w = "backfill"
      BY <2>2, <3>1 DEF TeamsAreSound, Writer
    <3> QED BY <2>1, <2>2, <3>1, <3>2, SeenTeams
  <2> QED BY <1>0, <2>1, <2>2, <2>3 DEF Written, Writer
<1> HIDE DEF Goal
<1>4. Goal
  <2>1. CASE w = "sync" /\ ById(w, club) # {}
    <3>1. h \in SeesTeams(w) /\ h.hkjc = club
      BY <2>1 DEF TeamOf, ById
    <3> QED BY <1>0, <1>1, <3>1
  <2>2. CASE ~(w = "sync" /\ ById(w, club) # {}) /\ NameMatches(w, club) # {}
    <3>1. CASE w = "sync"
      <4>1. PICK t0 \in NameMatches(w, club) : h = Adopt(t0, club)
        BY <2>2, <3>1 DEF TeamOf
      <4> QED BY <1>2, <2>2, <3>1, <4>1
    <3>2. CASE w # "sync"
      <4>1. h \in NameMatches(w, club)
        BY <2>2, <3>2 DEF TeamOf
      <4> QED BY <1>1, <3>2, <4>1 DEF NameMatches
    <3> QED BY <3>1, <3>2
  <2>3. CASE ~(w = "sync" /\ ById(w, club) # {}) /\ NameMatches(w, club) = {}
    <3>1. h = [id |-> [club |-> club, by |-> w], hkjc |-> IF w = "sync" THEN club ELSE None]
      BY <2>3 DEF TeamOf
    <3> QED BY <1>3, <2>3, <3>1
  <2> QED BY <2>1, <2>2, <2>3
<1> QED BY <1>4 DEF Goal

\* What _resolve_team returns for the two clubs of a match, a writer sees from then on.
LEMMA ViewAfter ==
  ASSUME NEW w \in Writer, NEW h, NEW a, h.id # a.id, IdsAreKeys(teams), IdsAreKeys(tx[w].teams)
  PROVE  LET T == {t \in tx[w].teams : t.id \notin {h.id, a.id}} \cup ({h, a} \ teams)
             View == T \cup {t \in teams : \A u \in T : u.id # t.id}
         IN  /\ View = {t \in SeesTeams(w) : t.id \notin {h.id, a.id}} \cup {h, a}
             /\ IdsAreKeys(T)
<1> DEFINE T == {t \in tx[w].teams : t.id \notin {h.id, a.id}} \cup ({h, a} \ teams)
           View == T \cup {t \in teams : \A u \in T : u.id # t.id}
           Other2 == {t \in SeesTeams(w) : t.id \notin {h.id, a.id}}
<1>1. IdsAreKeys(T)
  BY DEF IdsAreKeys
<1>2. ASSUME NEW x \in {h, a}
      PROVE  x \in View
  <2>1. CASE x \notin teams
    BY <2>1
  <2>2. CASE x \in teams
    <3>1. \A u \in T : u.id # x.id
      BY <1>2, <2>2
    <3> QED BY <2>2, <3>1
  <2> QED BY <2>1, <2>2
<1>3. ASSUME NEW t \in Other2
      PROVE  t \in View
  <2>1. CASE t \in tx[w].teams
    BY <2>1
  <2>2. CASE t \in teams /\ \A u \in tx[w].teams : u.id # t.id
    BY <2>2
  <2> QED BY <2>1, <2>2 DEF SeesTeams
<1>4. ASSUME NEW t \in View, t \notin {h, a}
      PROVE  t \in Other2
  <2>1. CASE t \in T
    BY <1>4, <2>1 DEF SeesTeams
  <2>2. CASE t \in teams /\ \A u \in T : u.id # t.id
    <3>1. t.id \notin {h.id, a.id}
      BY <1>4, <2>2 DEF IdsAreKeys
    <3>2. \A u \in tx[w].teams : u.id # t.id
      BY <2>2, <3>1
    <3> QED BY <2>2, <3>1, <3>2 DEF SeesTeams
  <2> QED BY <2>1, <2>2
<1>5. View = Other2 \cup {h, a}
  <2> HIDE DEF View, Other2
  <2>1. Other2 \subseteq View
    BY <1>3
  <2> QED BY <1>2, <1>4, <2>1
<1> QED BY <1>1, <1>5

-----------------------------------------------------------------------------
(* What the steps of a transaction do to it.                               *)

\* The row of an item, as a record.
LEMMA RowIs ==
  ASSUME NEW w \in Writer, NEW item \in Item, NEW h \in TeamRow, NEW a \in TeamRow
  PROVE  LET row == RowOf(w, item, h, a)
         IN  /\ row \in MatchRow /\ row # None
             /\ row.hkjc = IF w = "sync" THEN item.match ELSE None
             /\ row.home = h.id /\ row.away = a.id /\ row.kickoff = item.kickoff
             /\ item.match \in Match /\ item.kickoff \in Kickoffs
             /\ row.hkjc # None <=> w = "sync"
<1> DEFINE row == RowOf(w, item, h, a)
<1>1. item.match \in Match /\ item.kickoff \in Kickoffs /\ h.id \in TeamId /\ a.id \in TeamId
  BY TeamRowIs DEF Item
<1>2. /\ row.hkjc = IF w = "sync" THEN item.match ELSE None
      /\ row.home = h.id /\ row.away = a.id /\ row.kickoff = item.kickoff
  BY DEF RowOf
<1>3. row \in MatchRow
  BY <1>1 DEF RowOf, MatchRow
<1>4. row # None /\ (row.hkjc # None <=> w = "sync")
  BY <1>1, <1>2, <1>3, FixturesAssumption
<1> QED BY <1>1, <1>2, <1>3, <1>4

\* _upsert_match and _upsert_history: the teams are recorded, the row is left, waits or is put.
LEMMA RecordsDo ==
  ASSUME TypeOK, NEW w \in Writer, NEW item \in Item, NEW h \in TeamRow, NEW a \in TeamRow,
         tx[w].open, tx[w].blocked = None, Records(w, item, h, a)
  PROVE  LET row == RowOf(w, item, h, a)
             T   == {t \in tx[w].teams : t.id \notin {h.id, a.id}} \cup ({h, a} \ teams)
         IN  /\ tx' \in [Writer -> Transaction]
             /\ \A v \in Writer : v # w => tx'[v] = tx[v]
             /\ tx'[w].open /\ tx'[w].todo = tx[w].todo \ {item} /\ tx'[w].teams = T
             /\ \/ tx'[w].matches = tx[w].matches /\ tx'[w].blocked = None
                \/ tx'[w].matches = tx[w].matches /\ tx'[w].blocked = row
                \/ tx'[w].matches = Put(tx[w].matches, row) /\ tx'[w].blocked = None
<1> DEFINE row == RowOf(w, item, h, a)
           T   == {t \in tx[w].teams : t.id \notin {h.id, a.id}} \cup ({h, a} \ teams)
           after == [tx[w] EXCEPT !.todo = @ \ {item}, !.season = @ \/ ~season, !.teams = T]
           Next3 == {after, [after EXCEPT !.blocked = row],
                     [after EXCEPT !.matches = Put(tx[w].matches, row)]}
<1>1. /\ tx[w] \in Transaction /\ tx[w].todo \in SUBSET Item /\ tx[w].teams \in SUBSET TeamRow
      /\ tx[w].matches \in SUBSET MatchRow /\ tx[w].season \in BOOLEAN /\ season \in BOOLEAN
  BY TransactionIs DEF TypeOK
<1>2. row \in MatchRow /\ T \in SUBSET TeamRow /\ Put(tx[w].matches, row) \in SUBSET MatchRow
  BY <1>1, RowIs DEF Put
<1>3. /\ after \in Transaction /\ after.open = tx[w].open /\ after.todo = tx[w].todo \ {item}
      /\ after.teams = T /\ after.matches = tx[w].matches /\ after.blocked = tx[w].blocked
  <2> HIDE DEF T
  <2> QED BY <1>1, <1>2 DEF Transaction
<1>4. \E next \in Next3 : Becomes(w, next)
  <2>1. after = [tx[w] EXCEPT
                   !.todo = @ \ {item}, !.season = @ \/ ~season,
                   !.teams = {t \in @ : t.id \notin {h.id, a.id}} \cup ({h, a} \ teams)]
    BY <1>1 DEF Transaction
  <2>2. [after EXCEPT !.matches = Put(@, row)] = [after EXCEPT !.matches = Put(tx[w].matches, row)]
    <3> HIDE DEF after, row
    <3> QED BY <1>3 DEF Transaction
  <2> HIDE DEF after
  <2> QED BY <2>1, <2>2 DEF Records
<1> HIDE DEF after, row, T
<1>5. \A next \in Next3 :
        /\ next \in Transaction /\ next.open /\ next.todo = tx[w].todo \ {item} /\ next.teams = T
        /\ \/ next.matches = tx[w].matches /\ next.blocked = None
           \/ next.matches = tx[w].matches /\ next.blocked = row
           \/ next.matches = Put(tx[w].matches, row) /\ next.blocked = None
  BY <1>2, <1>3 DEF Transaction
<1> HIDE DEF Next3
<1> QED BY <1>4, <1>5, OneBecomes DEF row, T

\* A transaction that waits, or goes on.
LEMMA WaitOrGoOn ==
  ASSUME TypeOK, NEW w \in Writer, NEW row \in MatchRow \cup {SeasonRow}
  PROVE  /\ LET next == [tx[w] EXCEPT !.blocked = row]
            IN  /\ next \in Transaction /\ next.open = tx[w].open /\ next.todo = tx[w].todo
                /\ next.teams = tx[w].teams /\ next.matches = tx[w].matches /\ next.blocked = row
         /\ LET next == [tx[w] EXCEPT !.blocked = None, !.season = TRUE]
            IN  /\ next \in Transaction /\ next.open = tx[w].open /\ next.todo = tx[w].todo
                /\ next.teams = tx[w].teams /\ next.matches = tx[w].matches /\ next.blocked = None
         /\ row \in MatchRow =>
              LET next == [tx[w] EXCEPT !.blocked = None, !.matches = Put(@, row)]
              IN  /\ next \in Transaction /\ next.open = tx[w].open /\ next.todo = tx[w].todo
                  /\ next.teams = tx[w].teams /\ next.matches = Put(tx[w].matches, row)
                  /\ next.blocked = None
<1>1. /\ tx[w] \in Transaction /\ tx[w].matches \in SUBSET MatchRow
      /\ row \in MatchRow => Put(tx[w].matches, row) \in SUBSET MatchRow
  BY TransactionIs DEF Put
<1> DEFINE M == Put(tx[w].matches, row)
<1>2. [tx[w] EXCEPT !.blocked = None, !.matches = Put(@, row)]
        = [tx[w] EXCEPT !.blocked = None, !.matches = M]
  BY <1>1 DEF Transaction
<1> HIDE DEF M
<1>3. ASSUME row \in MatchRow
      PROVE  LET next == [tx[w] EXCEPT !.blocked = None, !.matches = M]
             IN  /\ next \in Transaction /\ next.open = tx[w].open /\ next.todo = tx[w].todo
                 /\ next.teams = tx[w].teams /\ next.matches = M /\ next.blocked = None
  <2>1. M \in SUBSET MatchRow
    BY <1>1, <1>3 DEF M
  <2> QED BY <1>1, <2>1 DEF Transaction
<1>4. LET next == [tx[w] EXCEPT !.blocked = row]
      IN  /\ next \in Transaction /\ next.open = tx[w].open /\ next.todo = tx[w].todo
          /\ next.teams = tx[w].teams /\ next.matches = tx[w].matches /\ next.blocked = row
  BY <1>1 DEF Transaction
<1>5. LET next == [tx[w] EXCEPT !.blocked = None, !.season = TRUE]
      IN  /\ next \in Transaction /\ next.open = tx[w].open /\ next.todo = tx[w].todo
          /\ next.teams = tx[w].teams /\ next.matches = tx[w].matches /\ next.blocked = None
  BY <1>1 DEF Transaction
<1> QED BY <1>2, <1>3, <1>4, <1>5 DEF M

\* A transaction that begins, with a list of items.
LEMMA BeginIs ==
  ASSUME NEW list \in SUBSET Item
  PROVE  LET next == [NoTx EXCEPT !.open = TRUE, !.todo = list]
         IN  /\ next \in Transaction /\ next.open /\ next.todo = list /\ next.teams = {}
             /\ next.matches = {} /\ next.blocked = None
BY DEF NoTx, Transaction

\* Wakes, Deadlock, Collides and SyncFails: the transaction ends, or goes on.
LEMMA WakesDo ==
  ASSUME TypeOK, NEW w \in Writer, Wakes(w)
  PROVE  \/ Becomes(w, NoTx)
         \/ Becomes(w, [tx[w] EXCEPT !.blocked = None, !.season = TRUE])
         \/ /\ tx[w].blocked \notin {None, SeasonRow} /\ tx[w].blocked \in MatchRow
            /\ Becomes(w, [tx[w] EXCEPT !.blocked = None, !.matches = Put(@, tx[w].blocked)])
BY TransactionIs DEF Wakes, Fails

\* What a step of a transaction may make of it, its commit apart.
Goes(w) ==
  \/ Becomes(w, NoTx)
  \/ tx[w].open /\ Becomes(w, [tx[w] EXCEPT !.blocked = SeasonRow])
  \/ tx[w].open /\ Becomes(w, [tx[w] EXCEPT !.blocked = None, !.season = TRUE])
  \/ /\ tx[w].blocked \notin {None, SeasonRow} /\ tx[w].blocked \in MatchRow
     /\ Becomes(w, [tx[w] EXCEPT !.blocked = None, !.matches = Put(@, tx[w].blocked)])
  \/ /\ tx[w].open /\ tx[w].blocked = None
     /\ \E item \in tx[w].todo :
          \E h \in TeamOf(w, Home[item.match]), a \in TeamOf(w, Away[item.match]) :
            Records(w, item, h, a)

\* Every step of a transaction but its commit leaves the tables alone.
LEMMA StepsGo ==
  ASSUME TypeOK, NEW w \in Writer, Step(w), ~Commit(w), ~tx[w].open => tx[w] = NoTx
  PROVE  /\ Goes(w)
         /\ UNCHANGED <<now, kickoff, shown, teams, matches, season, raced, moves, failures,
                        backfills>>
<1>1. CASE Wakes(w)
  <2>1. tx[w].open
    BY <1>1, NoTxIs DEF Wakes
  <2> QED BY <1>1, <2>1, WakesDo DEF Goes, Wakes
<1>2. CASE Deadlock(w)
  BY <1>2 DEF Goes, Deadlock, Fails
<1>3. CASE \E item \in tx[w].todo : Upsert(w, item)
  BY <1>3 DEF Goes, Upsert
<1>4. CASE \E item \in tx[w].todo : w = "sync" /\ Collides(item)
  BY <1>4 DEF Goes, Collides, Fails
<1> QED BY <1>1, <1>2, <1>3, <1>4 DEF Step

-----------------------------------------------------------------------------
(* The transactions hold.                                                  *)

\* A row put into distinct ones.
LEMMA PutIsDistinct ==
  ASSUME NEW set, NEW row, RowsAreDistinct(set)
  PROVE  RowsAreDistinct(Put(set, row))
BY DEF RowsAreDistinct, Put, SameRow

\* What makes a transaction's step sound, while the tables stay: its own part.
LEMMA OnlyOne ==
  ASSUME FixturesInv, NEW w \in Writer,
         UNCHANGED <<now, shown, teams, matches, raced>>,
         \A v \in Writer : v # w => tx'[v] = tx[v],
         tx'[w].open => tx[w].open,
         ~tx'[w].open => tx'[w] = NoTx,
         tx'[w].todo \subseteq tx[w].todo,
         TeamsWritten(w)', MatchesWritten(w)'
  PROVE  TransactionsHold'
<1> SUFFICES /\ \A v \in Writer : /\ TeamsWritten(v)' /\ MatchesWritten(v)' /\ ListHolds(v)'
                                  /\ ~tx'[v].open => tx'[v] = NoTx
             /\ tx'["sync"].open /\ tx'["backfill"].open => raced'
             /\ \A m \in Match : shown'[m] # None => Day(shown'[m]) <= Today'
  BY DEF TransactionsHold
<1>1. TransactionsHold
  BY DEF FixturesInv
<1>2. Today' = Today
  BY DEF Today
<1>3. ASSUME NEW v \in Writer, v # w
      PROVE  TeamsWritten(v)' /\ MatchesWritten(v)' /\ ListHolds(v)' /\ (~tx'[v].open => tx'[v] = NoTx)
  <2>1. tx'[v] = tx[v] /\ TeamsWritten(v) /\ MatchesWritten(v) /\ ListHolds(v)
        /\ (~tx[v].open => tx[v] = NoTx)
    BY <1>1, <1>3 DEF TransactionsHold
  <2>2. SeesTeams(v)' = SeesTeams(v)
    BY <2>1 DEF SeesTeams
  <2>3. TeamsWritten(v)'
    BY <2>1, <2>2 DEF TeamsWritten, Written, IdsAreKeys, OneRow
  <2>4. MatchesWritten(v)'
    BY <2>1, <2>2 DEF MatchesWritten, Rooted
  <2>5. ListHolds(v)'
    BY <1>2, <2>1 DEF ListHolds
  <2> QED BY <2>1, <2>3, <2>4, <2>5
<1>4. ListHolds(w)'
  <2>1. ListHolds(w)
    BY <1>1 DEF TransactionsHold
  <2> QED BY <1>2, <2>1 DEF ListHolds
<1>5. tx'["sync"].open /\ tx'["backfill"].open => raced'
  BY <1>1 DEF TransactionsHold, Writer
<1>6. \A m \in Match : shown'[m] # None => Day(shown'[m]) <= Today'
  BY <1>1, <1>2 DEF TransactionsHold
<1> QED BY <1>3, <1>4, <1>5, <1>6

\* A step of a transaction keeps them sound.
LEMMA GoesHolds ==
  ASSUME FixturesInv, NEW w \in Writer, Goes(w),
         UNCHANGED <<now, shown, teams, matches, raced>>
  PROVE  tx' \in [Writer -> Transaction] /\ TransactionsHold'
<1>0. /\ TypeOK /\ TeamsAreSound /\ TeamsWritten(w) /\ MatchesWritten(w) /\ OneRow(teams)
      /\ ~tx[w].open => tx[w] = NoTx
  BY DEF FixturesInv, TransactionsHold, OneRowPerTeam
<1>1. CASE Becomes(w, NoTx)
  <2>1. /\ tx' \in [Writer -> Transaction] /\ tx'[w] = NoTx
        /\ \A v \in Writer : v # w => tx'[v] = tx[v]
    BY <1>0, <1>1, OneBecomes, NoTxIs
  <2>2. TeamsWritten(w)'
    BY <1>0, <2>1, NoTxIs DEF TeamsWritten, IdsAreKeys, SeesTeams, OneRow
  <2>3. MatchesWritten(w)'
    BY <2>1, NoTxIs DEF MatchesWritten, RowsAreDistinct
  <2> QED BY <2>1, <2>2, <2>3, NoTxIs, OnlyOne
<1>2. ASSUME NEW next \in Transaction, Becomes(w, next), next.open = tx[w].open,
             next.todo = tx[w].todo, next.teams = tx[w].teams, next.open,
             \/ next.matches = tx[w].matches /\ next.blocked \in {None, SeasonRow}
             \/ /\ tx[w].blocked \notin {None, SeasonRow} /\ next.blocked = None
                /\ next.matches = Put(tx[w].matches, tx[w].blocked)
      PROVE  tx' \in [Writer -> Transaction] /\ TransactionsHold'
  <2>1. /\ tx' \in [Writer -> Transaction] /\ tx'[w] = next
        /\ \A v \in Writer : v # w => tx'[v] = tx[v]
    BY <1>0, <1>2, OneBecomes
  <2>2. SeesTeams(w)' = SeesTeams(w)
    BY <1>2, <2>1 DEF SeesTeams
  <2>3. TeamsWritten(w)'
    BY <1>0, <1>2, <2>1, <2>2 DEF TeamsWritten, IdsAreKeys, Written, OneRow
  <2>4. \A r \in tx[w].matches \cup ({tx[w].blocked} \ {None, SeasonRow}) :
          Rooted(r, SeesTeams(w))' /\ (r.hkjc # None <=> w = "sync")
    BY <1>0, <2>2 DEF MatchesWritten, Rooted
  <2>5. next.matches \cup ({next.blocked} \ {None, SeasonRow})
          \subseteq tx[w].matches \cup ({tx[w].blocked} \ {None, SeasonRow})
    BY <1>2 DEF Put
  <2>6. RowsAreDistinct(next.matches)
    BY <1>0, <1>2, PutIsDistinct DEF MatchesWritten
  <2>7. MatchesWritten(w)'
    <3>1. RowsAreDistinct(tx'[w].matches)
      BY <2>1, <2>6
    <3>2. \A r \in tx'[w].matches \cup ({tx'[w].blocked} \ {None, SeasonRow}) :
            Rooted(r, SeesTeams(w))' /\ (r.hkjc # None <=> w = "sync")
      BY <2>1, <2>4, <2>5
    <3> QED BY <3>1, <3>2 DEF MatchesWritten, RowsAreDistinct
  <2> QED BY <1>2, <2>1, <2>3, <2>7, OnlyOne
<1>3. CASE tx[w].open /\ Becomes(w, [tx[w] EXCEPT !.blocked = SeasonRow])
  <2> DEFINE next == [tx[w] EXCEPT !.blocked = SeasonRow]
  <2>1. /\ next \in Transaction /\ next.open = tx[w].open /\ next.todo = tx[w].todo
        /\ next.teams = tx[w].teams /\ next.matches = tx[w].matches /\ next.blocked = SeasonRow
    BY <1>0, WaitOrGoOn
  <2>2. Becomes(w, next)
    BY <1>3
  <2> HIDE DEF next
  <2> QED BY <1>2, <1>3, <2>1, <2>2
<1>4. CASE tx[w].open /\ Becomes(w, [tx[w] EXCEPT !.blocked = None, !.season = TRUE])
  <2> DEFINE next == [tx[w] EXCEPT !.blocked = None, !.season = TRUE]
  <2>1. /\ next \in Transaction /\ next.open = tx[w].open /\ next.todo = tx[w].todo
        /\ next.teams = tx[w].teams /\ next.matches = tx[w].matches /\ next.blocked = None
    BY <1>0, WaitOrGoOn
  <2>2. Becomes(w, next)
    BY <1>4
  <2> HIDE DEF next
  <2> QED BY <1>2, <1>4, <2>1, <2>2
<1>5. CASE /\ tx[w].blocked \notin {None, SeasonRow} /\ tx[w].blocked \in MatchRow
           /\ Becomes(w, [tx[w] EXCEPT !.blocked = None, !.matches = Put(@, tx[w].blocked)])
  <2> DEFINE next == [tx[w] EXCEPT !.blocked = None, !.matches = Put(@, tx[w].blocked)]
  <2>1. /\ next \in Transaction /\ next.open = tx[w].open /\ next.todo = tx[w].todo
        /\ next.teams = tx[w].teams /\ next.matches = Put(tx[w].matches, tx[w].blocked)
        /\ next.blocked = None
    BY <1>0, <1>5, WaitOrGoOn
  <2>2. Becomes(w, next)
    BY <1>5
  <2>3. tx[w].open
    BY <1>0, <1>5, TransactionIs, NoTxIs
  <2> HIDE DEF next
  <2> QED BY <1>2, <1>5, <2>1, <2>2, <2>3
<1>6. ASSUME tx[w].open, tx[w].blocked = None, NEW item \in tx[w].todo,
             NEW h \in TeamOf(w, Home[item.match]), NEW a \in TeamOf(w, Away[item.match]),
             Records(w, item, h, a)
      PROVE  tx' \in [Writer -> Transaction] /\ TransactionsHold'
  <2> DEFINE row == RowOf(w, item, h, a)
             T == {t \in tx[w].teams : t.id \notin {h.id, a.id}} \cup ({h, a} \ teams)
             View == {t \in SeesTeams(w) : t.id \notin {h.id, a.id}} \cup {h, a}
  <2>1. item \in Item /\ item.match \in Match
    BY <1>0, TransactionIs DEF Item
  <2>2. Home[item.match] \in Club /\ Away[item.match] \in Club /\ Home[item.match] # Away[item.match]
    BY <2>1, ClubsOf
  <2>3. \A x, club : club \in Club /\ x \in TeamOf(w, club) =>
           /\ x \in TeamRow /\ x.id.club = club /\ x.hkjc \in {club, None}
           /\ w = "sync" => x.hkjc = club
           /\ \A t \in SeesTeams(w) : t.id = x.id /\ t.hkjc # None => x = t
           /\ \A t \in SeesTeams(w) :
                t.id # x.id /\ t.id.club = club => raced /\ (t.hkjc = None \/ x.hkjc = None)
           /\ x \notin teams => Written(w, x)
    BY <1>0, TeamOfFinds
  <2>4. h.id # a.id /\ h \in TeamRow /\ a \in TeamRow
    BY <2>2, <2>3
  <2>5. /\ tx' \in [Writer -> Transaction]
        /\ \A v \in Writer : v # w => tx'[v] = tx[v]
        /\ tx'[w].open /\ tx'[w].todo = tx[w].todo \ {item} /\ tx'[w].teams = T
        /\ \/ tx'[w].matches = tx[w].matches /\ tx'[w].blocked = None
           \/ tx'[w].matches = tx[w].matches /\ tx'[w].blocked = row
           \/ tx'[w].matches = Put(tx[w].matches, row) /\ tx'[w].blocked = None
    BY <1>0, <1>6, <2>1, <2>4, RecordsDo
  <2>6. IdsAreKeys(T) /\ SeesTeams(w)' = View
    <3>1. SeesTeams(w)' = T \cup {t \in teams : \A u \in T : u.id # t.id}
      BY <2>5 DEF SeesTeams
    <3>2. IdsAreKeys(teams) /\ IdsAreKeys(tx[w].teams)
      BY <1>0 DEF TeamsAreSound, TeamsWritten
    <3>3. IdsAreKeys(T) /\ T \cup {t \in teams : \A u \in T : u.id # t.id} = View
      BY <2>4, <3>2, ViewAfter
    <3> HIDE DEF T, View
    <3> QED BY <3>1, <3>3
  <2>7. OneRow(View)
    <3>1. ASSUME NEW x \in {h, a}, NEW t \in View, t # x
          PROVE  /\ t.id.club = x.id.club => raced
                 /\ t.hkjc # None => t.hkjc # x.hkjc
      <4>1. CASE t \in {h, a}
        BY <2>2, <2>3, <3>1, <4>1
      <4>2. CASE t \in SeesTeams(w) /\ t.id \notin {h.id, a.id}
        <5>1. t.hkjc \in {t.id.club, None}
          BY <1>0, <4>2, SeenTeams
        <5>2. t.id.club = x.id.club => raced /\ (t.hkjc = None \/ x.hkjc = None)
          BY <2>2, <2>3, <4>2
        <5>3. x.hkjc \in {x.id.club, None}
          BY <2>2, <2>3
        <5> QED BY <5>1, <5>2, <5>3
      <4> QED BY <4>1, <4>2
    <3>2. OneRow(SeesTeams(w))
      BY <1>0 DEF TeamsWritten
    <3> QED BY <3>1, <3>2 DEF OneRow
  <2>8. \A t \in T : Written(w, t)
    BY <1>0, <2>2, <2>3 DEF TeamsWritten
  <2>9. TeamsWritten(w)'
    BY <2>5, <2>6, <2>7, <2>8 DEF TeamsWritten, IdsAreKeys, OneRow, Written
  <2>10. \A r \in MatchRow : Rooted(r, SeesTeams(w)) => Rooted(r, View)
    <3>1. \A t \in SeesTeams(w) : t.hkjc # None => t \in View
      BY <2>2, <2>3
    <3>2. \A m \in Match : Home[m] # None /\ Away[m] # None
      BY ClubsOf, FixturesAssumption
    <3>3. \A r \in MatchRow : r.hkjc \in Match \cup {None}
      BY DEF MatchRow
    <3> QED BY <3>1, <3>2, <3>3 DEF Rooted
  <2>11. Rooted(row, View) /\ (row.hkjc # None <=> w = "sync")
    <3>1. /\ row.hkjc = IF w = "sync" THEN item.match ELSE None
          /\ row.home = h.id /\ row.away = a.id /\ row.kickoff = item.kickoff
          /\ row.hkjc # None <=> w = "sync"
      BY <2>1, <2>4, RowIs
    <3>2. CASE w = "sync"
      BY <2>2, <2>3, <3>1, <3>2 DEF Rooted
    <3>3. CASE w # "sync"
      <4>1. shown[item.match] = item.kickoff
        BY <3>3 DEF FixturesInv, TransactionsHold, ListHolds
      <4> QED BY <2>1, <2>2, <2>3, <3>1, <3>3, <4>1 DEF Rooted
    <3> QED BY <3>1, <3>2, <3>3
  <2> HIDE DEF row, View, T
  <2>12. \A r \in tx'[w].matches \cup ({tx'[w].blocked} \ {None, SeasonRow}) :
           Rooted(r, View) /\ (r.hkjc # None <=> w = "sync")
    <3>1. tx'[w].matches \cup ({tx'[w].blocked} \ {None, SeasonRow}) \subseteq tx[w].matches \cup {row}
      BY <2>5 DEF Put
    <3>2. \A r \in tx[w].matches : Rooted(r, View) /\ (r.hkjc # None <=> w = "sync")
      BY <1>0, <2>10, TransactionIs DEF MatchesWritten
    <3> QED BY <2>11, <3>1, <3>2
  <2>13. RowsAreDistinct(tx'[w].matches)
    BY <1>0, <2>5, PutIsDistinct DEF MatchesWritten
  <2>14. MatchesWritten(w)'
    BY <2>6, <2>12, <2>13 DEF MatchesWritten, Rooted, RowsAreDistinct
  <2> QED BY <1>6, <2>5, <2>9, <2>14, OnlyOne
<1> QED BY <1>1, <1>3, <1>4, <1>5, <1>6 DEF Goes

\* Days follow the slots.
LEMMA DayIs ==
  ASSUME NEW t \in Time, NEW u \in Time, t <= u
  PROVE  Day(t) \in Nat /\ Day(u) \in Nat /\ Day(t) <= Day(u)
<1>1. t \in Nat /\ u \in Nat /\ Slots \in Nat \ {0}
  BY FixturesAssumption DEF Time
<1> DEFINE p == t \div Slots
           q == u \div Slots
<1>2. /\ p \in Nat /\ q \in Nat
      /\ Slots * p <= t /\ u < Slots * q + Slots
  BY <1>1
<1> HIDE DEF p, q
<1>3. p <= q
  <2>1. SUFFICES ASSUME q + 1 <= p PROVE FALSE
    BY <1>2
  <2>2. Slots * (q + 1) <= Slots * p
    BY <1>1, <1>2, <2>1
  <2>3. Slots * (q + 1) = Slots * q + Slots
    BY <1>1, <1>2
  <2>4. Slots * q \in Nat /\ Slots * p \in Nat
    BY <1>1, <1>2
  <2> QED BY <1>1, <1>2, <2>2, <2>3, <2>4
<1> QED BY <1>2, <1>3 DEF Day, p, q

\* A day is a number.
LEMMA TimeIs ==
  ASSUME NEW t \in Time
  PROVE  Day(t) \in Nat
<1>1. t <= t
  BY DEF Time
<1> QED BY <1>1, DayIs

\* A transaction that begins holds.
LEMMA BeginHolds ==
  ASSUME FixturesInv, NEW w \in Writer, NEW list \in SUBSET Item, Begin(w, list),
         UNCHANGED <<now, shown, teams, matches>>,
         \A item \in list : IF w = "sync" THEN Today <= MatchDate(item.kickoff)
                            ELSE shown[item.match] = item.kickoff
  PROVE  /\ tx' \in [Writer -> Transaction] /\ raced' \in BOOLEAN /\ (raced => raced')
         /\ TransactionsHold'
<1> DEFINE next == [NoTx EXCEPT !.open = TRUE, !.todo = list]
<1>0. /\ TypeOK /\ TransactionsHold /\ OneRow(teams) /\ raced \in BOOLEAN
      /\ raced' = (raced \/ tx[Other(w)].open) /\ Other(w) \in Writer
  BY DEF FixturesInv, OneRowPerTeam, TypeOK, Begin, Other, Writer
<1>1. /\ next \in Transaction /\ next.open /\ next.todo = list /\ next.teams = {}
      /\ next.matches = {} /\ next.blocked = None
  BY BeginIs
<1>2. Becomes(w, next)
  BY DEF Begin
<1> HIDE DEF next
<1>3. /\ tx' \in [Writer -> Transaction] /\ tx'[w] = next
      /\ \A v \in Writer : v # w => tx'[v] = tx[v]
  BY <1>0, <1>1, <1>2, OneBecomes
<1>4. raced' \in BOOLEAN /\ (raced => raced')
  BY <1>0, TransactionIs
<1>5. Today' = Today
  BY DEF Today
<1>6. ASSUME NEW v \in Writer, v # w
      PROVE  TeamsWritten(v)' /\ MatchesWritten(v)' /\ ListHolds(v)' /\ (~tx'[v].open => tx'[v] = NoTx)
  <2>1. tx'[v] = tx[v] /\ TeamsWritten(v) /\ MatchesWritten(v) /\ ListHolds(v)
        /\ (~tx[v].open => tx[v] = NoTx)
    BY <1>0, <1>3, <1>6 DEF TransactionsHold
  <2>2. SeesTeams(v)' = SeesTeams(v)
    BY <2>1 DEF SeesTeams
  <2>3. OneRow(SeesTeams(v))'
    BY <1>4, <2>1, <2>2 DEF TeamsWritten, OneRow
  <2>4. TeamsWritten(v)'
    BY <2>1, <2>3 DEF TeamsWritten, Written, IdsAreKeys
  <2>5. MatchesWritten(v)'
    BY <2>1, <2>2 DEF MatchesWritten, Rooted
  <2>6. ListHolds(v)'
    BY <1>5, <2>1 DEF ListHolds
  <2> QED BY <2>1, <2>4, <2>5, <2>6
<1>7. TeamsWritten(w)' /\ MatchesWritten(w)' /\ ListHolds(w)' /\ (~tx'[w].open => tx'[w] = NoTx)
  <2>1. SeesTeams(w)' = teams
    BY <1>1, <1>3 DEF SeesTeams
  <2>2. OneRow(SeesTeams(w))'
    BY <1>0, <1>4, <2>1 DEF OneRow
  <2>3. TeamsWritten(w)'
    BY <1>1, <1>3, <2>2 DEF TeamsWritten, IdsAreKeys
  <2>4. MatchesWritten(w)'
    BY <1>1, <1>3 DEF MatchesWritten, RowsAreDistinct
  <2>5. ListHolds(w)'
    BY <1>1, <1>3, <1>5 DEF ListHolds
  <2> QED BY <1>1, <1>3, <2>3, <2>4, <2>5
<1>8. tx'["sync"].open /\ tx'["backfill"].open => raced'
  BY <1>0, <1>3 DEF TransactionsHold, Writer, Other
<1>9. \A m \in Match : shown'[m] # None => Day(shown'[m]) <= Today'
  BY <1>0, <1>5 DEF TransactionsHold
<1>10. TransactionsHold'
  BY <1>6, <1>7, <1>8, <1>9 DEF TransactionsHold
<1> QED BY <1>3, <1>4, <1>10

\* The clock and football-data's files leave what is written and listed sound.
LEMMA WorldHolds ==
  ASSUME FixturesInv, TypeOK', UNCHANGED <<teams, matches, tx, raced>>, [Next]_vars,
         \A m \in Match : shown[m] # None => shown'[m] = shown[m],
         \A m \in Match : shown'[m] # shown[m] => Day(shown'[m]) <= Today,
         now' # now => ~tx["sync"].open, now <= now'
  PROVE  TransactionsHold' /\ MatchesAreSound'
<1>0. /\ TypeOK /\ TransactionsHold /\ MatchesAreSound
      /\ now \in Time /\ now' \in Time /\ None \notin Time
  BY FixturesAssumption DEF FixturesInv, TypeOK
<1>1. Today \in Nat /\ Today' \in Nat /\ Today <= Today'
  BY <1>0, DayIs DEF Today
<1>2. ASSUME NEW r \in MatchRow, NEW set, Rooted(r, set)
      PROVE  Rooted(r, set)'
  <2>1. r.kickoff # None
    BY <1>0, <1>2, FixturesAssumption DEF MatchRow
  <2> QED BY <1>2, <2>1 DEF Rooted
<1>3. MatchesAreSound'
  <2>1. \A r \in matches : Rooted(r, teams)'
    BY <1>0, <1>2 DEF MatchesAreSound, TypeOK
  <2> QED BY <1>0, <2>1 DEF MatchesAreSound, Rooted, RowsAreDistinct
<1>4. ASSUME NEW w \in Writer
      PROVE  TeamsWritten(w)' /\ MatchesWritten(w)' /\ ListHolds(w)' /\ (~tx'[w].open => tx'[w] = NoTx)
  <2>1. TeamsWritten(w) /\ MatchesWritten(w) /\ ListHolds(w) /\ (~tx[w].open => tx[w] = NoTx)
    BY <1>0 DEF TransactionsHold
  <2>2. SeesTeams(w)' = SeesTeams(w)
    BY DEF SeesTeams
  <2>3. TeamsWritten(w)'
    BY <2>1, <2>2 DEF TeamsWritten, Written, IdsAreKeys, OneRow
  <2>4. MatchesWritten(w)'
    <3>1. \A r \in tx[w].matches \cup ({tx[w].blocked} \ {None, SeasonRow}) : r \in MatchRow
      BY <1>0, TransactionIs
    <3>2. \A r \in tx[w].matches \cup ({tx[w].blocked} \ {None, SeasonRow}) :
            Rooted(r, SeesTeams(w))' /\ (r.hkjc # None <=> w = "sync")
      BY <1>2, <2>1, <3>1 DEF MatchesWritten, SeesTeams, Rooted
    <3> QED BY <2>1, <3>2 DEF MatchesWritten, RowsAreDistinct
  <2>5. ListHolds(w)'
    <3>1. SUFFICES ASSUME NEW item \in tx[w].todo
          PROVE  IF w = "sync" THEN Today' <= MatchDate(item.kickoff) ELSE shown'[item.match] = item.kickoff
      BY DEF ListHolds
    <3>2. item.match \in Match /\ item.kickoff \in Kickoffs /\ item.kickoff # None
      <4>1. item \in Item
        BY <1>0, TransactionIs
      <4> QED BY <1>0, <4>1, FixturesAssumption DEF Item
    <3>3. CASE w = "sync"
      <4>1. now' = now
        BY <2>1, <3>3, NoTxIs
      <4> QED BY <2>1, <3>3, <4>1 DEF ListHolds, Today
    <3>4. CASE w # "sync"
      BY <2>1, <3>2, <3>4 DEF ListHolds
    <3> QED BY <3>3, <3>4
  <2> QED BY <2>1, <2>3, <2>4, <2>5
<1>5. \A m \in Match : shown'[m] # None => Day(shown'[m]) <= Today'
  <2>1. SUFFICES ASSUME NEW m \in Match, shown'[m] # None
        PROVE  Day(shown'[m]) <= Today'
    OBVIOUS
  <2>2. shown'[m] \in Time
    BY <2>1, FixturesAssumption DEF TypeOK
  <2>3. Day(shown'[m]) \in Nat
    BY <2>2, TimeIs
  <2>4. Day(shown'[m]) <= Today
    BY <1>0, <2>1 DEF TransactionsHold
  <2> QED BY <1>1, <2>3, <2>4
<1> QED BY <1>0, <1>3, <1>4, <1>5 DEF TransactionsHold

-----------------------------------------------------------------------------
(* A commit.                                                               *)

\* Match rows seen are told apart, and what the table holds keeps its root in what a
\* writer sees.
LEMMA SeenMatches ==
  ASSUME FixturesInv, NEW w \in Writer
  PROVE  RowsAreDistinct(SeesMatches(w)) /\ \A r \in SeesMatches(w) : Rooted(r, SeesTeams(w))
<1>1. /\ TypeOK /\ TeamsAreSound /\ TeamsWritten(w) /\ MatchesWritten(w) /\ MatchesAreSound
  BY DEF FixturesInv, TransactionsHold
<1>2. RowsAreDistinct(SeesMatches(w))
  BY <1>1 DEF RowsAreDistinct, SeesMatches, SameRow, MatchesAreSound, MatchesWritten
<1>3. ASSUME NEW r \in matches
      PROVE  Rooted(r, SeesTeams(w))
  <2>1. Rooted(r, teams) /\ r.hkjc \in Match \cup {None}
    BY <1>1 DEF MatchesAreSound, TypeOK, MatchRow
  <2>2. \A t \in teams : t.hkjc # None => t \in SeesTeams(w)
    BY <1>1, SeenTeams
  <2>3. \A m \in Match : Home[m] # None /\ Away[m] # None
    BY ClubsOf, FixturesAssumption
  <2> QED BY <2>1, <2>2, <2>3 DEF Rooted
<1>4. \A r \in tx[w].matches : Rooted(r, SeesTeams(w))
  BY <1>1 DEF MatchesWritten
<1> QED BY <1>2, <1>3, <1>4 DEF SeesMatches

\* A commit makes what its writer sees the tables, and leaves the other one's view sound.
LEMMA CommitHolds ==
  ASSUME FixturesInv, NEW w \in Writer, Commit(w)
  PROVE  /\ tx' \in [Writer -> Transaction]
         /\ OneRowPerTeam' /\ TeamsAreSound' /\ MatchesAreSound' /\ TransactionsHold'
<1>0. /\ TypeOK /\ TeamsAreSound /\ MatchesAreSound /\ TransactionsHold /\ OneRow(teams)
      /\ TeamsWritten(w) /\ tx[w].open
      /\ teams' = SeesTeams(w) /\ matches' = SeesMatches(w)
      /\ now' = now /\ shown' = shown /\ raced' = raced
  BY DEF FixturesInv, TransactionsHold, OneRowPerTeam, Commit
<1>1. /\ tx' \in [Writer -> Transaction] /\ tx'[w] = NoTx
      /\ \A v \in Writer : v # w => tx'[v] = tx[v]
  BY <1>0, OneBecomes, NoTxIs DEF Commit
<1>2. OneRowPerTeam'
  BY <1>0 DEF OneRowPerTeam, OneRow, TeamsWritten
<1>3. TeamsAreSound'
  <2>1. /\ IdsAreKeys(SeesTeams(w))
        /\ \A t \in SeesTeams(w) : t.hkjc \in {t.id.club, None} /\ (t.id.by = "sync" => t.hkjc # None)
    BY <1>0, SeenTeams
  <2> QED BY <1>0, <2>1 DEF TeamsAreSound, IdsAreKeys
<1>4. MatchesAreSound'
  <2>1. RowsAreDistinct(SeesMatches(w)) /\ \A r \in SeesMatches(w) : Rooted(r, SeesTeams(w))
    BY SeenMatches
  <2> QED BY <1>0, <2>1 DEF MatchesAreSound, Rooted, RowsAreDistinct
<1>5. Today' = Today
  BY <1>0 DEF Today
<1>6. TeamsWritten(w)' /\ MatchesWritten(w)' /\ ListHolds(w)' /\ (~tx'[w].open => tx'[w] = NoTx)
  <2>1. SeesTeams(w)' = teams'
    BY <1>1, NoTxIs DEF SeesTeams
  <2>2. TeamsWritten(w)'
    BY <1>1, <1>2, <2>1, NoTxIs DEF TeamsWritten, IdsAreKeys, OneRowPerTeam, OneRow
  <2>3. MatchesWritten(w)' /\ ListHolds(w)'
    BY <1>1, NoTxIs DEF MatchesWritten, ListHolds, RowsAreDistinct
  <2> QED BY <1>1, <2>2, <2>3
<1>7. ASSUME NEW v \in Writer, v # w
      PROVE  TeamsWritten(v)' /\ MatchesWritten(v)' /\ ListHolds(v)' /\ (~tx'[v].open => tx'[v] = NoTx)
  <2>1. /\ tx'[v] = tx[v] /\ TeamsWritten(v) /\ MatchesWritten(v) /\ ListHolds(v)
        /\ (~tx[v].open => tx[v] = NoTx)
    BY <1>0, <1>1, <1>7 DEF TransactionsHold
  <2>2. ~tx[v].open \/ raced
    BY <1>0, <1>7 DEF TransactionsHold, Writer
  <2>3. SeesTeams(v)' = tx[v].teams \cup {t \in SeesTeams(w) : \A u \in tx[v].teams : u.id # t.id}
    BY <1>0, <2>1 DEF SeesTeams
  <2>4. ASSUME NEW t \in tx[v].teams
        PROVE  Written(v, t)'
    <3>1. Written(v, t) /\ t.id.by \in Writer
      <4>1. t \in TeamRow
        BY <1>0, TransactionIs
      <4> QED BY <2>1, <4>1, TeamRowIs DEF TeamsWritten
    <3>2. CASE v = "sync"
      <4>1. w = "backfill"
        BY <1>7, <3>2 DEF Writer
      <4>2. teams \subseteq SeesTeams(w) /\ \A u \in SeesTeams(w) : u \in teams \/ u.id.by = "backfill"
        BY <1>0, <4>1, SeenTeams DEF SeesTeams, TeamsWritten, Written
      <4> QED BY <1>0, <3>1, <3>2, <4>2 DEF Written
    <3>3. CASE v = "backfill"
      <4>1. w = "sync"
        BY <1>7, <3>3 DEF Writer
      <4>2. \A u \in SeesTeams(w) :
              u \in teams \/ u.id.by = "sync" \/ \E u0 \in teams : u0.id = u.id
        <5>1. ASSUME NEW u \in tx[w].teams
              PROVE  u.id.by = "sync" \/ \E u0 \in teams : u0.id = u.id
          <6>1. Written(w, u) /\ u.id.by \in Writer
            BY <1>0, TransactionIs, TeamRowIs DEF TeamsWritten
          <6> QED BY <4>1, <6>1 DEF Written, Writer
        <5> QED BY <5>1 DEF SeesTeams
      <4> QED BY <1>0, <3>1, <3>3, <4>2 DEF Written
    <3> QED BY <3>2, <3>3 DEF Writer
  <2>5. OneRow(SeesTeams(v))'
    <3>1. CASE ~tx[v].open
      <4>1. SeesTeams(v)' = teams'
        BY <1>0, <2>1, <2>3, <3>1, NoTxIs
      <4> QED BY <1>2, <4>1 DEF OneRowPerTeam, OneRow
    <3>2. CASE raced
      <4>1. SUFFICES ASSUME NEW t \in SeesTeams(v)', NEW u \in SeesTeams(v)', t # u, t.hkjc # None
            PROVE  t.hkjc # u.hkjc
        BY <1>0, <3>2 DEF OneRow
      <4>2. CASE v = "backfill"
        <5>1. \A x \in tx[v].teams : x.hkjc = None
          BY <2>1, <4>2 DEF TeamsWritten, Written
        <5> QED BY <1>0, <2>3, <4>1, <5>1 DEF TeamsWritten, OneRow
      <4>3. CASE v = "sync"
        <5>1. \A x \in tx[w].teams : x.hkjc = None
          BY <1>0, <1>7, <4>3 DEF TeamsWritten, Written
        <5>2. \A x \in SeesTeams(v)' : x.hkjc # None => x \in SeesTeams(v)
          BY <2>3, <5>1 DEF SeesTeams
        <5> QED BY <2>1, <4>1, <5>2 DEF TeamsWritten, OneRow
      <4> QED BY <4>2, <4>3 DEF Writer
    <3> QED BY <2>2, <3>1, <3>2
  <2>6. TeamsWritten(v)'
    BY <2>1, <2>4, <2>5 DEF TeamsWritten, IdsAreKeys
  <2>7. MatchesWritten(v)'
    <3>1. ASSUME NEW r \in tx[v].matches \cup ({tx[v].blocked} \ {None, SeasonRow})
          PROVE  Rooted(r, SeesTeams(v))' /\ (r.hkjc # None <=> v = "sync")
      <4>1. Rooted(r, SeesTeams(v)) /\ (r.hkjc # None <=> v = "sync")
        BY <2>1, <3>1 DEF MatchesWritten
      <4>2. CASE v = "backfill"
        BY <1>0, <4>1, <4>2 DEF Rooted
      <4>3. CASE v = "sync"
        <5>1. w = "backfill"
          BY <1>7, <4>3 DEF Writer
        <5>2. SeesTeams(v) \subseteq SeesTeams(v)'
          BY <1>0, <2>3, <5>1, SeenTeams DEF SeesTeams
        <5> QED BY <1>0, <4>1, <4>3, <5>2 DEF Rooted
      <4> QED BY <4>2, <4>3 DEF Writer
    <3> QED BY <2>1, <3>1 DEF MatchesWritten, RowsAreDistinct
  <2>8. ListHolds(v)'
    BY <1>0, <1>5, <2>1 DEF ListHolds
  <2> QED BY <2>1, <2>6, <2>7, <2>8
<1>8. tx'["sync"].open /\ tx'["backfill"].open => raced'
  BY <1>1, NoTxIs DEF Writer
<1>9. \A m \in Match : shown'[m] # None => Day(shown'[m]) <= Today'
  BY <1>0, <1>5 DEF TransactionsHold
<1>10. TransactionsHold'
  BY <1>6, <1>7, <1>8, <1>9 DEF TransactionsHold
<1> QED BY <1>1, <1>2, <1>3, <1>4, <1>10

-----------------------------------------------------------------------------
(* The invariant.                                                          *)

\* What is kept from step to step; that rows are of their match follows.
Kept ==
  TypeOK /\ OneRowPerTeam /\ TeamsAreSound /\ MatchesAreSound /\ TransactionsHold

\* A row with HKJC's id hangs on team rows of the clubs the id stands for.
LEMMA KeptIsAll ==
  ASSUME Kept
  PROVE  FixturesInv
<1>1. ASSUME NEW r \in matches, r.hkjc # None
      PROVE  r.home.club = Home[r.hkjc] /\ r.away.club = Away[r.hkjc]
  <2>1. r.hkjc \in Match
    BY <1>1 DEF Kept, TypeOK, MatchRow
  <2>2. Home[r.hkjc] # None /\ Away[r.hkjc] # None
    BY <2>1, ClubsOf, FixturesAssumption
  <2> QED BY <1>1, <2>2 DEF Kept, MatchesAreSound, Rooted, TeamsAreSound
<1> QED BY <1>1 DEF Kept, FixturesInv, RowsAreTheirMatch

\* Empty tables.
LEMMA InvInit ==
  ASSUME Init
  PROVE  Kept
<1>0. \A w \in Writer : tx[w] = NoTx
  BY DEF Init
<1>1. TypeOK
  <2>1. now \in Time
    <3>1. now \in Nat /\ now <= Slots - 1 /\ Slots \in Nat \ {0} /\ Days \in Nat
      BY FixturesAssumption DEF Init
    <3>2. Slots <= Slots * (Days + 1)
      <4>1. Slots * (Days + 1) = Slots * Days + Slots /\ Slots * Days \in Nat
        BY <3>1
      <4> QED BY <3>1, <4>1
    <3>3. Slots * (Days + 1) \in Nat
      BY <3>1
    <3> QED BY <3>1, <3>2, <3>3 DEF Time
  <2>2. tx \in [Writer -> Transaction]
    BY NoTxIs DEF Init
  <2>3. moves \in 0 .. MaxMoves /\ failures \in 0 .. MaxFailures /\ backfills \in 0 .. MaxBackfills
    BY FixturesAssumption DEF Init
  <2>4. shown \in [Match -> Kickoffs \cup {None}]
    BY DEF Init
  <2> QED BY <2>1, <2>2, <2>3, <2>4 DEF Init, TypeOK
<1>2. OneRowPerTeam /\ TeamsAreSound /\ MatchesAreSound
  BY DEF Init, OneRowPerTeam, OneRow, TeamsAreSound, MatchesAreSound, IdsAreKeys, RowsAreDistinct
<1>3. ASSUME NEW w \in Writer
      PROVE  TeamsWritten(w) /\ MatchesWritten(w) /\ ListHolds(w) /\ (~tx[w].open => tx[w] = NoTx)
  <2>1. SeesTeams(w) = {}
    BY <1>0, NoTxIs DEF SeesTeams, Init
  <2> QED BY <1>0, <2>1, NoTxIs
       DEF TeamsWritten, MatchesWritten, ListHolds, OneRow, IdsAreKeys, RowsAreDistinct
<1>4. TransactionsHold
  BY <1>0, <1>3, NoTxIs DEF TransactionsHold, Init, Writer
<1> QED BY <1>1, <1>2, <1>4 DEF Kept

\* Every step keeps it.
LEMMA InvStep ==
  ASSUME FixturesInv, [Next]_vars
  PROVE  Kept'
<1>0. TypeOK /\ OneRowPerTeam /\ TeamsAreSound /\ MatchesAreSound /\ TransactionsHold
  BY DEF FixturesInv
<1>1. ASSUME UNCHANGED <<teams, matches, raced>>
      PROVE  OneRowPerTeam' /\ TeamsAreSound'
  BY <1>0, <1>1 DEF OneRowPerTeam, OneRow, TeamsAreSound, IdsAreKeys
<1>2. ASSUME UNCHANGED <<matches, teams, shown>>
      PROVE  MatchesAreSound'
  BY <1>0, <1>2 DEF MatchesAreSound, RowsAreDistinct, Rooted
<1>3. CASE UNCHANGED vars
  <2>1. TypeOK'
    BY <1>0, <1>3 DEF TypeOK, vars
  <2>2. now <= now' /\ now' = now /\ shown' = shown
    BY <1>0, <1>3 DEF TypeOK, Time, vars
  <2>3. TransactionsHold' /\ MatchesAreSound'
    BY <1>3, <2>1, <2>2, WorldHolds DEF vars
  <2> QED BY <1>1, <1>3, <2>1, <2>3 DEF Kept, vars
<1>4. CASE Tick
  <2>1. now + 1 \in Time /\ now' = now + 1 /\ ~tx["sync"].open /\ now <= now'
    BY <1>0, <1>4 DEF Tick, TypeOK, Time
  <2>2. TypeOK'
    BY <1>0, <1>4, <2>1 DEF Tick, TypeOK
  <2>3. TransactionsHold' /\ MatchesAreSound'
    BY <1>4, <2>1, <2>2, WorldHolds DEF Tick
  <2> QED BY <1>1, <1>4, <2>2, <2>3 DEF Kept, Tick
<1>5. ASSUME NEW m \in Match, NEW k \in Kickoffs, Move(m, k)
      PROVE  Kept'
  <2>1. TypeOK'
    BY <1>0, <1>5, FixturesAssumption DEF Move, TypeOK
  <2>2. now <= now' /\ now' = now /\ shown' = shown
    BY <1>0, <1>5 DEF TypeOK, Time, Move
  <2>3. TransactionsHold' /\ MatchesAreSound'
    BY <1>5, <2>1, <2>2, WorldHolds DEF Move
  <2> QED BY <1>1, <1>5, <2>1, <2>3 DEF Kept, Move
<1>6. ASSUME NEW m \in Match, NEW k \in Kickoffs, Show(m, k)
      PROVE  Kept'
  <2>1. TypeOK'
    BY <1>0, <1>6 DEF Show, TypeOK
  <2>2. now <= now' /\ now' = now
    BY <1>0, <1>6 DEF TypeOK, Time, Show
  <2>3. /\ \A n \in Match : n # m => shown'[n] = shown[n]
        /\ shown'[m] = k /\ shown[m] = None
    BY <1>0, <1>6 DEF Show, TypeOK
  <2>4. Day(k) <= Today
    BY <1>0, <1>6, DayIs, FixturesAssumption DEF Show, TypeOK, Today
  <2>5. TransactionsHold' /\ MatchesAreSound'
    BY <1>6, <2>1, <2>2, <2>3, <2>4, WorldHolds DEF Show
  <2> QED BY <1>1, <1>6, <2>1, <2>5 DEF Kept, Show
<1>7. ASSUME NEW w \in Writer, NEW list \in SUBSET Item, Begin(w, list),
             UNCHANGED <<now, kickoff, shown, teams, matches, season, moves, failures>>,
             backfills' \in 0 .. MaxBackfills,
             \A item \in list : IF w = "sync" THEN Today <= MatchDate(item.kickoff)
                                ELSE shown[item.match] = item.kickoff
      PROVE  Kept'
  <2>1. /\ tx' \in [Writer -> Transaction] /\ raced' \in BOOLEAN /\ (raced => raced')
        /\ TransactionsHold'
    BY <1>7, BeginHolds
  <2>2. TypeOK'
    BY <1>0, <1>7, <2>1 DEF TypeOK
  <2>3. OneRowPerTeam' /\ TeamsAreSound'
    BY <1>0, <1>7, <2>1 DEF OneRowPerTeam, OneRow, TeamsAreSound, IdsAreKeys
  <2> QED BY <1>2, <1>7, <2>1, <2>2, <2>3 DEF Kept
<1>8. CASE BeginSync
  <2> DEFINE list == {[match |-> m, kickoff |-> kickoff[m]] : m \in Fetched}
  <2>1. list \in SUBSET Item
    BY <1>0 DEF Fetched, Item, TypeOK
  <2>2. \A item \in list : Today <= MatchDate(item.kickoff)
    <3>1. Today \in Nat
      BY <1>0, TimeIs DEF Today, TypeOK
    <3>2. \A m \in Fetched : Today <= MatchDate(kickoff[m])
      BY <3>1, FixturesAssumption DEF Fetched
    <3> QED BY <3>2
  <2>3. Begin("sync", list)
    BY <1>8 DEF BeginSync
  <2> HIDE DEF list
  <2> QED BY <1>0, <1>7, <1>8, <2>1, <2>2, <2>3 DEF BeginSync, Writer, TypeOK
<1>9. CASE BeginBackfill
  <2> DEFINE list == {[match |-> m, kickoff |-> shown[m]] : m \in {n \in Match : shown[n] # None}}
  <2>1. list \in SUBSET Item
    BY <1>0 DEF Item, TypeOK
  <2>2. \A item \in list : shown[item.match] = item.kickoff
    OBVIOUS
  <2>3. Begin("backfill", list)
    BY <1>9 DEF BeginBackfill
  <2>4. backfills' \in 0 .. MaxBackfills
    BY <1>0, <1>9, FixturesAssumption DEF BeginBackfill, TypeOK
  <2> HIDE DEF list
  <2> QED BY <1>7, <1>9, <2>1, <2>2, <2>3, <2>4 DEF BeginBackfill, Writer
<1>10. ASSUME NEW w \in Writer, Goes(w),
              UNCHANGED <<now, kickoff, shown, teams, matches, season, raced, moves, backfills>>,
              failures' \in 0 .. MaxFailures
       PROVE  Kept'
  <2>1. tx' \in [Writer -> Transaction] /\ TransactionsHold'
    BY <1>10, GoesHolds
  <2>2. TypeOK'
    BY <1>0, <1>10, <2>1 DEF TypeOK
  <2> QED BY <1>1, <1>2, <1>10, <2>1, <2>2 DEF Kept
<1>11. CASE SyncFails
  BY <1>0, <1>10, <1>11, FixturesAssumption DEF SyncFails, Goes, Writer, TypeOK
<1>12. ASSUME NEW w \in Writer, Step(w)
       PROVE  Kept'
  <2>1. CASE Commit(w)
    <3>1. /\ tx' \in [Writer -> Transaction]
          /\ OneRowPerTeam' /\ TeamsAreSound' /\ MatchesAreSound' /\ TransactionsHold'
      BY <2>1, CommitHolds
    <3>2. teams' \subseteq TeamRow /\ matches' \subseteq MatchRow /\ season' \in BOOLEAN
      BY <1>0, <2>1, SeenRows, TransactionIs DEF Commit, SeasonSeen, TypeOK
    <3>3. TypeOK'
      BY <1>0, <2>1, <3>1, <3>2 DEF Commit, TypeOK
    <3> QED BY <3>1, <3>3 DEF Kept
  <2>2. CASE ~Commit(w)
    <3>1. ~tx[w].open => tx[w] = NoTx
      BY <1>0 DEF TransactionsHold
    <3>2. Goes(w) /\ UNCHANGED <<now, kickoff, shown, teams, matches, season, raced, moves, failures,
                                 backfills>>
      BY <1>0, <1>12, <2>2, <3>1, StepsGo
    <3> QED BY <1>0, <1>10, <3>2 DEF TypeOK
  <2> QED BY <2>1, <2>2
<1> QED BY <1>3, <1>4, <1>5, <1>6, <1>8, <1>9, <1>11, <1>12 DEF Next

\* What every state of the tables satisfies: HKJC's id is on one row of a club at most, and a
\* club has one row unless both writers were at work at one time (_resolve_team).
THEOREM FixturesInvariant == Spec => []FixturesInv
<1>1. Init => Kept
  BY InvInit
<1>2. Kept => FixturesInv
  BY KeptIsAll
<1>3. FixturesInv /\ [Next]_vars => Kept'
  BY InvStep
<1> QED BY <1>1, <1>2, <1>3, PTL DEF Spec

-----------------------------------------------------------------------------
(* The steps' promises.                                                    *)

\* No step but a commit changes the match rows.
LEMMA OnlyCommits ==
  ASSUME FixturesInv, [Next]_vars, matches' # matches
  PROVE  \E w \in Writer : Commit(w)
<1>1. PICK w \in Writer : Step(w)
  BY DEF Next, Tick, BeginSync, SyncFails, BeginBackfill, Move, Show, vars
<1>2. TypeOK /\ (~tx[w].open => tx[w] = NoTx)
  BY DEF FixturesInv, TransactionsHold
<1> QED BY <1>1, <1>2, StepsGo

\* _upsert_match: no later sync gives a match other teams.
THEOREM MatchesKeepTeams == Spec => TeamsStay
<1>1. FixturesInv /\ FixturesInv' /\ [Next]_vars =>
        [\A r \in matches, s \in matches' :
           (r.hkjc # None /\ SameRow(r, s)) => s.home = r.home /\ s.away = r.away]_vars
  <2> SUFFICES ASSUME FixturesInv, FixturesInv', [Next]_vars,
                      NEW r \in matches, NEW s \in matches', r.hkjc # None, SameRow(r, s)
      PROVE  s.home = r.home /\ s.away = r.away
    OBVIOUS
  <2>0. /\ TypeOK /\ TeamsAreSound /\ MatchesAreSound
        /\ r.hkjc = s.hkjc /\ r.hkjc \in Match
    BY DEF FixturesInv, TypeOK, MatchRow, SameRow
  <2>1. CASE matches' = matches
    BY <2>0, <2>1 DEF MatchesAreSound, RowsAreDistinct
  <2>2. CASE matches' # matches
    <3>1. PICK w \in Writer : Commit(w)
      BY <2>2, OnlyCommits
    <3>2. teams' = SeesTeams(w) /\ TeamsWritten(w)
      BY <3>1 DEF Commit, FixturesInv, TransactionsHold
    <3>3. Home[r.hkjc] # None /\ Away[r.hkjc] # None
      BY <2>0, ClubsOf, FixturesAssumption
    <3>4. \A t \in teams : t.hkjc # None => t \in teams'
      BY <2>0, <3>2, SeenTeams
    <3>5. /\ \E t \in teams' : t.id = r.home /\ t.hkjc = Home[r.hkjc]
          /\ \E t \in teams' : t.id = r.away /\ t.hkjc = Away[r.hkjc]
      BY <2>0, <3>3, <3>4 DEF MatchesAreSound, Rooted
    <3>6. /\ \E t \in teams' : t.id = s.home /\ t.hkjc = Home[r.hkjc]
          /\ \E t \in teams' : t.id = s.away /\ t.hkjc = Away[r.hkjc]
      BY <2>0 DEF FixturesInv, MatchesAreSound, Rooted
    <3>7. \A t, u \in teams' : t.hkjc # None /\ t.hkjc = u.hkjc => t = u
      BY DEF FixturesInv, OneRowPerTeam, OneRow
    <3> QED BY <3>3, <3>5, <3>6, <3>7
  <2> QED BY <2>1, <2>2
<1> QED BY <1>1, FixturesInvariant, PTL DEF Spec, TeamsStay

\* A slot lies within its day, and the days follow each other.
LEMMA WithinDays ==
  ASSUME NEW t \in Nat, NEW d \in Nat \ {0}
  PROVE  t \div d \in Nat /\ d * (t \div d) <= t /\ t < d * (t \div d) + d
BY SMTT(30)

LEMMA LaterDays ==
  ASSUME NEW d \in Nat, NEW p \in Nat, NEW q \in Nat, p <= q
  PROVE  d * p \in Nat /\ d * q \in Nat /\ d * p <= d * q
<1>1. q - p \in Nat /\ q = p + (q - p)
  OBVIOUS
<1>2. d * (q - p) \in Nat /\ d * p \in Nat
  BY <1>1
<1>3. d * q = d * p + d * (q - p)
  BY <1>1
<1> QED BY <1>2, <1>3

\* A fixture that fails the whole sync (uq_matches_natural) was played, and does so for a
\* day and the hours Hong Kong is ahead of UTC, at the longest.
THEOREM CollisionsEnd == Spec => CollisionsEndNextDay
<1>1. FixturesInv /\ [Next]_vars =>
        [\A item \in tx["sync"].todo :
           Collides(item) => /\ shown[item.match] # None /\ Day(item.kickoff) <= Today
                             /\ now < item.kickoff + Slots + Zone]_vars
  <2> SUFFICES ASSUME FixturesInv, NEW item \in tx["sync"].todo, Collides(item)
      PROVE  /\ shown[item.match] # None /\ Day(item.kickoff) <= Today
             /\ now < item.kickoff + Slots + Zone
    OBVIOUS
  <2> DEFINE w == "sync"
  <2>0. /\ TypeOK /\ TeamsAreSound /\ TransactionsHold /\ w \in Writer /\ TeamsWritten(w)
        /\ ListHolds(w)
    BY DEF FixturesInv, TransactionsHold, Writer
  <2>1. item \in Item /\ item.match \in Match /\ item.kickoff \in Kickoffs
    <3>1. item \in Item
      BY <2>0, TransactionIs
    <3> QED BY <3>1 DEF Item
  <2>2. Home[item.match] \in Club /\ Away[item.match] \in Club
    BY <2>1, ClubsOf
  <2>3. PICK h \in TeamOf(w, Home[item.match]), a \in TeamOf(w, Away[item.match]) :
          Clashes(SeesMatches(w), RowOf(w, item, h, a))
    BY DEF Collides
  <2>4. /\ h \in TeamRow /\ h.id.club = Home[item.match]
        /\ a \in TeamRow /\ a.id.club = Away[item.match]
    BY <2>0, <2>2, TeamOfFinds
  <2>5. PICK r \in SeesMatches(w) : SameKey(r, RowOf(w, item, h, a)) /\ ~SameRow(r, RowOf(w, item, h, a))
    BY <2>3 DEF Clashes
  <2>6. /\ r.home = h.id /\ r.away = a.id /\ r.kickoff = item.kickoff
        /\ ~(r.hkjc = item.match /\ r.hkjc # None)
    <3>1. LET row == RowOf(w, item, h, a)
          IN  /\ row.hkjc = item.match /\ row.home = h.id /\ row.away = a.id
              /\ row.kickoff = item.kickoff
      BY <2>0, <2>1, <2>4, RowIs
    <3> QED BY <2>5, <3>1 DEF SameKey, SameRow
  <2>7. Rooted(r, SeesTeams(w)) /\ r.hkjc \in Match \cup {None}
    <3>1. r \in MatchRow
      BY <2>0, SeenRows
    <3> QED BY <2>0, <3>1, SeenMatches DEF MatchRow
  <2>8. r.hkjc = None
    <3>1. SUFFICES ASSUME r.hkjc \in Match, r.hkjc # None PROVE FALSE
      BY <2>7
    <3>2. Home[r.hkjc] # None /\ Away[r.hkjc] # None
      BY <3>1, ClubsOf, FixturesAssumption
    <3>3. Home[r.hkjc] = r.home.club /\ Away[r.hkjc] = r.away.club
      BY <2>0, <2>7, <3>1, <3>2, SeenTeams DEF Rooted
    <3> QED BY <2>1, <2>4, <2>6, <3>1, <3>3, FixturesAssumption
  <2>9. PICK m \in Match : shown[m] = r.kickoff /\ r.home.club = Home[m] /\ r.away.club = Away[m]
    BY <2>7, <2>8 DEF Rooted
  <2>10. m = item.match
    BY <2>1, <2>4, <2>6, <2>9, FixturesAssumption
  <2>11. shown[item.match] = item.kickoff /\ item.kickoff # None
    BY <2>1, <2>6, <2>9, <2>10, FixturesAssumption
  <2>12. Day(item.kickoff) <= Today
    BY <2>0, <2>1, <2>11 DEF TransactionsHold
  <2>13. Today <= MatchDate(item.kickoff)
    BY <2>0 DEF ListHolds
  <2>14. now < item.kickoff + Slots + Zone
    <3>1. now \in Nat /\ item.kickoff \in Nat /\ Slots \in Nat \ {0} /\ Zone \in Nat
      <4>1. now \in Time /\ item.kickoff \in Time
        BY <2>0, <2>1, FixturesAssumption DEF TypeOK
      <4>2. \A t \in Time : t \in Nat
        BY DEF Time
      <4> QED BY <4>1, <4>2, FixturesAssumption
    <3> DEFINE p == now \div Slots
               q == (item.kickoff + Zone) \div Slots
    <3>2. /\ p \in Nat /\ q \in Nat /\ now < Slots * p + Slots
          /\ Slots * q <= item.kickoff + Zone
      <4>1. item.kickoff + Zone \in Nat
        BY <3>1
      <4> QED BY <3>1, <4>1, WithinDays
    <3>3. p <= q
      BY <2>13 DEF Today, Day, MatchDate
    <3> HIDE DEF p, q
    <3>4. Slots * p \in Nat /\ Slots * q \in Nat /\ Slots * p <= Slots * q
      BY <3>1, <3>2, <3>3, LaterDays
    <3> QED BY <3>1, <3>2, <3>4
  <2> QED BY <2>11, <2>12, <2>14
<1> QED BY <1>1, FixturesInvariant, PTL DEF Spec, CollisionsEndNextDay
=============================================================================

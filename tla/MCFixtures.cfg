\* Two matches that share a club, two days of three slots of eight hours, of which Hong
\* Kong is one ahead, kickoffs in two of them that move twice, a failed sync, a backfill
\* at any time.
CONSTANTS
  None = None
  SeasonRow = SeasonRow
  Match <- MCMatches
  Home <- MCHome
  Away <- MCAway
  Slots = 3
  Zone = 1
  Days = 1
  Ahead = 1
  Kickoffs = {1, 2, 4, 5}
  MaxMoves = 2
  MaxFailures = 1
  MaxBackfills = 1
SPECIFICATION Spec
CHECK_DEADLOCK FALSE
INVARIANTS
  FixturesInv
PROPERTIES
  TeamsStay
  CollisionsEndNextDay

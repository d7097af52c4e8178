\* Two games of one client, two moves.
SPECIFICATION Spec
CONSTANTS
  MaxGames = 2
  MaxMoves = 2
INVARIANT StartIsAnsweredWithItsGame
CHECK_DEADLOCK FALSE

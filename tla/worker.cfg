\* Two commands and three workers over two starts of the game.
SPECIFICATION Spec
CONSTANTS
  Clis = {c1, c2}
  Workers = {w1, w2, w3}
  None = None
  MaxGames = 2
  MaxResidents = 1
SYMMETRY Interchangeable
INVARIANTS
  TypeOK
  OneServer
  AnswersAreTrue
  RunsInItsGame
PROPERTIES
  HooksOutliveTheGame

\* Commands that come one after the other, two workers, one of which may
\* fail and stay resident, over three starts of the game.
SPECIFICATION FairSpec
CONSTANTS
  Clis = {c1}
  Workers = {w1, w2}
  None = None
  MaxGames = 3
  MaxResidents = 1
PROPERTIES
  EveryRequestAnswered
  ServedAgain

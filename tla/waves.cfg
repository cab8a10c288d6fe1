\* Two waves of one monster each, and a hero or rescue quest in the first.
SPECIFICATION FairSpec
CONSTANTS
  NumTargets = 3
  NumMonsters = 2
  AllowRecall = TRUE
  Concurrency = 1
INVARIANTS
  TypeOK
  ReceiptsFindTheirWave
  NextWaveWaits
  MarchesOnTheRoadBounded
PROPERTIES
  KeepsPromise
  BatchEnds

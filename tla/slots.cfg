\* One window, three monsters on two slots and a hero or rescue quest.
SPECIFICATION Spec
CONSTANTS
  NumTargets = 4
  NumMonsters = 3
  AllowRecall = TRUE
  Concurrency = 2
  MaxWindows = 1
INVARIANTS
  TypeOK
  ReceiptsFindTheirTarget
  SlotsBounded
PROPERTIES
  KeepsPromise

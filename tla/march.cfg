\* A batch over two monsters, or a hero and a rescue quest, and another command.
SPECIFICATION FairSpec
CONSTANTS
  m1 = m1
  m2 = m2
  hero1 = hero1
  rescue1 = rescue1
  batch = batch
  single = single
  Monsters = {m1, m2}
  Heroes = {hero1}
  Rescues = {rescue1}
  Teams = {a, b}
  Commands = {batch, single}
  Batches = {batch}
  Lists <- TheirLists
  None = None
  MaxMarches = 2
  MaxFaults = 1
CHECK_DEADLOCK FALSE
INVARIANTS TypeOK RequestsMatchResults FormationsDiffer
PROPERTIES DispatchedIsTrue CommandsEnd

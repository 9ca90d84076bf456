SPECIFICATION FairSpec
CONSTANTS
  p1 = p1  p2 = p2  o1 = o1  o2 = o2  s1 = s1  s2 = s2  n1 = n1
  Process = {p1, p2}
  Old <- TwoOld
  Earlier <- OneOrTwo
  Seeded <- TwoSeeded
  New = {n1}
  MaxCrashes = 1
  None = None
INVARIANTS TypeOK NumbersUnique CounterCovers ServesComplete
PROPERTIES MigrationsEnd SeedIsWhole
CHECK_DEADLOCK FALSE

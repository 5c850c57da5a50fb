\* Two edits from two pages, one kill.
SPECIFICATION FairSpec
CONSTANTS
  Pods = {p1, p2}
  Pages = {a1, a2}
  p1 = p1
  p2 = p2
  a1 = a1
  a2 = a2
  Edits = 2
  Kills = 1
INVARIANTS IInv StartsWithItsConfig LiveEditsKept EditsAccumulate
PROPERTIES EditsTakeEffect
CHECK_DEADLOCK FALSE

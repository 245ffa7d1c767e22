SPECIFICATION Spec
CONSTANTS
  t1 = t1
  t2 = t2
  Tasks = {t1, t2}
  NoTask = NoTask
  Selections <- MCSelections
  Typed <- MCTyped
  Stored <- MCStored
  MaxSends = 3
CHECK_DEADLOCK FALSE
INVARIANTS
  TypeOK
  NamesMatchIds
  LandsWhereAsked
PROPERTIES ImplementsCells

SPECIFICATION Spec
CONSTANTS
  k1 = k1
  k2 = k2
  Keys = {k1, k2}
  NewKeys = {k1}
  AnyKey = AnyKey
  Fresh = Fresh
  Texts <- MCTexts
  PageSize = 1
  Start <- MCStart
  MaxSends = 2
  MaxSaves = 1
  MaxOthers = 1
CHECK_DEADLOCK FALSE
INVARIANTS
  TypeOK
  
  
  
  DeadOnlyWhenListShrank
  OneBindPerClick
  

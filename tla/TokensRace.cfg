SPECIFICATION Spec
CONSTANTS
  Forever = Forever
  Nil = Nil
  Second = 2
  Workers = {w1, w2}
  Users = {u1, u2}
  Validity = 1
  RefreshValidity <- MCRefreshValidity
  MaxTime = 0
  MaxTokens = 3
  MaxCalls = 3
  MaxCrashes = 0
CHECK_DEADLOCK FALSE
INVARIANTS KeysExpire GrantedToOwner UserListComplete

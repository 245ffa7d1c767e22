SPECIFICATION Spec
CONSTANTS
  Forever = Forever
  Nil = Nil
  Second = 2
  Workers = {w1}
  Users = {u1}
  Validity = 1
  RefreshValidity <- MCRefreshValidity
  MaxTime = 3
  MaxTokens = 3
  MaxCalls = 4
  MaxCrashes = 1
CHECK_DEADLOCK FALSE
INVARIANTS TypeOK GrantedIsUsable KeyEndsWithToken ReadableIsAuthenticated UserListComplete ReplacedStaysGone
